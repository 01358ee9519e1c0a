------------------------------ MODULE Hardware -------------------------------
(***************************************************************************)
(* The daemons of the audio codec, the camera and the LoRa radio.  They    *)
(* share no state: each has its own variables, initial states and          *)
(* next-state relation.                                                    *)
(***************************************************************************)
EXTENDS Integers, Sequences, FiniteSets, SequencesExt

------------------------------------------------------------------------------
(***************************************************************************)
(* The audio daemon (crates/cp0-audiod).  One thread serves connections,   *)
(* one request each; a second thread plays the key clicks it takes from a  *)
(* bounded queue and closes the playback handle when nothing was written   *)
(* for a while.  A mutex serialises what they do with the device.  The     *)
(* setting for key sounds is kept in a file.  ALSA and the file system are *)
(* modelled by their outcomes; power may go at any moment.                 *)
(***************************************************************************)

CONSTANTS
    QueueDepth,         \* KEY_CLICK_QUEUE_DEPTH
    HardwareRange,      \* how many steps the mixer element of a channel has
    VolumeStep,         \* OUTPUT_VOLUME_STEP_PERCENT
    Percents,           \* the percentages a client asks for
    MaxFrames,          \* MAX_AUDIO_FRAMES
    MaxAudioRequests    \* how many requests are made

AudioConstants ==
    /\ QueueDepth \in Nat \ {0} /\ MaxFrames \in Nat \ {0}
    /\ VolumeStep \in 1 .. 100 /\ HardwareRange * VolumeStep >= 100
    /\ Percents \subseteq Nat

VARIABLES
    serving,    \* what the connection thread is at: a record with its `at'
    worker,     \* what the key click thread is at
    holder,     \* who has the device mutex
    queue,      \* how many clicks are queued
    playback,   \* whether the playback handle is open
    last_write, \* PlaybackActivity: "none", "recent", or "old" enough to be idle
    key_sounds_enabled,
    saved,      \* the setting in the file: "absent", "on" or "off"
    durable,    \* the same after a loss of power
    volume,     \* the mixer's value of each channel
    muted,
    audio_reply, \* the last answer about the output
    promised,   \* the settings a restart may come back with
    late_clicks, \* clicks that began after the sounds were acknowledged to be off
    asked       \* requests made

audioVars == <<serving, worker, holder, queue, playback, last_write, key_sounds_enabled, saved,
          durable, volume, muted, audio_reply, promised, late_clicks, asked>>
deviceVars == <<playback, last_write>>
outputVars == <<volume, muted, audio_reply>>
settingVars == <<key_sounds_enabled, saved, durable, promised>>

Accepting == [at |-> "accept"]
NoAudioReply == [about |-> "none"]
Callers == {"root", "shell", "other"}
Channels == {"DACL", "DACR"}

----------------------------------------------------------------------------
(* Requests                                                                *)

Requests ==
    [at : {"play", "music", "state", "increase", "decrease", "click"}]
        \cup [at : {"capture", "volume"}, n : Percents] \cup [at : {"mute", "setting"}, on : BOOLEAN]

\* AudioRequest::validate: what read_request lets through.
validate(request) ==
    CASE request.at = "capture" -> request.n \in 1 .. MaxFrames
      [] request.at = "volume" -> request.n <= 100
      [] OTHER -> TRUE

is_output_command(name) ==
    name \in {"state", "volume", "increase", "decrease", "mute", "setting", "click"}

\* cp0-audiod trusts root with samples and the shell with the output.
command_authorized(uid, name) ==
    IF name = "click" THEN uid \in {"root", "shell"}
    ELSE IF is_output_command(name) THEN uid = "shell"
    ELSE uid = "root"

\* The connection thread reads a request: an invalid or unauthorized one is
\* answered and the next connection is accepted.
audiod_handle_connection ==
    /\ serving = Accepting /\ asked < MaxAudioRequests
    /\ asked' = asked + 1 /\ audio_reply' = NoAudioReply
    /\ \E uid \in Callers, request \in Requests :
          serving' = IF validate(request) /\ command_authorized(uid, request.at)
                     THEN request ELSE Accepting
    /\ UNCHANGED <<worker, holder, queue, deviceVars, volume, muted, settingVars, late_clicks>>

----------------------------------------------------------------------------
(* The device                                                              *)

\* with_device: the mutex is taken for one operation of the device.
TakesDevice(thread) == holder = "free" /\ holder' = thread
GivesDevice(thread) == holder = thread /\ holder' = "free"

close_playback_pcm == playback' = FALSE /\ last_write' = "none"

\* write_stereo_frames writes all of the samples or closes the handle.
write_stereo_frames ==
    \/ playback' = TRUE /\ last_write' = "recent"
    \/ close_playback_pcm

\* playback_pcm: the handle is opened unless it is open, and that may fail.
open_pcm_fails == ~playback /\ UNCHANGED deviceVars

\* play_pcm_s16le and play_pcm_s16le_stereo_48k.
play_pcm_s16le == open_pcm_fails \/ write_stereo_frames

\* capture_pcm_s16le has a handle of its own, which is closed at its end.
capture_pcm_s16le == UNCHANGED deviceVars

\* close_idle_playback with PlaybackActivity::take_if_idle_at.
close_idle_playback ==
    IF last_write = "old" THEN close_playback_pcm ELSE UNCHANGED deviceVars

\* PLAYBACK_IDLE_TIMEOUT passes.
AudioTimePasses ==
    /\ last_write = "recent" /\ last_write' = "old"
    /\ UNCHANGED <<serving, worker, holder, queue, playback, outputVars, settingVars, late_clicks,
                   asked>>

ServeSamples ==
    /\ serving.at \in {"play", "music", "capture"}
    /\ \/ TakesDevice("serve") /\ UNCHANGED <<serving, deviceVars>>
       \/ /\ GivesDevice("serve") /\ serving' = Accepting
          /\ IF serving.at = "capture" THEN capture_pcm_s16le ELSE play_pcm_s16le
    /\ UNCHANGED <<worker, queue, outputVars, settingVars, late_clicks, asked>>

----------------------------------------------------------------------------
(* The output                                                              *)

read_volume_percent(value) == (value * 100 + HardwareRange \div 2) \div HardwareRange
write_volume_percent(percent) == (HardwareRange * percent + 50) \div 100

\* output_state: the mean of the two channels, rounded up.
output_percent(v) == (read_volume_percent(v["DACL"]) + read_volume_percent(v["DACR"]) + 1) \div 2

\* set_output_volume writes the channels in turn: what may be left behind,
\* the last alternative when both succeed.
set_output_volume(percent) ==
    LET value == write_volume_percent(percent)
    IN {volume, [volume EXCEPT !["DACL"] = value], [c \in Channels |-> value]}

\* The mixer cannot be opened, has no such element or refuses the value.
MixerError(about) == audio_reply' = [about |-> about, ok |-> FALSE]

\* A successful answer reports the state that is read back.
Answered(about) ==
    \/ MixerError(about)
    \/ audio_reply' = [about |-> about, ok |-> TRUE, was |-> output_percent(volume),
                 now |-> output_percent(volume'), muted |-> muted']

ServeVolume ==
    /\ volume' \in set_output_volume(serving.n) /\ UNCHANGED muted
    /\ Answered("volume")
    /\ audio_reply'.ok => volume' = [c \in Channels |-> write_volume_percent(serving.n)]

ServeMute ==
    /\ muted' \in {muted, serving.on} /\ UNCHANGED volume
    /\ Answered("mute") /\ (audio_reply'.ok => muted' = serving.on)

\* AdjustOutputVolume: a step from the percentage that is read, then unmute.
Adjusted(current) ==
    CASE serving.at = "decrease" -> IF current < VolumeStep THEN 0 ELSE current - VolumeStep
      [] serving.at = "increase" -> IF current + VolumeStep > 100 THEN 100 ELSE current + VolumeStep
ServeAdjust ==
    LET percent == Adjusted(output_percent(volume))
        moved == [c \in Channels |-> write_volume_percent(percent)]
    IN  /\ \/ volume' \in set_output_volume(percent) /\ UNCHANGED muted
           \/ volume' = moved /\ muted' = FALSE
        /\ Answered(serving.at)
        /\ audio_reply'.ok => volume' = moved /\ ~muted'

ServeOutput ==
    /\ serving.at \in {"state", "volume", "mute", "increase", "decrease"}
    /\ \/ TakesDevice("serve") /\ UNCHANGED <<serving, outputVars>>
       \/ /\ GivesDevice("serve") /\ serving' = Accepting
          /\ \/ serving.at = "state" /\ UNCHANGED <<volume, muted>> /\ Answered("state")
             \/ serving.at = "volume" /\ ServeVolume
             \/ serving.at = "mute" /\ ServeMute
             \/ serving.at \in {"increase", "decrease"} /\ ServeAdjust
    /\ UNCHANGED <<worker, queue, deviceVars, settingVars, late_clicks, asked>>

----------------------------------------------------------------------------
(* The setting                                                             *)

Setting(on) == IF on THEN "on" ELSE "off"

\* load_key_sounds_state, and the default of new_with_key_sounds_state.
load_key_sounds_state(content) == content # "off"

\* save_key_sounds_state writes and syncs a temporary file, renames it over
\* the setting and syncs the directory.  Each step may fail; after the rename
\* a restart may find either setting.
SaveRenames ==
    /\ serving.at = "setting"
    /\ \/ serving' = Accepting /\ UNCHANGED settingVars
       \/ /\ saved' = Setting(serving.on) /\ promised' = promised \cup {serving.on}
          /\ serving' = [serving EXCEPT !.at = "renamed"]
          /\ UNCHANGED <<key_sounds_enabled, durable>>
    /\ UNCHANGED <<worker, holder, queue, deviceVars, outputVars, late_clicks, asked>>

SaveSyncs ==
    /\ serving.at = "renamed" /\ serving' = Accepting
    /\ \/ UNCHANGED <<settingVars, late_clicks>>
       \/ /\ durable' = saved /\ key_sounds_enabled' = serving.on /\ promised' = {serving.on}
          /\ late_clicks' = 0
          /\ UNCHANGED saved
    /\ UNCHANGED <<worker, holder, queue, deviceVars, outputVars, asked>>

----------------------------------------------------------------------------
(* Key clicks                                                              *)

\* queue_key_click: nothing while the sounds are off; a full queue makes the
\* connection thread wait.
queue_key_click ==
    /\ serving.at = "click" /\ serving' = Accepting
    /\ \/ ~key_sounds_enabled /\ UNCHANGED queue
       \/ key_sounds_enabled /\ queue < QueueDepth /\ queue' = queue + 1
    /\ UNCHANGED <<worker, holder, deviceVars, outputVars, settingVars, late_clicks, asked>>

\* play_key_clicks: a click is taken from the queue and dropped when the
\* sounds are off by then; with nothing queued the handle is checked.
TakeClick ==
    /\ worker = "wait"
    /\ \/ /\ queue > 0 /\ queue' = queue - 1
          /\ worker' = IF key_sounds_enabled THEN "click" ELSE "wait"
       \/ queue = 0 /\ UNCHANGED queue /\ worker' = "idle"
    /\ UNCHANGED <<serving, holder, deviceVars, outputVars, settingVars, late_clicks, asked>>

WorkerUsesDevice ==
    /\ worker \in {"click", "idle"}
    /\ \/ TakesDevice("worker") /\ UNCHANGED <<worker, deviceVars, late_clicks>>
       \/ /\ GivesDevice("worker") /\ worker' = "wait"
          /\ \/ worker = "click" /\ play_pcm_s16le
             \/ worker = "idle" /\ close_idle_playback
          /\ late_clicks' = IF worker = "click" /\ ~key_sounds_enabled
                             THEN late_clicks + 1 ELSE late_clicks
    /\ UNCHANGED <<serving, queue, outputVars, settingVars, asked>>

----------------------------------------------------------------------------

\* Power goes, and the daemon starts again.
AudioRestart ==
    /\ asked < MaxAudioRequests
    /\ serving' = Accepting /\ worker' = "wait" /\ holder' = "free" /\ queue' = 0
    /\ close_playback_pcm
    /\ saved' \in {saved, durable} /\ durable' = saved'
    /\ key_sounds_enabled' = load_key_sounds_state(saved')
    /\ audio_reply' = NoAudioReply /\ late_clicks' = 0
    /\ UNCHANGED <<volume, muted, promised, asked>>

AudioInit ==
    /\ serving = Accepting /\ worker = "wait" /\ holder = "free" /\ queue = 0
    /\ playback = FALSE /\ last_write = "none"
    /\ saved = "absent" /\ durable = "absent" /\ key_sounds_enabled = TRUE
    /\ promised = {TRUE}
    /\ volume = [c \in Channels |-> 0] /\ muted = FALSE
    /\ audio_reply = NoAudioReply /\ late_clicks = 0 /\ asked = 0

ServeStep ==
    \/ ServeSamples \/ ServeOutput \/ SaveRenames \/ SaveSyncs \/ queue_key_click
WorkerStep == TakeClick \/ WorkerUsesDevice
AudioNext == audiod_handle_connection \/ ServeStep \/ WorkerStep \/ AudioTimePasses \/ AudioRestart
AudioSpec == AudioInit /\ [][AudioNext]_audioVars

----------------------------------------------------------------------------

AudioTypeOK ==
    /\ worker \in {"wait", "click", "idle"} /\ holder \in {"free", "serve", "worker"}
    /\ queue \in 0 .. QueueDepth
    /\ playback \in BOOLEAN /\ last_write \in {"none", "recent", "old"}
    /\ key_sounds_enabled \in BOOLEAN
    /\ {saved, durable} \subseteq {"absent", "on", "off"}
    /\ volume \in [Channels -> 0 .. HardwareRange] /\ muted \in BOOLEAN

\* The mutex has at most one holder, and a connection thread that waits for
\* room in the queue does not have it: the worker that makes the room can go on.
NoMutualWait ==
    /\ holder = "serve" => serving.at \in {"play", "music", "capture", "state", "volume", "mute",
                                           "increase", "decrease"}
    /\ holder = "worker" => worker # "wait"

\* An open playback handle has a time of last use, so the idle check will
\* close it: play_pcm_s16le leaves no handle open that nothing was written to.
OpenIsWatched == playback <=> last_write # "none"

\* A restart comes back with the last acknowledged setting for key sounds, or
\* one that was being saved since.
SettingKept ==
    {load_key_sounds_state(saved), load_key_sounds_state(durable), key_sounds_enabled} \subseteq promised

\* Once the sounds are acknowledged to be off, at most the click the worker
\* had already decided to play is heard.
SilenceIsPrompt == late_clicks <= 1

\* A volume key that succeeds unmutes and is noticeable: the percentage moves
\* unless it is at that end already, whatever the mixer's resolution rounds it to.
KeyIsNoticed ==
    audio_reply.about \in {"increase", "decrease"} /\ audio_reply.ok =>
        /\ ~audio_reply.muted
        /\ IF audio_reply.about = "increase"
           THEN audio_reply.now > audio_reply.was \/ audio_reply.now = 100
           ELSE audio_reply.now < audio_reply.was \/ audio_reply.now = 0

\* The threads of audiod never wait for each other for ever; it keeps the setting it acknowledged over a
\* power loss, plays at most one click after it was switched off, closes what
\* it opened, and a volume key always does something (until the end).
AudioSound ==
    AudioTypeOK /\ NoMutualWait /\ OpenIsWatched /\ SettingKept /\ SilenceIsPrompt /\ KeyIsNoticed

------------------------------------------------------------------------------
(***************************************************************************)
(* The camera daemon (crates/cp0-camerad).  Requests are served one by     *)
(* one.  The frames come over a pipe from an rpicam-vid child; a child is  *)
(* started by a thread of its own, which hands the stream over through a   *)
(* channel that the server may have dropped in the meantime.  A frame that *)
(* is not complete when a request times out is kept, and the next request  *)
(* goes on where it stopped.                                               *)
(***************************************************************************)

CONSTANTS
    FrameChunks,        \* how many reads a frame of YUV420_FRAME_BYTES takes
    HeaderBytes, ThumbnailBytes, MaxJpegBytes,
    JpegSizes,          \* sizes the encoder may produce
    SourceSize, TargetSize,     \* width and height of the stream and of the thumbnail
    MaxCaptures         \* how many requests are made

CameraConstants ==
    /\ FrameChunks \in Nat \ {0} /\ MaxCaptures \in Nat /\ JpegSizes \subseteq Nat
    /\ {HeaderBytes, ThumbnailBytes, MaxJpegBytes} \subseteq Nat \ {0}
    /\ \A i \in {1, 2} : SourceSize[i] % 2 = 0 /\ TargetSize[i] > 0

VARIABLES
    stream,     \* StreamState, with the child it is about
    starter,    \* the threads that start children
    child,      \* the children: "none", "alive", "exited" or "reaped"
    camera_reply, \* what the last request was answered with
    captures    \* requests made

cameraVars == <<stream, starter, child, camera_reply, captures>>

Ids == 1 .. MaxCaptures
Idle == [state |-> "idle"]
Starting(k) == [state |-> "starting", k |-> k, late |-> FALSE]
\* RpicamStream: `consumed' is where the pipe really is within a frame.
Running(k, late) == [state |-> "running", k |-> k, late |-> late, frames |-> FALSE,
               frame_offset |-> 0, consumed |-> 0]

Error(code) == [ok |-> FALSE, code |-> code]

----------------------------------------------------------------------------
(* Frames and payloads                                                     *)

\* yuv420_to_rgb565: the pixel of the stream a pixel of the thumbnail is
\* taken from, and where yuv420_pixel finds its luma and chroma.
SourcePixel(row, column) ==
    [row |-> (row * SourceSize[2]) \div TargetSize[2],
     column |-> (column * SourceSize[1]) \div TargetSize[1]]
LumaIndex(p) == p.row * SourceSize[1] + p.column
ChromaIndex(p) == (p.row \div 2) * (SourceSize[1] \div 2) + p.column \div 2

\* encode_yuv420_jpeg with validate_jpeg: an encoded image of a size that is allowed.
validate_jpeg(size) == size \in 1 .. MaxJpegBytes

\* encode_photo_payload and sealed_payload_descriptor.
encode_photo_payload(size) == HeaderBytes + ThumbnailBytes + size
sealed_payload_descriptor(length, minimum, maximum) == length >= minimum /\ length <= maximum
PhotoFits(size) ==
    sealed_payload_descriptor(encode_photo_payload(size), HeaderBytes + ThumbnailBytes + 1,
                              HeaderBytes + ThumbnailBytes + MaxJpegBytes)

\* What the client accepts: decode_photo_payload.
decode_photo_payload(length, size) ==
    /\ length >= HeaderBytes /\ size \in 1 .. MaxJpegBytes
    /\ length = HeaderBytes + ThumbnailBytes + size

----------------------------------------------------------------------------
(* Children                                                                *)

\* Dropping a RpicamStream kills its child and waits for it.
Dropped(k) == [child EXCEPT ![k] = IF @ = "none" THEN @ ELSE "reaped"]

\* RpicamStream::start in the thread of its own.
start(k) ==
    /\ starter[k] = "thread"
    /\ \/ child' = [child EXCEPT ![k] = "alive"] /\ starter' = [starter EXCEPT ![k] = "spawned"]
       \/ starter' = [starter EXCEPT ![k] = "failed"] /\ UNCHANGED child
    /\ UNCHANGED <<stream, camera_reply, captures>>

\* The result is sent; when the receiver is gone it is dropped instead.
ReceiverOf(k) == stream.state = "starting" /\ stream.k = k
Send(k) ==
    /\ starter[k] \in {"spawned", "failed"}
    /\ IF ReceiverOf(k)
       THEN starter' = [starter EXCEPT ![k] = IF @ = "failed" THEN "sent error" ELSE "sent"] /\ UNCHANGED child
       ELSE starter' = [starter EXCEPT ![k] = "over"] /\ child' = Dropped(k)
    /\ UNCHANGED <<stream, camera_reply, captures>>

\* A child ends by itself.
ChildExits(k) ==
    /\ child[k] = "alive" /\ child' = [child EXCEPT ![k] = "exited"]
    /\ UNCHANGED <<stream, starter, camera_reply, captures>>

\* STREAM_START_DEADLINE, or STREAM_STALL_DEADLINE once there was a frame, passes.
CameraTimePasses ==
    /\ stream.state # "idle" /\ ~stream.late
    /\ stream' = [stream EXCEPT !.late = TRUE]
    /\ UNCHANGED <<starter, child, camera_reply, captures>>

----------------------------------------------------------------------------
(* Requests                                                                *)

\* RpicamStream::capture_yuv420 on s, with the s it leaves: read_exact_frame
\* reads some chunks, and the frame is complete, late or broken.
Reads(s) ==
    LET complete(n) == s.frame_offset + n = FrameChunks
        after(n) == IF complete(n)
                    THEN [s EXCEPT !.frame_offset = 0, !.consumed = (@ + n) % FrameChunks,
                                   !.frames = TRUE, !.late = FALSE]
                    ELSE [s EXCEPT !.frame_offset = @ + n, !.consumed = (@ + n) % FrameChunks]
    IN  {[answer |-> IF complete(n)
                     THEN [ok |-> TRUE, whole |-> (s.consumed + n) % FrameChunks = 0]
                     ELSE Error(IF s.frames /\ s.late THEN "failed" ELSE "timed out"),
          left |-> after(n)] : n \in 0 .. FrameChunks - s.frame_offset}

\* A child that ended, or one that gave no first frame in time, is given up;
\* so is one whose pipe breaks while it is read.
CaptureStream(s) ==
    IF child[s.k] # "alive" \/ (~s.frames /\ s.late)
    THEN {[answer |-> Error("failed"), left |-> s]}
    ELSE Reads(s) \cup {[answer |-> Error("failed"), left |-> s]}

\* RpicamBackend::capture_yuv420 on a running stream: any error but a timeout
\* drops it.
CaptureRunning(s, result) ==
    /\ result \in CaptureStream(s)
    /\ IF result.answer.ok \/ result.answer.code = "timed out"
       THEN stream' = result.left /\ UNCHANGED child
       ELSE stream' = Idle /\ child' = Dropped(s.k)

\* The answer to a preview or a photo request that got the frame.
Answers(answer) ==
    \/ camera_reply' = answer
    \/ /\ answer.ok
       /\ \E size \in JpegSizes :
             camera_reply' = IF validate_jpeg(size) /\ PhotoFits(size)
                      THEN [ok |-> TRUE, whole |-> answer.whole, size |-> size,
                            length |-> encode_photo_payload(size)]
                      ELSE Error("failed")

\* RpicamBackend::capture_yuv420 for a request of a trusted peer: a stream is
\* started and the request times out; a starting one is looked at.
CaptureIdle ==
    LET k == captures + 1
    IN  /\ stream = Idle
        /\ \/ stream' = Starting(k) /\ starter' = [starter EXCEPT ![k] = "thread"]
              /\ camera_reply' = Error("timed out")
           \/ camera_reply' = Error("internal") /\ UNCHANGED <<stream, starter>>
        /\ UNCHANGED child

CaptureStarting ==
    /\ stream.state = "starting"
    /\ LET k == stream.k IN
       \/ /\ starter[k] = "sent" /\ starter' = [starter EXCEPT ![k] = "over"]
          /\ \E late \in {FALSE, stream.late} : \E result \in CaptureStream(Running(k, late)) :
                CaptureRunning(Running(k, late), result) /\ Answers(result.answer)
       \/ /\ starter[k] = "sent error" /\ starter' = [starter EXCEPT ![k] = "over"]
          /\ stream' = Idle /\ camera_reply' = Error("unavailable") /\ UNCHANGED child
       \/ /\ starter[k] \notin {"sent", "sent error"}
          /\ IF stream.late THEN stream' = Idle /\ camera_reply' = Error("failed")
             ELSE camera_reply' = Error("timed out") /\ UNCHANGED stream
          /\ UNCHANGED <<starter, child>>

CaptureFrame ==
    /\ stream.state = "running" /\ UNCHANGED starter
    /\ \E result \in CaptureStream(stream) :
          CaptureRunning(stream, result) /\ Answers(result.answer)

camerad_handle_connection ==
    /\ captures < MaxCaptures /\ captures' = captures + 1
    /\ CaptureIdle \/ CaptureStarting \/ CaptureFrame

\* BACKEND_IDLE_TIMEOUT without a connection: what the stream or the channel
\* holds is dropped.
release ==
    /\ stream' = Idle
    /\ \/ stream.state = "idle" /\ UNCHANGED <<starter, child>>
       \/ stream.state = "running" /\ child' = Dropped(stream.k) /\ UNCHANGED starter
       \/ /\ stream.state = "starting"
          /\ IF starter[stream.k] \in {"sent", "sent error"}
             THEN child' = Dropped(stream.k) /\ starter' = [starter EXCEPT ![stream.k] = "over"]
             ELSE UNCHANGED <<starter, child>>
    /\ UNCHANGED <<camera_reply, captures>>

----------------------------------------------------------------------------

CameraInit ==
    /\ stream = Idle
    /\ starter = [k \in Ids |-> "none"] /\ child = [k \in Ids |-> "none"]
    /\ camera_reply = Error("none") /\ captures = 0

StarterStep(k) == start(k) \/ Send(k)
CameraNext ==
    \/ camerad_handle_connection \/ release \/ CameraTimePasses
    \/ \E k \in Ids : StarterStep(k) \/ ChildExits(k)
CameraSpec == CameraInit /\ [][CameraNext]_cameraVars

----------------------------------------------------------------------------

CameraTypeOK ==
    /\ stream.state \in {"idle", "starting", "running"}
    /\ starter \in [Ids -> {"none", "thread", "spawned", "failed", "sent", "sent error", "over"}]
    /\ child \in [Ids -> {"none", "alive", "exited", "reaped"}]

\* A camera process that has not been reaped is known to somebody who will end
\* it: the stream the server holds, or the thread that is handing it over,
\* whether or not the server still waits for it.
NoStrayCamera ==
    \A k \in Ids : child[k] \in {"alive", "exited"} =>
        \/ starter[k] = "spawned"
        \/ ReceiverOf(k) /\ starter[k] = "sent"
        \/ stream.state = "running" /\ stream.k = k

\* A frame that is delivered is one frame of the sensor, also when it was
\* read by several requests, and a started stream is a new one.
FramesWhole ==
    /\ camera_reply.ok => camera_reply.whole
    /\ stream.state = "running" => stream.consumed = stream.frame_offset

\* A photo that is sent fits what its receiver decodes.
PhotosAccepted ==
    camera_reply.ok /\ "size" \in DOMAIN camera_reply =>
        decode_photo_payload(camera_reply.length, camera_reply.size)

\* No pixel of the thumbnail is read from outside the planes of the frame.
PixelsInFrame ==
    \A row \in 0 .. TargetSize[2] - 1, column \in 0 .. TargetSize[1] - 1 :
        LET p == SourcePixel(row, column) IN
        /\ LumaIndex(p) < SourceSize[1] * SourceSize[2]
        /\ ChromaIndex(p) < (SourceSize[1] \div 2) * (SourceSize[2] \div 2)

\* Every camera process has somebody who will end it, a frame is handed out whole,
\* a photo that is answered is one the library accepts, and the scaling reads
\* no pixel outside the frame.
CameraSound == CameraTypeOK /\ NoStrayCamera /\ FramesWhole /\ PhotosAccepted /\ PixelsInFrame

------------------------------------------------------------------------------
(***************************************************************************)
(* The LoRa daemon (crates/cp0-radiod): its configuration file, the limit  *)
(* on transmissions and the driver of the SX127x chip, which works on its  *)
(* own between two register accesses.  Any access over SPI may fail, with  *)
(* or without having reached the chip.  Requests are served one by one.    *)
(***************************************************************************)

CONSTANTS
    MaxPayload,         \* MAX_LORA_PAYLOAD_BYTES
    PayloadSizes,       \* sizes of the payloads clients send
    Interval,           \* MIN_TRANSMIT_INTERVAL, in ticks
    ConfigLines,        \* lines a configuration may have, as <<key, value>>
    MaxLines,           \* how long a configuration is
    MaxRadioRequests    \* how many requests are made

RadioConstants ==
    /\ MaxPayload \in Nat \ {0} /\ PayloadSizes \subseteq Nat
    /\ Interval \in Nat \ {0} /\ MaxLines \in Nat /\ MaxRadioRequests \in Nat

VARIABLES
    lines,      \* the configuration file
    chip,       \* the SX127x: its mode, interrupt flags and FIFO
    pc,         \* where the driver is
    current,    \* the request that is served
    last_transmit,  \* ticks since the last successful transmission, or Never
    radio_reply, \* the last answer
    aired,      \* requests whose payload has been transmitted
    heard,      \* the request during which the last packet arrived
    gap,        \* the shortest time between two transmissions of this process
    requests

radioVars == <<lines, chip, pc, current, last_transmit, radio_reply, aired, heard, gap, requests>>

Never == -1
NoRadioReply == [what |-> "none"]
Failed(code) == [what |-> "error", code |-> code]

----------------------------------------------------------------------------
(* Configuration                                                           *)

\* RadioRegion::contains
Band == [cn470 |-> 470000000 .. 510000000, eu868 |-> 863000000 .. 870000000,
         us915 |-> 902000000 .. 928000000, au915 |-> 902000000 .. 928000000,
         as923 |-> 915000000 .. 928000000, in865 |-> 865000000 .. 867000000,
         kr920 |-> 920000000 .. 923000000, ru864 |-> 864000000 .. 870000000]
contains(region, frequency) == frequency \in Band[region]

Keys == {"enabled", "region", "frequency_hz"}
ValidValue(key, value) ==
    CASE key = "enabled" -> value \in {"true", "false"}
      [] key = "region" -> value \in DOMAIN Band
      [] key = "frequency_hz" -> value >= 0     \* -1: not a number

\* parse_config reads the lines in turn: an unknown key, a second value or an
\* invalid one is an error; a comment is skipped.
Refused(found) == [found EXCEPT !["error"] = {"yes"}]
ReadLine(found, line) ==
    CASE line[1] = "comment" -> found
      [] line[1] \notin Keys \cup {"comment"} -> Refused(found)
      [] line[1] \in Keys ->
            IF found[line[1]] = {} /\ ValidValue(line[1], line[2])
            THEN [found EXCEPT ![line[1]] = {line[2]}] ELSE Refused(found)
ReadLines(input) == FoldLeft(ReadLine, [key \in Keys \cup {"error"} |-> {}], input)

Complete(found) ==
    \E region \in found["region"], frequency \in found["frequency_hz"] : contains(region, frequency)
parse_config(input) ==
    LET found == ReadLines(input) IN
    CASE found["error"] # {} \/ found["enabled"] = {} -> "error"
      [] found["error"] = {} /\ found["enabled"] = {"false"} ->
            IF found["region"] = {} /\ found["frequency_hz"] = {} THEN "disabled" ELSE "error"
      [] found["error"] = {} /\ found["enabled"] = {"true"} ->
            IF Complete(found) THEN "enabled" ELSE "error"

----------------------------------------------------------------------------
(* The chip, while the daemon is not looking                               *)

TxDone ==
    /\ chip.mode = "tx"
    /\ chip' = [chip EXCEPT !.mode = "standby", !.flags = @ \cup {"tx_done"}]
    /\ aired' = aired \cup {chip.fifo}
    /\ UNCHANGED <<lines, pc, current, last_transmit, radio_reply, heard, gap, requests>>

RxDone ==
    /\ chip.mode = "rx" /\ heard' = current
    /\ \E size \in PayloadSizes, crc \in SUBSET {"crc_error"} :
          chip' = [chip EXCEPT !.mode = "standby", !.flags = @ \cup {"rx_done"} \cup crc, !.received = size]
    /\ UNCHANGED <<lines, pc, current, last_transmit, radio_reply, aired, gap, requests>>

RxTimeout ==
    /\ chip.mode = "rx"
    /\ chip' = [chip EXCEPT !.mode = "standby", !.flags = @ \cup {"rx_timeout"}]
    /\ UNCHANGED <<lines, pc, current, last_transmit, radio_reply, aired, heard, gap, requests>>

Tick ==
    /\ last_transmit \in 0 .. Interval - 1 /\ last_transmit' = last_transmit + 1
    /\ UNCHANGED <<lines, chip, pc, current, radio_reply, aired, heard, gap, requests>>

----------------------------------------------------------------------------
(* The driver                                                              *)

Answer(r) == pc' = "idle" /\ radio_reply' = r

\* A run of register writes that leaves the chip as `effect' says; a failed
\* transfer ends the request.
Writes(effect, next) ==
    \/ chip' = effect /\ pc' = next /\ UNCHANGED radio_reply
    \/ chip' \in {chip, effect} /\ Answer(Failed("device"))

Standby == [chip EXCEPT !.mode = "standby"]

\* Sx127xDevice::open and initialize: the chip is put to sleep and to standby,
\* is configured, and its flags are cleared.
initialize ==
    /\ pc \in {"send: open", "receive: open"}
    /\ Writes([Standby EXCEPT !.flags = {}], IF pc = "send: open" THEN "send: load" ELSE "receive: listen")
    /\ UNCHANGED <<lines, current, last_transmit, aired, heard, gap, requests>>

\* transmit
LoadFifo ==
    /\ pc = "send: load"
    /\ Writes([Standby EXCEPT !.flags = {}, !.fifo = current], "send: start")
    /\ UNCHANGED <<lines, current, last_transmit, aired, heard, gap, requests>>
StartTx ==
    /\ pc = "send: start"
    /\ Writes([chip EXCEPT !.mode = "tx"], "send: poll")
    /\ UNCHANGED <<lines, current, last_transmit, aired, heard, gap, requests>>

\* The flags are polled until the payload is out or TX_TIMEOUT passes; a
\* success is counted from now on.
PollTx ==
    /\ pc = "send: poll"
    /\ \/ /\ "tx_done" \in chip.flags
          /\ \/ /\ chip' = [Standby EXCEPT !.flags = @ \ {"tx_done"}]
                /\ Answer([what |-> "sent", request |-> current])
                /\ last_transmit' = 0
                /\ gap' = IF last_transmit = Never \/ last_transmit >= gap THEN gap ELSE last_transmit
             \/ /\ chip' \in {chip, [chip EXCEPT !.flags = @ \ {"tx_done"}]} /\ Answer(Failed("device"))
                /\ UNCHANGED <<last_transmit, gap>>
       \/ /\ "tx_done" \notin chip.flags /\ chip' \in {chip, Standby}
          /\ Answer(Failed("timed out")) /\ UNCHANGED <<last_transmit, gap>>
    /\ UNCHANGED <<lines, current, aired, heard, requests>>

\* receive
Listen ==
    /\ pc = "receive: listen"
    /\ Writes([chip EXCEPT !.mode = "rx", !.flags = {}], "receive: poll")
    /\ UNCHANGED <<lines, current, last_transmit, aired, heard, gap, requests>>
PollRx ==
    /\ pc = "receive: poll"
    /\ \/ /\ "rx_done" \in chip.flags /\ chip' = [Standby EXCEPT !.flags = {}]
          /\ Answer(IF "crc_error" \in chip.flags THEN [what |-> "nothing"]
                    ELSE IF chip.received \in 1 .. MaxPayload
                         THEN [what |-> "packet", size |-> chip.received, request |-> current]
                    ELSE Failed("device"))
       \/ /\ "rx_done" \notin chip.flags /\ chip' = [Standby EXCEPT !.flags = @ \ {"rx_timeout"}]
          /\ Answer([what |-> "nothing"])
       \/ UNCHANGED chip /\ Answer(Failed("device"))
    /\ UNCHANGED <<lines, current, last_transmit, aired, heard, gap, requests>>

----------------------------------------------------------------------------
(* Requests of appd                                                        *)

Fault_transmit_allowed == last_transmit = Never \/ last_transmit > 0
transmit_allowed == last_transmit = Never \/ last_transmit >= Interval

Begins ==
    /\ pc = "idle" /\ parse_config(lines) # "error" /\ requests < MaxRadioRequests
    /\ requests' = requests + 1 /\ current' = requests'

\* The size is checked when the payload is decoded and again by send_lora.
send_lora(size) ==
    /\ Begins
    /\ IF parse_config(lines) = "disabled" THEN Answer(Failed("disabled"))
       ELSE IF size \notin 1 .. MaxPayload THEN Answer(Failed("invalid"))
       ELSE IF ~transmit_allowed THEN Answer(Failed("rate limited"))
       ELSE pc' = "send: open" /\ radio_reply' = NoRadioReply
    /\ UNCHANGED <<lines, chip, last_transmit, aired, heard, gap>>

receive_lora ==
    /\ Begins
    /\ IF parse_config(lines) = "disabled" THEN Answer(Failed("disabled"))
       ELSE pc' = "receive: open" /\ radio_reply' = NoRadioReply
    /\ UNCHANGED <<lines, chip, last_transmit, aired, heard, gap>>

\* The daemon is started again, and has forgotten when it last transmitted.
RadioRestart ==
    /\ requests < MaxRadioRequests
    /\ pc' = "idle" /\ radio_reply' = NoRadioReply /\ last_transmit' = Never
    /\ UNCHANGED <<lines, chip, current, aired, heard, gap, requests>>

RadioInit ==
    /\ lines \in SeqOf(ConfigLines, MaxLines)
    /\ chip = [mode |-> "standby", flags |-> {}, fifo |-> 0, received |-> 0]
    /\ pc = "idle" /\ current = 0 /\ last_transmit = Never /\ radio_reply = NoRadioReply
    /\ aired = {} /\ heard = 0 /\ gap = Interval /\ requests = 0

RadioNext ==
    \/ TxDone \/ RxDone \/ RxTimeout \/ Tick
    \/ initialize \/ LoadFifo \/ StartTx \/ PollTx \/ Listen \/ PollRx
    \/ (\E size \in PayloadSizes : send_lora(size)) \/ receive_lora \/ RadioRestart
RadioSpec == RadioInit /\ [][RadioNext]_radioVars

----------------------------------------------------------------------------

RadioTypeOK ==
    /\ chip.mode \in {"standby", "tx", "rx"}
    /\ chip.flags \subseteq {"tx_done", "rx_done", "crc_error", "rx_timeout"}
    /\ last_transmit \in {Never} \cup 0 .. Interval

\* The radio is on only with a region and a frequency of that region, and a
\* configuration that contradicts itself is refused: whatever the order of its lines.
ConfigSound ==
    LET given == {lines[i] : i \in DOMAIN lines}
        once(key) == Cardinality({i \in DOMAIN lines : lines[i][1] = key}) = 1
    IN  /\ parse_config(lines) = "enabled" <=>
              /\ \A key \in Keys : once(key)
              /\ \A line \in given : line[1] \in Keys \cup {"comment"}
              /\ <<"enabled", "true">> \in given
              /\ \E region \in DOMAIN Band, line \in given :
                    /\ <<"region", region>> \in given
                    /\ line[1] = "frequency_hz" /\ contains(region, line[2])
        /\ parse_config(lines) = "disabled" =>
              \A line \in given : line = <<"enabled", "false">> \/ line[1] = "comment"

\* A payload is acknowledged only when the chip has transmitted it, and not
\* because of a flag an earlier transmission left behind.
SentIsOnAir == radio_reply.what = "sent" => radio_reply.request \in aired

\* A packet that is returned arrived during that request and fits its bounds.
ReceivedIsFresh ==
    radio_reply.what = "packet" => radio_reply.size \in 1 .. MaxPayload /\ heard = radio_reply.request

\* One process leaves MIN_TRANSMIT_INTERVAL between two successful transmissions.
RateHeld == gap >= Interval

\* After a request that did not fail the transmitter is off.
ChipQuiet == pc = "idle" /\ radio_reply.what \in {"sent", "packet", "nothing"} => chip.mode = "standby"

\* radiod transmits only as configured, answers "sent" only for what was on
\* air, returns only packets received for the request, and leaves the minimal
\* interval between transmissions.
RadioSound == RadioTypeOK /\ ConfigSound /\ SentIsOnAir /\ ReceivedIsFresh /\ RateHeld /\ ChipQuiet
==============================================================================
