----------------------------- MODULE WireFrames ------------------------------
(***************************************************************************)
(* The newline-delimited JSON frames every service of the device speaks.   *)
(*                                                                         *)
(* A message is abstracted to its encoded size in bytes, without the       *)
(* newline.  A connection is the sequence of lines its peer wrote; the     *)
(* kernel hands them to the reader in pieces of any size.  The crates read *)
(* in five different ways ("fill", "bounded", "until", "take" and          *)
(* "descriptor"), each with its own test of the frame limit.  What a crate *)
(* may put in a frame is bounded by its validate functions, and the        *)
(* largest message they let through is computed here from their bounds.    *)
(***************************************************************************)
EXTENDS Integers, Sequences, FiniteSetsExt, SequencesExt

CONSTANTS
  Links,       \* the protocols explored, of those Protocol knows
  MaxFrames    \* lines put on one connection

(***************************************************************************)
(* Sizes.  Envelope bounds the punctuation, field names, tags and integers *)
(* around the variable part of any message (the longest is 220 bytes).     *)
(***************************************************************************)
Envelope == 220
base64_length(size) == 4 * ((size + 2) \div 3)
Plain(chars) == 4 * chars        \* no control characters: UTF-8, or \" and \\
Escaped(chars) == 6 * chars      \* control characters become \u00XX
AppId == 128
Version == 64
Name == Escaped(32)
ErrorText == Plain(160)

GpioMessages == {ErrorText}
RadioMessages == {base64_length(64), ErrorText}
PowerMessages == {ErrorText}
DisplayMessages == {ErrorText}
ConnectivityMessages == {ErrorText}
CameraMessages == {ErrorText}
UsbMessages == {ErrorText}
AudioRequests == {base64_length(1024 * 2), base64_length(1920 * 4)}
AudioResponses == {base64_length(1024 * 2), ErrorText}
NetworkMessages == {Plain(1024), base64_length(8192), ErrorText}
StorageRequests == {AppId + 64 + base64_length(8192)}
StorageResponses == {base64_length(8192), ErrorText}
DocumentMessages == {32, 16 * (84 + 128)}
ProvisionRequests == {2 * Plain(64), Plain(32) + Plain(64)}
ProvisionResponses == {64 * (76 + Plain(32)), ErrorText}
\* the answer to Logs, an appd response inside a frame of half its size, is
\* left out: its 3 KiB of text may double when it is escaped
DeveloperMessages == {32 + 2 * 512 + 64, 8 * (216 + 32)}
\* the store's error; its pages are bounded by the catalog's own limits
StoreMessages == {ErrorText}
\* one page of applications, of tasks, of log lines; a document prompt
ControlMessages ==
  { 8 * (392 + AppId + Name + Version), 10 * (394 + AppId + Name + Version),
    AppId + 2 * 3 * 1024 + 100 * 3, AppId + Name + 16 * (84 + 128) }
ControlRequests == {128 + AppId + Version + 64}
BrokerRequests ==
  { Plain(32) + Plain(160), Plain(1024), base64_length(1920 * 4), 64 + base64_length(8192),
    96 + base64_length(1024) }
BrokerResponses ==
  { base64_length(8192), base64_length(1024 * 2), 96 + base64_length(1024), ErrorText }

(***************************************************************************)
(* One record per connection: the limit write_frame enforces, the limit    *)
(* the reader at the other end enforces and how it reads, and the messages.*)
(***************************************************************************)
Frames(limit, reader, receives, messages) ==
  [limit |-> limit, reader |-> reader, receives |-> receives,
   largest |-> Envelope + Max(messages)]

gpio == Frames(2048, "fill", 2048, GpioMessages)
radio == Frames(2048, "fill", 2048, RadioMessages)
power == Frames(1024, "fill", 1024, PowerMessages)
display == Frames(2048, "fill", 2048, DisplayMessages)
connectivity == Frames(2048, "fill", 2048, ConnectivityMessages)
camera == Frames(2048, "fill", 2048, CameraMessages)
audio == Frames(12288, "fill", 12288, AudioRequests \cup AudioResponses)
network == Frames(16384, "fill", 16384, NetworkMessages)
storage == Frames(16384, "fill", 16384, StorageRequests \cup StorageResponses)
provision == Frames(16384, "fill", 16384, ProvisionRequests \cup ProvisionResponses)
usb_media == Frames(4096, "until", 4096, UsbMessages)
store == Frames(65536, "take", 65536, StoreMessages)
developer == Frames(4096, "bounded", 4096, DeveloperMessages)
document == Frames(4096, "fill", 4096, DocumentMessages)
control_response == Frames(8192, "fill", 8192, ControlMessages)
broker_response == Frames(16384, "fill", 16384, BrokerResponses)

\* frames that may carry a descriptor, read with recvmsg into a fixed buffer
document_opened == Frames(4096, "descriptor", 4096, {32, 84 + 128})
camera_captured == Frames(2048, "descriptor", 2048, CameraMessages)
control_request == Frames(8192, "descriptor", 8192, ControlRequests)
\* recv_broker_request_with_fd reads with the document protocol's function
broker_request == Frames(16384, "descriptor", 4096, BrokerRequests)

Protocol(l) ==
  CASE l = "gpio" -> gpio [] l = "radio" -> radio
    [] l = "power" -> power [] l = "display" -> display
    [] l = "connectivity" -> connectivity [] l = "camera" -> camera
    [] l = "audio" -> audio [] l = "network" -> network
    [] l = "storage" -> storage [] l = "provision" -> provision
    [] l = "usb_media" -> usb_media [] l = "store" -> store
    [] l = "developer" -> developer [] l = "document" -> document
    [] l = "document_opened" -> document_opened [] l = "camera_captured" -> camera_captured
    [] l = "control_request" -> control_request [] l = "control_response" -> control_response
    [] l = "broker_request" -> broker_request [] l = "broker_response" -> broker_response

WireConstants == Links # {} /\ \A l \in Links : Protocol(l).limit \in Nat /\ MaxFrames \in Nat \ {0}

-----------------------------------------------------------------------------
VARIABLES
  link,      \* the protocol of this connection
  lines,     \* bytes of each line written, its newline included
  torn,      \* bytes of a last line the peer closed before terminating
  closed,    \* the peer closed its end
  regular,   \* every line came from write_frame, one at a time
  taken,     \* bytes of the line being read that are already in the frame
  frames_got, \* sizes of the frames the reader returned
  result     \* "reading", "end" or the error that ended the connection

vars == <<link, lines, torn, closed, regular, taken, frames_got, result>>

P == Protocol(link)

Init ==
  /\ link \in Links
  /\ lines = <<>> /\ torn = 0 /\ closed = FALSE /\ regular = TRUE
  /\ taken = 0 /\ frames_got = <<>> /\ result = "reading"

\* sizes on both sides of every limit of this connection
Sizes == {1, P.receives - 1, P.receives, P.limit - 1, P.limit, P.largest}

Idle == Len(lines) = Len(frames_got)
Room == Len(lines) < MaxFrames /\ ~closed /\ result = "reading"

\* a write_frame that lets a frame of exactly the limit grow by its newline
Fault_write_frame(size) ==
  /\ Room /\ Idle
  /\ size <= P.limit
  /\ lines' = Append(lines, size + 1)
  /\ UNCHANGED <<link, torn, closed, regular, taken, frames_got, result>>

\* a client or a service writes one message and waits for the peer to take it
write_frame(size) ==
  /\ Room /\ Idle
  /\ size + 1 <= P.limit
  /\ lines' = Append(lines, size + 1)
  /\ UNCHANGED <<link, torn, closed, regular, taken, frames_got, result>>

\* a peer that does not use write_frame: a line of any size, or two at once
PeerWrites(size) ==
  /\ Room
  /\ lines' = Append(lines, size + 1)
  /\ regular' = FALSE
  /\ UNCHANGED <<link, torn, closed, taken, frames_got, result>>

\* the peer goes away, possibly in the middle of a line
PeerCloses(size) ==
  /\ ~closed /\ result = "reading"
  /\ closed' = TRUE /\ torn' = size
  /\ UNCHANGED <<link, lines, regular, taken, frames_got, result>>

\* what is left of the line being read, and whether it is terminated
Reading == Len(frames_got) + 1
Terminated == Reading <= Len(lines)
Left == IF Terminated THEN lines[Reading] - taken ELSE torn - taken
\* the places of a line where a piece may end that tell the readers apart
Cuts == {1, P.receives - 1, P.receives, P.receives + 1, taken + Left - 1, taken + Left}
Pieces == {cut - taken : cut \in Cuts} \cap 1..Left

Fails(error) ==
  result' = error /\ UNCHANGED <<link, lines, torn, closed, regular, taken, frames_got>>
Returns ==
  /\ frames_got' = Append(frames_got, lines[Reading] - 1) /\ taken' = 0
  /\ UNCHANGED <<link, lines, torn, closed, regular, result>>
Keeps(n) ==
  taken' = taken + n /\ UNCHANGED <<link, lines, torn, closed, regular, frames_got, result>>

\* fill_buf and consume: the limit is tested before a piece is kept
read_frame(n) ==
  /\ P.reader = "fill" /\ result = "reading" /\ n \in Pieces
  /\ IF taken + n > P.receives THEN Fails("FrameTooLarge")
     ELSE IF Terminated /\ n = Left THEN Returns ELSE Keeps(n)

\* never takes more than the limit, and fails when it is full
read_developer_frame(n) ==
  /\ P.reader = "bounded" /\ result = "reading"
  /\ IF taken = P.receives THEN n = 0 /\ Fails("FrameTooLarge")
     ELSE /\ n \in Pieces /\ n <= P.receives - taken
          /\ IF Terminated /\ n = Left THEN Returns ELSE Keeps(n)

\* read_until keeps the whole line and tests its length afterwards
read_usb_frame(n) ==
  /\ P.reader = "until" /\ result = "reading" /\ n \in Pieces
  /\ IF ~(Terminated /\ n = Left) THEN Keeps(n)
     ELSE IF taken + n > P.receives THEN Fails("FrameTooLarge") ELSE Returns

\* read_until through take: the line is cut one byte past the limit
read_store_frame(n) ==
  /\ P.reader = "take" /\ result = "reading"
  /\ n \in Pieces /\ n <= P.receives + 1 - taken
  /\ IF taken + n > P.receives THEN Fails("FrameTooLarge")
     ELSE IF Terminated /\ n = Left THEN Returns ELSE Keeps(n)

\* recvmsg into what is left of the buffer; it may see the next line too
recv_frame_with_fd(n) ==
  /\ P.reader = "descriptor" /\ result = "reading"
  /\ IF taken = P.receives THEN n = 0 /\ Fails("FrameTooLarge")
     ELSE /\ n \in Pieces /\ n <= P.receives - taken
          /\ \/ IF Terminated /\ n = Left THEN Returns ELSE Keeps(n)
             \/ /\ Terminated /\ n = Left /\ n < P.receives - taken /\ Reading < Len(lines)
                /\ Fails("UnexpectedTrailingData")

\* the end of the stream, which for an until-reader is also when a cut line is tested
ReadsEnd ==
  /\ closed /\ result = "reading" /\ ~Terminated /\ taken = torn
  /\ Fails(IF taken = 0 THEN "end"
           ELSE IF taken > P.receives \/ (P.reader \in {"bounded", "descriptor"}
                                          /\ taken = P.receives)
                THEN "FrameTooLarge" ELSE "UnterminatedFrame")

Next ==
  \/ \E size \in Sizes : write_frame(size)
  \/ \E size \in Sizes : PeerWrites(size)
  \/ \E size \in {0, 1, P.receives, P.receives + 1} : PeerCloses(size)
  \/ \E n \in Pieces : read_frame(n)
  \/ \E n \in Pieces \cup {0} : read_developer_frame(n)
  \/ \E n \in Pieces : read_usb_frame(n)
  \/ \E n \in Pieces : read_store_frame(n)
  \/ \E n \in Pieces \cup {0} : recv_frame_with_fd(n)
  \/ ReadsEnd

Spec == Init /\ [][Next]_vars

-----------------------------------------------------------------------------
TypeOK ==
  /\ link \in Links /\ torn \in Nat /\ taken \in Nat
  /\ lines \in Seq(Nat) /\ frames_got \in Seq(Nat)
  /\ closed \in BOOLEAN /\ regular \in BOOLEAN
  /\ result \in {"reading", "end", "FrameTooLarge", "UnterminatedFrame", "UnexpectedTrailingData"}

\* However the stream is cut into pieces, the frames returned are the lines
\* that were written, in order, whole, and none is longer than the reader's
\* limit; a line the peer did not finish is never returned.
NothingInvented ==
  /\ Len(frames_got) <= Len(lines)
  /\ \A i \in DOMAIN frames_got : frames_got[i] = lines[i] - 1 /\ lines[i] <= P.receives

\* What write_frame accepts, the reader at the other end accepts.
WrittenIsRead == regular /\ torn = 0 => result \in {"reading", "end"}

\* The end of a connection is reported as such only between two frames.
EndIsClean == result = "end" => torn = 0 /\ Len(frames_got) = Len(lines)

\* The largest message the protocol's validation lets through can be written.
LargestFits == P.largest + 1 <= P.limit

\* The four facts above, for every link but the broker's requests, whose
\* reader has a smaller buffer than its writer (4 KiB against 16 KiB), so that
\* for it WrittenIsRead fails.
FramesSound ==
  /\ TypeOK /\ NothingInvented /\ EndIsClean /\ LargestFits
  /\ link # "broker_request" => WrittenIsRead

------------------------------------------------------------------------------
(***************************************************************************)
(* The base64 text in which samples, payloads, values and bodies cross the *)
(* brokers.  Four protocol crates carry their own copy of the encoder and  *)
(* of the strict decoder; they differ in the size limit, in the size of a  *)
(* frame of samples and in whether nothing at all may be sent.  A digit is *)
(* its value, 0..63; the padding character is Pad.                         *)
(***************************************************************************)

CONSTANTS
  Bytes,       \* the byte values of the inputs explored, a subset of 0..255
  Digits,      \* the digit values another encoder may put in a text
  MaxBytes,    \* longest input explored
  Limit        \* stands for the crates' limits on decoded bytes

Pad == 64

\* the decoders: samples come in whole frames; only a body may be empty
decode_payload == [frame |-> 1, empty |-> FALSE]
decode_value == [frame |-> 1, empty |-> FALSE]
decode_samples == [frame |-> 2, empty |-> FALSE]
decode_body == [frame |-> 1, empty |-> TRUE]
Decoders == {decode_payload, decode_samples, decode_body} \cup {decode_value}

Base64Constants ==
  Bytes \subseteq 0..255 /\ Digits \subseteq 0..Pad /\ MaxBytes \in Nat /\ Limit \in Nat

VARIABLES
  decoder,     \* the crate's decoder at the receiving end
  bytes,       \* what the sender encodes
  text,        \* the digits on the wire
  got,         \* {} before the text is decoded or when it is refused, else {bytes}
  stage        \* "bytes", "text", "tampered" or "decoded"

base64Vars == <<decoder, bytes, text, got, stage>>

CeilDiv(a, b) == (a + b - 1) \div b

\* one group of up to three bytes
EncodeGroup(group) ==
  LET first == group[1]
      second == IF Len(group) > 1 THEN group[2] ELSE 0
      third == IF Len(group) > 2 THEN group[3] ELSE 0
  IN << first \div 4, (first % 4) * 16 + (second \div 16),
        IF Len(group) > 1 THEN (second % 16) * 4 + (third \div 64) ELSE Pad,
        IF Len(group) > 2 THEN third % 64 ELSE Pad >>

Groups(s, size) ==
  [g \in 1..CeilDiv(Len(s), size) |->
     SubSeq(s, (g - 1) * size + 1, IF g * size < Len(s) THEN g * size ELSE Len(s))]

encode_base64(input) ==
  FlattenSeq([g \in DOMAIN Groups(input, 3) |-> EncodeGroup(Groups(input, 3)[g])])

\* the tests the decoder makes of one group of four characters
GroupAccepted(group, last) ==
  /\ group[1] < Pad /\ group[2] < Pad
  /\ group[3] = Pad => last /\ group[4] = Pad /\ group[2] % 16 = 0
  /\ group[4] = Pad => last /\ (group[3] # Pad => group[3] % 4 = 0)

\* arithmetic on u8: the bits shifted out are lost
DecodeGroup(group) ==
  <<(group[1] * 4 + (group[2] \div 16)) % 256>>
  \o (IF group[3] = Pad THEN <<>> ELSE <<((group[2] * 16) % 256) + (group[3] \div 4)>>)
  \o (IF group[3] = Pad \/ group[4] = Pad THEN <<>> ELSE <<((group[3] * 64) % 256) + group[4]>>)

\* what the decoder returns: {} for a text it refuses
decode_base64(d, digits) ==
  LET groups == Groups(digits, 4)
      output == FlattenSeq([g \in DOMAIN groups |-> DecodeGroup(groups[g])])
  IN IF \/ digits = <<>> /\ ~d.empty
        \/ Len(digits) % 4 # 0
        \/ Len(digits) > CeilDiv(Limit, 3) * 4
        \/ \E g \in DOMAIN groups : ~GroupAccepted(groups[g], g = Len(groups))
     THEN {}
     ELSE IF Len(output) > Limit \/ Len(output) % d.frame # 0 THEN {} ELSE {output}

Base64Init ==
  /\ decoder \in Decoders
  /\ bytes \in UNION {[1..n -> Bytes] : n \in 0..MaxBytes}
  /\ text = <<>> /\ got = {} /\ stage = "bytes"

Encode ==
  /\ stage = "bytes"
  /\ text' = encode_base64(bytes) /\ stage' = "text"
  /\ UNCHANGED <<decoder, bytes, got>>

\* the text of another encoder: one digit differs from ours, or the last is missing
Tamper ==
  /\ stage = "text" /\ text # <<>>
  /\ \/ \E i \in DOMAIN text : \E digit \in Digits \ {text[i]} : text' = [text EXCEPT ![i] = digit]
     \/ text' = Front(text)
  /\ stage' = "tampered"
  /\ UNCHANGED <<decoder, bytes, got>>

Decode ==
  /\ stage \in {"text", "tampered"}
  /\ got' = decode_base64(decoder, text) /\ stage' = "decoded"
  /\ UNCHANGED <<decoder, bytes, text>>

Base64Next == Encode \/ Tamper \/ Decode
Base64Spec == Base64Init /\ [][Base64Next]_base64Vars

-----------------------------------------------------------------------------
Sendable(d, input) ==
  Len(input) <= Limit /\ Len(input) % d.frame = 0 /\ (input # <<>> \/ d.empty)

\* What encode_base64 writes of an input within the limits is decoded to that
\* input; every text a decoder accepts is the one encoding of what it returns,
\* which respects the limits, so a request relayed through two brokers is
\* the same text at each; and no decoded byte leaves the range of u8.
Base64Sound ==
  stage = "decoded" =>
    /\ text = encode_base64(bytes) => got = IF Sendable(decoder, bytes) THEN {bytes} ELSE {}
    /\ \A output \in got :
         /\ encode_base64(output) = text /\ Sendable(decoder, output)
         /\ \A i \in DOMAIN output : output[i] \in 0..255
==============================================================================
