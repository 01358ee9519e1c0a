------------------------------ MODULE Brokers ------------------------------
(***************************************************************************)
(* The small device daemons: cp0-displayd, cp0-connectivityd, cp0-gpiod,   *)
(* cp0-powerd, cp0-documentd and cp0-networkd.  Each serves one connection *)
(* at a time and keeps no state of its own: what it answers is read from a *)
(* device, a directory or a server that others change meanwhile.  A        *)
(* behaviour is one daemon's; `daemon` says which.                         *)
(***************************************************************************)
EXTENDS Integers, FiniteSets, FiniteSetsExt, Sequences

CONSTANTS Daemons,       \* the daemons of this instance
          Maxima,        \* values of max_brightness
          Levels,        \* percentages a client asks for
          GpioLines,     \* GpioLine
          Names,         \* file names of the document root: 1 .. n, in list order
          Inodes,        \* their identifiers
          MaxDocuments,  \* MAX_DOCUMENTS
          MAX_REDIRECTS,
          BodyLimit,     \* MAX_NETWORK_BODY_BYTES
          MaxChanges     \* bound: changes by others during one request

VARIABLES daemon,
          device,    \* what the daemon serves: backlight, radios, lines, files ...
          at,        \* the server's place: "accept" or the step of a dispatch
          request,   \* the command being served
          local,     \* the dispatch's own values
          reply,     \* the last response written
          seen,      \* history: what the device has been during this request
          changes,   \* changes by others during this request
          presses    \* history: key presses in one direction with nothing between

vars == <<daemon, device, at, request, local, reply, seen, changes, presses>>

MIN == 5
MAX == 100
STEP == 10
EnoughPresses == 11   \* 100 / STEP, and one for rounding

BrokerConstants ==
    /\ Daemons \subseteq {"display", "connectivity", "gpio", "power", "document", "network"}
    /\ \A m \in Maxima : m \in Nat /\ m >= 6
    /\ \A p \in Levels : p \in MIN .. MAX
    /\ Names = 1 .. Cardinality(Names)
    /\ {MaxDocuments, MAX_REDIRECTS, BodyLimit, MaxChanges} \subseteq Nat

Error(code) == [kind |-> "error", value |-> <<code>>]
State(value) == [kind |-> "state", value |-> value]
Silence == [kind |-> "none", value |-> <<>>]

(***************************************************************************)
(* What the daemons serve.                                                 *)
(***************************************************************************)
Bounded(f) == f = "small"   \* metadata: a regular file of at most MAX_DOCUMENT_BYTES

Devices ==
    CASE daemon = "display" -> UNION {[maximum : {m}, raw : 0 .. m] : m \in Maxima}
      [] daemon = "connectivity" -> [wifi : BOOLEAN, wwan : BOOLEAN, interface : BOOLEAN]
      [] daemon = "gpio" -> [GpioLines -> BOOLEAN]
      [] daemon = "power" -> SUBSET {"restart", "poweroff"}
      [] daemon = "document" ->
           [dir : [Names -> {{}} \cup {{i} : i \in Inodes}],
            inode : [Inodes -> {"small", "large", "other"}]]
      [] daemon = "network" -> {<<>>}

\* What others may make of the device: the panel itself stays, a requested
\* shutdown is not taken back, files are linked, unlinked or rewritten.
Becomes(now) ==
    CASE daemon = "display" -> {[now EXCEPT !.raw = r] : r \in 0 .. now.maximum}
      [] daemon = "document" ->
           {[now EXCEPT !.dir[n] = e] : n \in Names, e \in {{}} \cup {{i} : i \in Inodes}}
             \cup {[now EXCEPT !.inode[i] = k] : i \in Inodes, k \in {"small", "large", "other"}}
      [] daemon \in {"power", "network"} -> {}
      [] OTHER -> Devices

(***************************************************************************)
(* handle_connection: read one request, refuse a malformed one and one of  *)
(* an untrusted peer, dispatch the rest.                                   *)
(***************************************************************************)
handle_connection(name, commands) ==
    /\ daemon = name
    /\ at = "accept"
    /\ \E c \in commands \cup {<<"closed">>, <<"malformed">>}, trusted \in BOOLEAN :
         /\ request' = c
         /\ seen' = {device}
         /\ changes' = 0
         /\ \/ /\ c \in {<<"closed">>, <<"malformed">>} \/ ~trusted
               /\ reply' = CASE c = <<"closed">> -> Silence
                             [] c = <<"malformed">> -> Error("invalid_request")
                             [] OTHER -> Error("unauthorized")
               /\ at' = "accept"
               /\ presses' = 0
            \/ /\ c \in commands
               /\ trusted
               /\ at' = c[1]
               /\ reply' = Silence
               /\ presses' = IF c[1] # "adjust" THEN 0
                             ELSE IF request = c THEN presses ELSE 0
         /\ local' = <<>>
         /\ UNCHANGED <<daemon, device>>

DisplayServer ==
    handle_connection("display", {<<"get">>} \cup {<<"set", p>> : p \in Levels}
                                   \cup {<<"adjust", d>> : d \in {"increase", "decrease"}})

ConnectivityServer ==
    handle_connection("connectivity",
        {<<"state">>} \cup {<<s, e>> : s \in {"set_wifi", "set_airplane"}, e \in BOOLEAN})

GpioServer ==
    handle_connection("gpio", {<<"line_read", l>> : l \in GpioLines}
                                \cup {<<"line_write", l, v>> : l \in GpioLines, v \in BOOLEAN})

PowerServer == handle_connection("power", {<<"execute", a>> : a \in {"restart", "poweroff"}})

DocumentServer == handle_connection("document", {<<"list">>} \cup {<<"open", i>> : i \in Inodes})

Urls == {"plain_http", "userinfo", "single_label", "private_ip", "public_ip", "name"}

\* read_request has already refused a URL that does not start with https://
NetworkServer ==
    handle_connection("network",
        {<<"fetch", u, n>> : u \in Urls \ {"plain_http"}, n \in 1 .. BodyLimit})

(***************************************************************************)
(* Dispatch.  Answer writes a response if its own validate accepts it; a   *)
(* response it refuses closes the connection without one.                  *)
(***************************************************************************)
Valid(r) ==
    CASE r.kind # "state" -> TRUE
      [] daemon = "display" -> r.value <= MAX
      [] daemon = "connectivity" ->
           /\ r.value.wifi_enabled => r.value.wifi_available
           /\ ~(r.value.airplane_mode /\ r.value.wifi_enabled)
      [] daemon = "document" /\ request[1] = "list" -> Len(r.value) <= MaxDocuments
      [] OTHER -> TRUE

Answer(r) ==
    /\ reply' = IF Valid(r) THEN r ELSE Silence
    /\ at' = "accept"
    /\ local' = <<>>
    /\ UNCHANGED <<daemon, request, changes>>

Fails(codes) ==
    /\ \E code \in codes : Answer(Error(code))
    /\ presses' = 0
    /\ UNCHANGED <<device, seen>>

Proceed(to, value) ==
    /\ at' = to
    /\ local' = value
    /\ UNCHANGED <<daemon, request, reply, changes, presses>>

Touch(now) ==
    /\ device' = now
    /\ seen' = seen \cup {now}

Leave == UNCHANGED <<device, seen>>

DeviceErrors == {"unavailable", "device"}

\* cp0-displayd.
read_brightness_percent(d) == Min({(d.raw * 100 + (d.maximum \div 2)) \div d.maximum, MAX})

Fault_raw_of(maximum, percent) == (maximum * percent) \div 100

raw_of(maximum, percent) ==
    LET scaled == (maximum * percent + 50) \div 100
    IN  Max({1, Min({scaled, maximum})})

write_brightness_percent(percent) ==
    Touch([device EXCEPT !.raw = raw_of(device.maximum, percent)])

display_dispatch ==
    \/ /\ at = "get"
       /\ \/ Answer(State(read_brightness_percent(device))) /\ Leave /\ UNCHANGED presses
          \/ Fails({"unavailable_state", "device"})
    \/ /\ at = "adjust"
       /\ \/ LET current == read_brightness_percent(device)
                 percent == IF request[2] = "decrease" THEN Max({current - STEP, MIN})
                            ELSE Min({Max({current + STEP, MIN}), MAX})
             IN  Proceed("write", percent) /\ Leave
          \/ Fails(DeviceErrors)
    \/ /\ at \in {"set", "write"}
       /\ \/ write_brightness_percent(IF at = "set" THEN request[2] ELSE local)
             /\ Proceed("read_back", <<>>)
          \/ Fails(DeviceErrors)
    \/ /\ at = "read_back"
       /\ \/ /\ Answer(State(read_brightness_percent(device)))
             /\ presses' = IF request[1] = "adjust" /\ changes = 0
                           THEN Min({presses + 1, EnoughPresses}) ELSE 0
             /\ Leave
          \/ Fails(DeviceErrors)

\* cp0-connectivityd.  nmcli sets the radios, a second nmcli reads them, and
\* the interface is looked for after that.
set_radio(radios, on) ==
    \/ Touch([r \in DOMAIN device |-> IF r \in radios THEN on ELSE device[r]])
       /\ Proceed("state", <<>>)
    \/ \E done \in BOOLEAN :   \* a failed command may have taken effect
         /\ Touch(IF done THEN [r \in DOMAIN device |-> IF r \in radios THEN on ELSE device[r]]
                          ELSE device)
         /\ \E code \in {"unavailable", "operation"} : Answer(Error(code))
         /\ UNCHANGED presses

observed_state(radios, interface) ==
    [wifi_available |-> interface,
     wifi_enabled |-> interface /\ radios.wifi,
     airplane_mode |-> ~radios.wifi /\ ~radios.wwan]

connectivity_dispatch ==
    \/ /\ at = "set_wifi"
       /\ \/ device.interface /\ Proceed("set_radio", <<>>) /\ Leave
          \/ ~device.interface /\ Fails({"unavailable"})
    \/ at = "set_radio" /\ set_radio({"wifi"}, request[2])
    \/ at = "set_airplane" /\ set_radio({"wifi", "wwan"}, ~request[2])
    \/ /\ at = "state"
       /\ \/ Proceed("interface", device) /\ Leave
          \/ Fails({"unavailable", "operation"})
    \/ /\ at = "interface"
       /\ Answer(State(observed_state(local, device.interface)))
       /\ Leave /\ UNCHANGED presses

\* cp0-gpiod and cp0-powerd: one system call or one command each.
gpio_dispatch ==
    \/ /\ at = "line_read"
       /\ \/ Answer(State(device[request[2]])) /\ Leave /\ UNCHANGED presses
          \/ Fails(DeviceErrors)
    \/ /\ at = "line_write"
       /\ \/ /\ Touch([device EXCEPT ![request[2]] = request[3]])
             /\ Answer(State(request[3])) /\ UNCHANGED presses
          \/ Fails(DeviceErrors)

power_dispatch ==
    /\ at = "execute"
    /\ \/ /\ Touch(device \cup {request[2]})
          /\ Answer(State(request[2])) /\ UNCHANGED presses
       \/ Fails({"unavailable", "operation"})

(***************************************************************************)
(* cp0-documentd walks the directory by name, and opens the entry whose    *)
(* device and inode make up the identifier asked for.                      *)
(***************************************************************************)
Present == {n \in Names : device.dir[n] # {}}

\* One entry, read now: {} when it is gone or no bounded regular file.
metadata_id(n) == {i \in device.dir[n] : Bounded(device.inode[i])}

list ==
    \/ /\ at = "list"
       /\ \/ Proceed("list_next", [todo |-> Present, found |-> {}]) /\ Leave
          \/ Fails({"internal"})
    \/ /\ at = "list_next"
       /\ \E n \in local.todo :
            LET new == {i \in metadata_id(n) : \A f \in local.found : f[2] # i}
            IN  Proceed("list_next", [todo |-> local.todo \ {n},
                                      found |-> local.found \cup {<<n, i>> : i \in new}])
       /\ Leave
    \/ /\ at = "list_next"
       /\ local.todo = {}
       /\ LET rank(f) == Cardinality({g \in local.found : g[1] <= f[1]})
              sorted == [k \in 1 .. Cardinality(local.found) |->
                           CHOOSE f \in local.found : rank(f) = k]
          IN  Answer(State(SubSeq(sorted, 1, Min({Len(sorted), MaxDocuments}))))
       /\ Leave /\ UNCHANGED presses

open ==
    \/ /\ at = "open"
       /\ \/ Proceed("open_next", [todo |-> Present, name |-> 0, fd |-> {}]) /\ Leave
          \/ Fails({"internal"})
    \/ /\ at = "open_next"
       /\ \E n \in local.todo :
            Proceed(IF metadata_id(n) = {request[2]} THEN "openat" ELSE "open_next",
                    [todo |-> local.todo \ {n}, name |-> n, fd |-> {}])
       /\ Leave
    \/ /\ at = "open_next"
       /\ local.todo = {}
       /\ Fails({"not_found"})
    \/ /\ at = "openat"   \* ENOENT and ELOOP go on with the walk
       /\ LET entry == device.dir[local.name]
          IN  \/ entry = {} /\ Proceed("open_next", local) /\ Leave
              \/ \E i \in entry :
                   \/ device.inode[i] = "other" /\ Proceed("open_next", local) /\ Leave
                   \/ Proceed("fstat", [local EXCEPT !.fd = {i}]) /\ Leave
                   \/ Fails({"internal"})
    \/ /\ at = "fstat"
       /\ \E i \in local.fd :
            IF Bounded(device.inode[i]) /\ i = request[2]
            THEN Answer(State(<<local.name, i>>)) /\ Leave /\ UNCHANGED presses
            ELSE Fails({"invalid_document"})

document_dispatch == list \/ open

(***************************************************************************)
(* cp0-networkd.  The URL of the request is checked; every hop is resolved *)
(* anew and loses the addresses that are not public; redirects are counted.*)
(***************************************************************************)
validate_destination_url(url) ==
    CASE url \in {"plain_http", "userinfo"} -> {"invalid_request"}
      [] url \in {"single_label", "private_ip"} -> {"blocked_address"}
      [] OTHER -> {}

\* What a resolver may say of a host: none, or some addresses.
Answers(url) ==
    CASE url = "private_ip" -> {{"private"}}
      [] url = "public_ip" -> {{"public"}}
      [] OTHER -> SUBSET {"public", "private"}

resolve(found) == found \ {"private"}

map_ureq_error == {"timeout", "tls", "unavailable", "internal"}

get ==
    /\ at = "fetch"
    /\ LET refused == validate_destination_url(request[2])
       IN  IF refused # {} THEN Fails(refused)
           ELSE Proceed("resolve", [url |-> request[2], hops |-> 0]) /\ Leave

hop ==
    \/ /\ at = "resolve"
       /\ \/ local.url = "plain_http" /\ Fails({"invalid_request"})
          \/ /\ local.url # "plain_http"
             /\ \E found \in Answers(local.url) :
                  \/ /\ resolve(found) = {}
                     /\ Fails(IF found = {} THEN {"unavailable"} ELSE {"blocked_address"})
                  \/ \E address \in resolve(found) :
                       /\ seen' = seen \cup {<<local.hops, address>>}
                       /\ Proceed("respond", local)
                       /\ UNCHANGED device
          \/ Fails(map_ureq_error)
    \/ /\ at = "respond"
       /\ \/ Fails(map_ureq_error)
          \/ \E url \in Urls :
               IF local.hops = MAX_REDIRECTS THEN Fails({"too_many_redirects"})
               ELSE Proceed("resolve", [url |-> url, hops |-> local.hops + 1]) /\ Leave
          \/ \E body \in 0 .. BodyLimit + 1 :
               IF body > request[3] THEN Fails({"response_too_large"})
               ELSE Answer(State(<<body>>)) /\ Leave /\ UNCHANGED presses

network_dispatch == get \/ hop

(***************************************************************************)
(* Everyone else: other writers of the attribute files, other users of     *)
(* NetworkManager, programs that write to the document root.               *)
(***************************************************************************)
OthersChange ==
    /\ at = "accept" \/ changes < MaxChanges
    /\ \E now \in Becomes(device) :
         /\ now # device
         /\ device' = now
         /\ IF at = "accept"   \* the last answer has been read and is forgotten
            THEN seen' = {now} /\ changes' = 0 /\ request' = <<"closed">> /\ reply' = Silence
            ELSE seen' = seen \cup {now} /\ changes' = changes + 1 /\ UNCHANGED <<request, reply>>
    /\ presses' = 0
    /\ UNCHANGED <<daemon, at, local>>

Init ==
    /\ daemon \in Daemons
    /\ device \in IF daemon = "document"
                  THEN {[dir |-> [n \in Names |-> {}], inode |-> [i \in Inodes |-> "small"]]}
                  ELSE IF daemon = "power" THEN {{}} ELSE Devices
    /\ at = "accept" /\ request = <<"closed">> /\ local = <<>> /\ reply = Silence
    /\ seen = {device} /\ changes = 0 /\ presses = 0

Serve == \/ DisplayServer \/ ConnectivityServer \/ GpioServer
         \/ PowerServer \/ DocumentServer \/ NetworkServer

Dispatch == \/ display_dispatch \/ connectivity_dispatch \/ gpio_dispatch
            \/ power_dispatch \/ document_dispatch \/ network_dispatch

Next == Serve \/ Dispatch \/ OthersChange

Spec == Init /\ [][Next]_vars
-----------------------------------------------------------------------------
TypeOK ==
    /\ daemon \in Daemons
    /\ device \in Devices
    /\ reply.kind \in {"none", "error", "state"}
    /\ changes \in 0 .. MaxChanges
    /\ presses \in 0 .. EnoughPresses

Answered == at = "accept" /\ reply.kind # "none"

\* Every command of a trusted peer is answered: no daemon builds a response
\* that its own protocol refuses to write.
EveryCommandAnswered ==
    at = "accept" /\ reply.kind = "none" => request = <<"closed">>

\* A refused request, and one that only reads, leaves the device as it was.
ReadersChangeNothing ==
    /\ Answered /\ changes = 0 /\ daemon # "network"
    /\ \/ request[1] \in {"malformed", "get", "state", "line_read", "list", "open"}
       \/ reply = Error("unauthorized")
    => Cardinality(seen) = 1

\* The screen never goes dark by a request, and holding a brightness key
\* reaches the end of the range whatever the panel's resolution.
KeysReachTheEnd ==
    daemon = "display" =>
        /\ at = "read_back" /\ changes = 0 => device.raw > 0
        /\ presses = EnoughPresses =>
             device.raw = raw_of(device.maximum, IF request[2] = "increase" THEN MAX ELSE MIN)

\* An answer was true of the device at some moment of its request.
AnswerWasTrue ==
    Answered /\ reply.kind = "state" =>
        CASE daemon = "display" -> \E d \in seen : reply.value = read_brightness_percent(d)
          [] daemon = "gpio" -> \E d \in seen : reply.value = d[request[2]]
          [] daemon = "power" -> reply.value \in device
          [] daemon = "connectivity" ->
               /\ \E d, e \in seen : reply.value = observed_state(d, e.interface)
               /\ changes = 0 /\ request[1] = "set_wifi" => reply.value.wifi_enabled = request[2]
               /\ changes = 0 /\ request[1] = "set_airplane" => reply.value.airplane_mode = request[2]
          [] daemon = "document" -> TRUE
          [] daemon = "network" -> reply.value[1] <= request[3]

\* A document is opened only by the identifier the client was shown, as a
\* bounded regular file; one that stays in place for the whole request is
\* listed (unless the list is full) and is found.
DocumentsFound ==
    daemon = "document" /\ Answered =>
        LET steady == {i \in Inodes : \E n \in Names :
                         \A d \in seen : d.dir[n] = {i} /\ Bounded(d.inode[i])}
        IN  /\ request[1] = "open" /\ reply.kind = "state" =>
                 /\ reply.value[2] = request[2]
                 /\ \E d \in seen : Bounded(d.inode[request[2]])
                 /\ \E d \in seen : d.dir[reply.value[1]] = {request[2]}
            /\ request[1] = "open" /\ reply = Error("not_found") => request[2] \notin steady
            /\ request[1] = "list" /\ reply.kind = "state" =>
                 \/ Len(reply.value) = MaxDocuments
                 \/ \A i \in steady : \E k \in 1 .. Len(reply.value) : reply.value[k][2] = i

\* No hop of a fetch, redirected or not, goes to an address that is not
\* public, and there are at most MAX_REDIRECTS + 1 of them.
HopsArePublic ==
    daemon = "network" =>
        /\ \A c \in seen : c # <<>> => c[2] = "public"
        /\ Cardinality(seen) <= MAX_REDIRECTS + 2

\* Every command of the small daemons is answered once and with what the device
\* was during the request; a request to read changes nothing; the brightness
\* keys reach both ends; a document is opened as it was shown; and no hop of a
\* download leaves the public network.
BrokersSound ==
    TypeOK /\ EveryCommandAnswered /\ ReadersChangeNothing /\ KeysReachTheEnd
      /\ AnswerWasTrue /\ DocumentsFound /\ HopsArePublic
=============================================================================
