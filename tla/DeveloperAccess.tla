---------------------------- MODULE DeveloperAccess ----------------------------
(***************************************************************************)
(* Paired computers: cp0-devd, one thread that serves one request at a     *)
(* time.  A paired computer lives in three places - the registry, the      *)
(* owner's authorized_keys and the directory of trusted developer keys -   *)
(* written one after the other, and the power can go in between.  The      *)
(* registry and authorized_keys are replaced atomically; a trust file is   *)
(* created in place, so a crash can leave it incomplete.                   *)
(***************************************************************************)
EXTENDS Naturals, FiniteSets, Sequences, SequencesExt

CONSTANTS
    Hosts,              \* SSH fingerprints of computers
    Keys,               \* developer keys
    MaxPaired,          \* MAX_PAIRED_HOSTS
    WindowTicks,        \* MAX_PAIRING_WINDOW_SECONDS
    Unpaired

VARIABLES
    paired,             \* the registry: the developer key of each paired host
    authorized,         \* the hosts in authorized_keys
    trust,              \* the trust file of each key
    window,             \* what is left of the pairing window
    developer_mode,
    serving,            \* the daemon is up
    todo                \* the writes left of the request being served

vars == <<paired, authorized, trust, window, developer_mode, serving, todo>>

HostsOf(p) == {h \in Hosts : p[h] # Unpaired}
KeysOf(p) == {p[h] : h \in HostsOf(p)}

Init ==
    /\ paired = [h \in Hosts |-> Unpaired]
    /\ authorized = {}
    /\ trust = [k \in Keys |-> "absent"]
    /\ window = 0 /\ developer_mode = FALSE /\ serving = TRUE /\ todo = <<>>

----------------------------------------------------------------------------
(* The writes                                                              *)

save_pair_store(p) == <<[file |-> "registry", to |-> p]>>
write_authorized_keys(p) == <<[file |-> "authorized", to |-> HostsOf(p)]>>
write_new(k) == <<[file |-> "trust", key |-> k, to |-> "partial"],
                  [file |-> "trust", key |-> k, to |-> "whole"]>>

\* A trust file that is there must already hold this key.
save_pair_state(p, k) ==
    (IF trust[k] = "absent" THEN write_new(k) ELSE <<>>)
        \o save_pair_store(p) \o write_authorized_keys(p)

\* Fault: the smaller registry is published first.
Fault_save_existing_pair_state(p) == save_pair_store(p) \o write_authorized_keys(p)

\* SSH authorization is revoked before the smaller registry is published;
\* keys no host refers to lose their trust file last.
save_existing_pair_state(p) == write_authorized_keys(p) \o save_pair_store(p)
Untrust(keys) == [i \in 1..Cardinality(keys) |->
                    [file |-> "trust", key |-> SetToSeq(keys)[i], to |-> "absent"]]

----------------------------------------------------------------------------
(* The requests                                                            *)

Ready == serving /\ todo = <<>>

open_pairing ==
    /\ Ready /\ developer_mode
    /\ window' = WindowTicks
    /\ UNCHANGED <<paired, authorized, trust, developer_mode, serving, todo>>

pair(h, k) ==
    /\ Ready /\ developer_mode /\ window > 0
    /\ paired[h] # Unpaired \/ Cardinality(HostsOf(paired)) < MaxPaired
    /\ trust[k] # "partial"
    /\ todo' = save_pair_state([paired EXCEPT ![h] = k], k)
    /\ UNCHANGED <<paired, authorized, trust, window, developer_mode, serving>>

\* Unpair and UnpairAll, served whether or not Developer Mode is on.
unpair(hs) ==
    LET p == [h \in Hosts |-> IF h \in hs THEN Unpaired ELSE paired[h]]
        gone == KeysOf(paired) \ KeysOf(p)
    IN  /\ Ready
        /\ todo' = save_existing_pair_state(p) \o Untrust(gone)
        /\ UNCHANGED <<paired, authorized, trust, window, developer_mode, serving>>

\* One write of the request; a failed write ends the request where it stands,
\* after the rename (the directory could not be synced) or before it.
Step(ok, effect) ==
    LET w == Head(todo)
    IN  /\ serving /\ todo # <<>> /\ (ok => effect)
        /\ paired' = IF effect /\ w.file = "registry" THEN w.to ELSE paired
        /\ authorized' = IF effect /\ w.file = "authorized" THEN w.to ELSE authorized
        /\ trust' = IF effect /\ w.file = "trust" THEN [trust EXCEPT ![w.key] = w.to] ELSE trust
        /\ todo' = IF ok THEN Tail(todo) ELSE <<>>
        /\ UNCHANGED <<window, developer_mode, serving>>

\* The daemon or the device stops; only the device takes the window with it.
Stop(device) ==
    /\ serving
    /\ serving' = FALSE /\ todo' = <<>>
    /\ window' = IF device THEN 0 ELSE window
    /\ UNCHANGED <<paired, authorized, trust, developer_mode>>

\* serve: authorized_keys is rebuilt from the registry before any request.
reconcile_pair_state ==
    /\ ~serving
    /\ authorized' = HostsOf(paired)
    /\ serving' = TRUE
    /\ UNCHANGED <<paired, trust, window, developer_mode, todo>>

\* CLOCK_BOOTTIME passes while a request is being served as well.
Tick ==
    /\ window > 0
    /\ window' = window - 1
    /\ UNCHANGED <<paired, authorized, trust, developer_mode, serving, todo>>

SetDeveloperMode ==
    /\ developer_mode' = ~developer_mode
    /\ UNCHANGED <<paired, authorized, trust, window, serving, todo>>

Next ==
    \/ open_pairing
    \/ \E h \in Hosts, k \in Keys : pair(h, k)
    \/ \E hs \in {{h} : h \in HostsOf(paired)} \cup {Hosts} : unpair(hs)
    \/ \E ok, effect \in BOOLEAN : Step(ok, effect)
    \/ \E device \in BOOLEAN : Stop(device)
    \/ reconcile_pair_state
    \/ Tick
    \/ SetDeveloperMode

Spec == Init /\ [][Next]_vars

----------------------------------------------------------------------------
(* Properties                                                              *)

TypeOK ==
    /\ paired \in [Hosts -> Keys \cup {Unpaired}]
    /\ authorized \subseteq Hosts
    /\ trust \in [Keys -> {"absent", "partial", "whole"}]
    /\ window \in 0..WindowTicks
    /\ developer_mode \in BOOLEAN /\ serving \in BOOLEAN

\* At every crash point and after every failed write: a computer that can log
\* in is in the registry, so it can be seen and revoked; and the key of a
\* paired computer is trusted and whole, so its packages are accepted.
PairingSound ==
    /\ authorized \subseteq HostsOf(paired)
    /\ \A k \in KeysOf(paired) : trust[k] = "whole"
    /\ Cardinality(HostsOf(paired)) <= MaxPaired

===============================================================================
