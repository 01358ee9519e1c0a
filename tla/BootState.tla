------------------------------ MODULE BootState ------------------------------
(***************************************************************************)
(* The A/B boot state of an OS update (crates/cp0-os-update): which slot   *)
(* is confirmed, which release waits for its confirmation and how often it *)
(* may still be tried.  The library computes states; the boot chooser and  *)
(* the updater that keep them on the medium are outside the repository and *)
(* follow docs/PHASE6H-VERIFIED-UPDATE-GROUNDWORK.md: a state is written   *)
(* to two records, first over the one that does not hold the newest state, *)
(* and only then takes effect.  Power may go at any moment and tears the   *)
(* record that is being written.                                           *)
(***************************************************************************)
EXTENDS Integers

CONSTANTS
    MaxBootAttempts,    \* MAX_BOOT_ATTEMPTS
    MaxJsonInteger,     \* MAX_JSON_INTEGER
    Releases,           \* sequences of the releases that are offered
    None, Torn

Slots == {"a", "b"}
Other(slot) == IF slot = "a" THEN "b" ELSE "a"

PendingBoots == [slot : Slots, sequence : Nat, attempts_remaining : Nat]
BootStates == [generation : Nat, confirmed_slot : Slots, confirmed_sequence : Nat,
               pending : PendingBoots \cup {None}, last_attempted : Slots \cup {None}]
Decisions == [slot : Slots, sequence : Nat, pending : BOOLEAN]

\* ReleaseMetadata::validate bounds the sequence of a release.
ConstantsSound ==
    /\ MaxBootAttempts \in Nat \ {0}
    /\ MaxJsonInteger \in Nat \ {0}
    /\ Releases \subseteq 1 .. MaxJsonInteger
    /\ None \notin PendingBoots \cup BootStates \cup Decisions \cup Slots
    /\ Torn \notin BootStates

VARIABLES
    copies,     \* the two records on the medium
    phase,      \* "off", "writing" a state, or "running"
    target,     \* the state that is being written, None otherwise
    spare,      \* the record that is written first
    left,       \* how many records are still to be written
    booted,     \* the decision that the running system was started with
    chosen,     \* what runs once the state is written
    proven,     \* the <<slot, sequence>> that ran and passed the health ceremony
    acknowledged,   \* the confirmed sequence after the last completed write
    tries       \* how often control went to the unconfirmed release last tried

vars == <<copies, phase, target, spare, left, booted, chosen, proven, acknowledged, tries>>

----------------------------------------------------------------------------
(* The library                                                             *)

validate(s) ==
    /\ s.generation <= MaxJsonInteger
    /\ s.confirmed_sequence \in 1 .. MaxJsonInteger
    /\ \/ /\ s.pending = None
          /\ s.last_attempted \in {None, s.confirmed_slot}
       \/ /\ s.pending # None
          /\ s.pending.slot # s.confirmed_slot
          /\ s.pending.sequence > s.confirmed_sequence
          /\ s.pending.sequence <= MaxJsonInteger
          /\ s.pending.attempts_remaining <= MaxBootAttempts
          /\ s.last_attempted = IF s.pending.attempts_remaining = MaxBootAttempts
                                THEN None ELSE s.pending.slot

factory(slot, sequence) ==
    [generation |-> 0, confirmed_slot |-> slot, confirmed_sequence |-> sequence,
     pending |-> None, last_attempted |-> None]

\* validate and next_generation, which every operation calls.
Advances(s) == validate(s) /\ s.generation < MaxJsonInteger

CanStage(s, slot, sequence) ==
    /\ Advances(s)
    /\ slot # s.confirmed_slot
    /\ sequence > s.confirmed_sequence
    /\ s.pending # None => sequence > s.pending.sequence

stage(s, slot, sequence) ==
    [s EXCEPT !.generation = @ + 1,
              !.pending = [slot |-> slot, sequence |-> sequence,
                           attempts_remaining |-> MaxBootAttempts],
              !.last_attempted = None]

Tries(s) == s.pending # None /\ s.pending.attempts_remaining > 0

Fault_prepare_boot(s) ==
    IF s.pending # None
    THEN [s EXCEPT !.generation = @ + 1, !.last_attempted = s.pending.slot]
    ELSE [s EXCEPT !.generation = @ + 1, !.last_attempted = s.confirmed_slot]
prepare_boot(s) ==
    IF Tries(s)
    THEN [s EXCEPT !.generation = @ + 1,
                   !.pending = [s.pending EXCEPT !.attempts_remaining = @ - 1],
                   !.last_attempted = s.pending.slot]
    ELSE [s EXCEPT !.generation = @ + 1,
                   !.pending = None,
                   !.last_attempted = s.confirmed_slot]

BootDecision(s) ==
    IF Tries(s)
    THEN [slot |-> s.pending.slot, sequence |-> s.pending.sequence, pending |-> TRUE]
    ELSE [slot |-> s.confirmed_slot, sequence |-> s.confirmed_sequence, pending |-> FALSE]

\* The health report carries the slot and the sequence of the boot context.
CanConfirm(s, b, healthy) ==
    /\ Advances(s)
    /\ healthy
    /\ s.pending # None
    /\ b.slot = s.pending.slot /\ b.sequence = s.pending.sequence
    /\ s.last_attempted = s.pending.slot

confirm(s) ==
    [s EXCEPT !.generation = @ + 1,
              !.confirmed_slot = s.pending.slot,
              !.confirmed_sequence = s.pending.sequence,
              !.pending = None,
              !.last_attempted = s.pending.slot]

\* decode_record: a torn record does not decode.
Decodes(i) == copies[i] # Torn /\ validate(copies[i])

\* newest_valid_record succeeds and selects record i.
newest_valid_record(i) ==
    /\ Decodes(i)
    /\ \A j \in {1, 2} : Decodes(j) =>
          \/ copies[j].generation < copies[i].generation
          \/ copies[j] = copies[i]

\* ReleaseMetadata::authorize_install: newer than what is installed, made for
\* the layout of the data partition, and a FIT configuration of the target slot.
authorize_install(s, sequence, layout_fits, configuration, slot) ==
    /\ sequence > s.confirmed_sequence
    /\ layout_fits
    /\ configuration = slot

----------------------------------------------------------------------------
(* The boot chooser and the updater                                        *)

\* What the factory installed.
InitWith(slot, sequence) ==
    /\ copies = [i \in {1, 2} |-> factory(slot, sequence)]
    /\ phase = "off" /\ target = None /\ spare = 1 /\ left = 0
    /\ booted = None /\ chosen = None
    /\ proven = {<<slot, sequence>>}
    /\ acknowledged = sequence
    /\ tries = [sequence |-> 0, count |-> 0]

Init == \E slot \in Slots, sequence \in Releases : InitWith(slot, sequence)

Begin(i, state, decision) ==
    /\ phase' = "writing"
    /\ target' = state /\ chosen' = decision
    /\ spare' = 3 - i /\ left' = 2
    /\ UNCHANGED <<copies, booted, acknowledged, tries>>

\* The boot chooser selects a slot and writes the state that says so.
PowerOn ==
    /\ phase = "off"
    /\ \E i \in {1, 2} :
          /\ newest_valid_record(i)
          /\ Advances(copies[i])
          /\ Begin(i, prepare_boot(copies[i]), BootDecision(copies[i]))
    /\ UNCHANGED proven

\* A release is installed in the inactive slot and staged.
StageUpdate(slot, sequence, layout_fits, configuration) ==
    /\ phase = "running"
    /\ \E i \in {1, 2} :
          /\ newest_valid_record(i)
          /\ authorize_install(copies[i], sequence, layout_fits, configuration, slot)
          /\ CanStage(copies[i], slot, sequence)
          /\ Begin(i, stage(copies[i], slot, sequence), booted)
    /\ UNCHANGED proven

\* The health ceremony of the running system.
ConfirmBoot(healthy) ==
    /\ phase = "running"
    /\ \E i \in {1, 2} :
          /\ newest_valid_record(i)
          /\ CanConfirm(copies[i], booted, healthy)
          /\ Begin(i, confirm(copies[i]), booted)
    /\ proven' = proven \cup {<<booted.slot, booted.sequence>>}

Written == IF left = 2 THEN spare ELSE 3 - spare

Counted(decision) ==
    IF ~decision.pending THEN [sequence |-> 0, count |-> 0]
    ELSE [sequence |-> decision.sequence,
          count |-> IF tries.sequence = decision.sequence THEN tries.count + 1 ELSE 1]

\* A record is complete on the medium; after the second one the state takes
\* effect, and a boot goes on to the slot that was selected.
WriteRecord ==
    /\ phase = "writing"
    /\ copies' = [copies EXCEPT ![Written] = target]
    /\ left' = left - 1
    /\ IF left = 2
       THEN UNCHANGED <<phase, target, booted, chosen, acknowledged, tries>>
       ELSE /\ phase' = "running"
            /\ target' = None /\ chosen' = None
            /\ booted' = chosen
            /\ acknowledged' = target.confirmed_sequence
            /\ tries' = IF booted = None THEN Counted(chosen) ELSE tries
    /\ UNCHANGED <<spare, proven>>

\* Power goes; a record that is being written may be torn.
PowerLoss ==
    /\ phase # "off"
    /\ phase' = "off"
    /\ \/ UNCHANGED copies
       \/ phase = "writing" /\ copies' = [copies EXCEPT ![Written] = Torn]
    /\ target' = None /\ chosen' = None /\ booted' = None /\ left' = 0
    /\ UNCHANGED <<spare, proven, acknowledged, tries>>

Next ==
    \/ PowerOn
    \/ \E slot \in Slots, sequence \in Releases, layout_fits \in BOOLEAN, configuration \in Slots :
          StageUpdate(slot, sequence, layout_fits, configuration)
    \/ \E healthy \in BOOLEAN : ConfirmBoot(healthy)
    \/ WriteRecord
    \/ PowerLoss

Spec == Init /\ [][Next]_vars

----------------------------------------------------------------------------
(* Properties                                                              *)

TypeOK ==
    /\ copies \in [{1, 2} -> BootStates \cup {Torn}]
    /\ phase \in {"off", "writing", "running"}
    /\ target \in BootStates \cup {None}
    /\ spare \in {1, 2} /\ left \in 0 .. 2
    /\ booted \in Decisions \cup {None}
    /\ chosen \in Decisions \cup {None}
    /\ proven \subseteq Slots \X Nat
    /\ acknowledged \in Nat
    /\ tries \in [sequence : Nat, count : Nat]

\* No sequence of legal calls reaches a state that validate refuses.
StatesValid ==
    /\ \A i \in {1, 2} : copies[i] # Torn => validate(copies[i])
    /\ target # None => validate(target)

\* Whatever was torn, newest_valid_record selects a record.
RecordRemains == \E i \in {1, 2} : newest_valid_record(i)

\* The confirmed slot holds a release that ran and passed the ceremony (or
\* came with the device), and it never falls behind a completed write.
ConfirmedIsProven ==
    \A i \in {1, 2} : newest_valid_record(i) =>
        /\ <<copies[i].confirmed_slot, copies[i].confirmed_sequence>> \in proven
        /\ copies[i].confirmed_sequence >= acknowledged

\* Control goes to an unconfirmed release at most MAX_BOOT_ATTEMPTS times,
\* although power may be lost at any moment of the writes that count it.
AttemptsBounded ==
    /\ tries.count <= MaxBootAttempts
    /\ \A i \in {1, 2} :
          /\ newest_valid_record(i)
          /\ copies[i].pending # None
          /\ copies[i].pending.sequence = tries.sequence
          => tries.count + copies[i].pending.attempts_remaining <= MaxBootAttempts

\* The boot state survives power loss: every reachable state is valid, one
\* record can always be selected, what it confirms has run, and an
\* unconfirmed release is tried only so often.
BootSound ==
    TypeOK /\ StatesValid /\ RecordRemains /\ ConfirmedIsProven /\ AttemptsBounded

============================================================================
