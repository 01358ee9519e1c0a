------------------------------- MODULE Recovery -------------------------------
(***************************************************************************)
(* Backup and restore of the persistent data (crates/cp0-recovery).  A     *)
(* backup reads every file twice, once for its digest and once to copy it, *)
(* while the system may still write them; it is verified before it is      *)
(* acknowledged.  A restore verifies the bundle, wants an empty target and *)
(* reads the bundle a second time to write it.  Power may go at any        *)
(* moment, and the medium of the bundle may turn bad.                      *)
(*                                                                         *)
(* A file is its content, a number, and the fingerprint that changes with  *)
(* every write.  It is read in two blocks, so that a write in between      *)
(* shows as a pair of two contents.  A digest is the content it is of.     *)
(***************************************************************************)
EXTENDS Integers, Sequences, SequencesExt, TLC

CONSTANTS
    Paths,          \* the files below the data root, in the order of their paths
    Required,       \* REQUIRED_FILES and the image profile
    Excluded,       \* EXCLUDED_TRANSIENT_PATHS
    MaxChanges      \* how often files are written during a backup

Files == ToSet(Paths)
RecoveryConstants == Required \subseteq Files /\ Excluded \subseteq Files \ Required /\ MaxChanges \in Nat

VARIABLES
    source,     \* the data root
    changes,
    pc, at,     \* the tool: what it does, and with which path
    entries,    \* what collect_source_entries found so far
    block,      \* the first block of the file that is being read
    bundle,     \* the backup file
    target,     \* the restored data root: what is in each file
    reply,
    snapshot,   \* the data root when its last file had been inspected
    verified    \* what the first pass of a restore read

vars == <<source, changes, pc, at, entries, block, bundle, target, reply, snapshot, verified>>
sourceVars == <<source, changes>>
restoreVars == <<target, verified>>

NoFile == [kind |-> "absent", content |-> 0, fingerprint |-> 0]
NoBundle == [exists |-> FALSE, header |-> <<>>, parts |-> <<>>, synced |-> FALSE]
Nothing == <<>>
Unreadable == <<>>

----------------------------------------------------------------------------
(* What else goes on                                                       *)

\* A file is written, created, removed or replaced by a link.
Change(f, kind) ==
    /\ changes < MaxChanges /\ changes' = changes + 1
    /\ source' = [source EXCEPT ![f] = [kind |-> kind, content |-> @.content + 1,
                                        fingerprint |-> @.fingerprint + 1]]
    /\ UNCHANGED <<pc, at, entries, block, bundle, restoreVars, reply, snapshot>>

\* A part of the bundle can no longer be read as it was written.
MediumFails(f) ==
    /\ pc \in {"idle", "restore"} /\ f \in DOMAIN bundle.parts
    /\ bundle' = [bundle EXCEPT !.parts[f] = Unreadable]
    /\ UNCHANGED <<sourceVars, pc, at, entries, block, restoreVars, reply, snapshot>>

----------------------------------------------------------------------------
(* create_backup                                                           *)

\* verify_output_location: the output must not exist.
create_backup ==
    /\ pc = "idle" /\ reply # "restored"
    /\ IF bundle.exists THEN reply' = "error" /\ UNCHANGED <<pc, at, entries>>
       ELSE pc' = "inspect" /\ at' = 1 /\ entries' = <<>> /\ reply' = "none"
    /\ UNCHANGED <<sourceVars, block, bundle, restoreVars, snapshot>>

Fails ==
    /\ pc' = "idle" /\ reply' = "error" /\ bundle' = NoBundle
    /\ UNCHANGED <<sourceVars, at, entries, block, restoreVars, snapshot>>

\* An operation on a file fails: what was written of the backup is removed.
BackupFails == pc \in {"inspect", "hash", "copy", "copying", "header", "sync", "verify"} /\ Fails

\* The next file, or the next stage when this was the last one.
Advance(same, next) ==
    IF at < Len(Paths) THEN at' = at + 1 /\ pc' = same ELSE at' = 1 /\ pc' = next

\* collect_source_path: what is not there is not listed, unless it is
\* required; what is not a regular file is refused.
collect_source_path ==
    LET f == Paths[at] IN
    /\ pc = "inspect"
    /\ \/ /\ f \in Excluded \/ (f \notin Required /\ source[f].kind = "absent")
          /\ Advance("inspect", "create") /\ UNCHANGED <<entries, block, bundle, reply>>
       \/ /\ f \notin Excluded /\ source[f].kind = "file"
          /\ entries' = (f :> [digest |-> Nothing, fingerprint |-> source[f].fingerprint]) @@ entries
          /\ block' = source[f].content /\ pc' = "hash" /\ UNCHANGED <<at, bundle, reply>>
       \/ /\ f \notin Excluded /\ (source[f].kind = "link" \/ (f \in Required /\ source[f].kind = "absent"))
          /\ pc' = "idle" /\ reply' = "error" /\ UNCHANGED <<at, entries, block, bundle>>
    /\ snapshot' = IF pc' = "create" THEN source ELSE snapshot
    /\ UNCHANGED <<sourceVars, restoreVars>>

\* hash_source_file: the rest of the file, and its fingerprint again.
hash_source_file ==
    LET f == Paths[at] IN
    /\ pc = "hash" /\ source[f].kind = "file" /\ source[f].fingerprint = entries[f].fingerprint
    /\ entries' = [entries EXCEPT ![f].digest = <<block, source[f].content>>]
    /\ Advance("inspect", "create")
    /\ snapshot' = IF pc' = "create" THEN source ELSE snapshot
    /\ UNCHANGED <<sourceVars, block, bundle, restoreVars, reply>>

\* write_backup: a new file with a header of zeroes.
CreateOutput ==
    /\ pc = "create" /\ pc' = "copy"
    /\ bundle' = [NoBundle EXCEPT !.exists = TRUE]
    /\ UNCHANGED <<sourceVars, at, entries, block, restoreVars, reply, snapshot>>

\* A file is opened again and must have the fingerprint it was inspected with.
CopyBegins ==
    LET f == Paths[at] IN
    /\ pc = "copy"
    /\ IF f \notin DOMAIN entries THEN Advance("copy", "header") /\ UNCHANGED block
       ELSE /\ source[f].kind = "file" /\ source[f].fingerprint = entries[f].fingerprint
            /\ block' = source[f].content /\ pc' = "copying" /\ UNCHANGED at
    /\ UNCHANGED <<sourceVars, entries, bundle, restoreVars, reply, snapshot>>

\* What was copied must have the digest, and the file its fingerprint still.
Fault_CopyEnds ==
    LET f == Paths[at] IN
    /\ pc = "copying"
    /\ bundle' = [bundle EXCEPT !.parts = (f :> <<block, source[f].content>>) @@ @]
    /\ Advance("copy", "header")
    /\ UNCHANGED <<sourceVars, entries, block, restoreVars, reply, snapshot>>
CopyEnds ==
    LET f == Paths[at]
        copied == <<block, source[f].content>> IN
    /\ pc = "copying"
    /\ copied = entries[f].digest /\ source[f].fingerprint = entries[f].fingerprint
    /\ bundle' = [bundle EXCEPT !.parts = (f :> copied) @@ @]
    /\ Advance("copy", "header")
    /\ UNCHANGED <<sourceVars, entries, block, restoreVars, reply, snapshot>>

\* The header with the digest of the payload comes last; then all is synced.
WriteHeader ==
    /\ pc = "header" /\ pc' = "sync"
    /\ bundle' = [bundle EXCEPT !.header = bundle.parts]
    /\ UNCHANGED <<sourceVars, at, entries, block, restoreVars, reply, snapshot>>

SyncOutput ==
    /\ pc = "sync" /\ pc' = "verify"
    /\ bundle' = [bundle EXCEPT !.synced = TRUE]
    /\ UNCHANGED <<sourceVars, at, entries, block, restoreVars, reply, snapshot>>

\* validate_required_entries
validate_required_entries(parts) == Required \subseteq DOMAIN parts

\* parse_backup_reader: the payload is the one the header has the digest of.
parse_backup(b) ==
    /\ b.exists /\ b.header # Nothing
    /\ b.parts = b.header /\ validate_required_entries(b.parts)

verify_backup ==
    /\ pc = "verify"
    /\ IF parse_backup(bundle) THEN pc' = "idle" /\ reply' = "backed up" /\ UNCHANGED bundle
       ELSE pc' = "idle" /\ reply' = "error" /\ bundle' = NoBundle
    /\ UNCHANGED <<sourceVars, at, entries, block, restoreVars, snapshot>>

----------------------------------------------------------------------------
(* restore_backup                                                          *)

\* The bundle is verified and the target must be empty.
restore_backup ==
    /\ pc = "idle" /\ reply # "restored"
    /\ IF parse_backup(bundle) /\ target = Nothing
       THEN pc' = "restore" /\ at' = 1 /\ verified' = bundle.parts /\ reply' = "none"
       ELSE reply' = "error" /\ UNCHANGED <<pc, at, verified>>
    /\ UNCHANGED <<sourceVars, entries, block, bundle, target, snapshot>>

\* read_entry and the digest of the entry's content.
EntryIntact(f) == bundle.parts[f] = bundle.header[f]

\* create_restore_file refuses a name that exists; finish_restore_file syncs.
create_restore_file(f) == f \notin DOMAIN target /\ target' = (f :> bundle.parts[f]) @@ target

\* An entry of the second pass: create_restore_file, its content, and
\* finish_restore_file once the digest of the entry is right.
RestoreFile ==
    LET f == Paths[at] IN
    /\ pc = "restore"
    /\ IF f \in DOMAIN bundle.parts
       THEN /\ create_restore_file(f)
            /\ IF EntryIntact(f)
               THEN Advance("restore", "finish") /\ UNCHANGED reply
               ELSE pc' = "idle" /\ reply' = "error" /\ UNCHANGED at
       ELSE Advance("restore", "finish") /\ UNCHANGED <<target, reply>>
    /\ UNCHANGED <<sourceVars, entries, block, bundle, verified, snapshot>>

\* The digest of the whole payload, the metadata of the directories, and
\* every directory synced.
FinishRestore ==
    /\ pc = "finish" /\ pc' = "idle"
    /\ reply' = IF parse_backup(bundle) THEN "restored" ELSE "error"
    /\ UNCHANGED <<sourceVars, at, entries, block, bundle, restoreVars, snapshot>>

RestoreFails ==
    /\ pc \in {"restore", "finish"} /\ pc' = "idle" /\ reply' = "error"
    /\ UNCHANGED <<sourceVars, at, entries, block, bundle, restoreVars, snapshot>>

----------------------------------------------------------------------------

\* Power goes while the tool works.  A bundle that is not synced keeps any of
\* what was written to it, and a target any of the files whose directories
\* were not synced yet.
Kept(parts) == {[f \in kept |-> parts[f]] : kept \in SUBSET DOMAIN parts}
Crash ==
    /\ pc # "idle" /\ pc' = "idle" /\ reply' = "none"
    /\ \/ bundle.synced /\ UNCHANGED bundle
       \/ /\ ~bundle.synced
          /\ \E parts \in Kept(bundle.parts), header \in {Nothing, bundle.header} :
                bundle' = [bundle EXCEPT !.parts = parts, !.header = header]
    /\ IF pc \in {"restore", "finish"} THEN target' \in Kept(target) ELSE UNCHANGED target
    /\ UNCHANGED <<sourceVars, at, entries, block, snapshot, verified>>

Init ==
    /\ source \in [Files -> {NoFile, [kind |-> "file", content |-> 1, fingerprint |-> 1]}]
    /\ \A f \in Required : source[f].kind = "file"
    /\ changes = 0 /\ pc = "idle" /\ at = 1 /\ entries = <<>> /\ block = 0
    /\ bundle = NoBundle /\ target = Nothing /\ reply = "none"
    /\ snapshot = Nothing /\ verified = Nothing

Next ==
    \/ \E f \in Files, kind \in {"file", "absent", "link"} : Change(f, kind)
    \/ \E f \in Files : MediumFails(f)
    \/ create_backup \/ BackupFails \/ collect_source_path \/ hash_source_file \/ CreateOutput
    \/ CopyBegins \/ CopyEnds \/ WriteHeader \/ SyncOutput \/ verify_backup
    \/ restore_backup \/ RestoreFile \/ FinishRestore \/ RestoreFails
    \/ Crash
Spec == Init /\ [][Next]_vars

----------------------------------------------------------------------------

TypeOK ==
    /\ at \in 1 .. Len(Paths)
    /\ reply \in {"none", "error", "backed up", "restored"}
    /\ DOMAIN bundle.parts \subseteq Files \ Excluded /\ DOMAIN target \subseteq Files \ Excluded

\* A bundle that verifies is a snapshot: its files, whole, have the content
\* that all of them had at one moment, although they were read one after the
\* other and could be written in between.
BackupIsSnapshot ==
    parse_backup(bundle) =>
        \A f \in DOMAIN bundle.parts :
            snapshot[f].kind = "file" /\ bundle.parts[f] = <<snapshot[f].content, snapshot[f].content>>

\* A backup that is acknowledged can be restored unless its medium fails, and
\* what an interrupted backup left behind verifies only when it is all there.
AcknowledgedVerifies ==
    reply = "backed up" => parse_backup(bundle) \/ \E f \in DOMAIN bundle.parts : bundle.parts[f] = Unreadable
TornIsRefused == parse_backup(bundle) => DOMAIN bundle.parts = DOMAIN entries

\* A restore that is acknowledged wrote all of what was verified and nothing
\* else, whatever was interrupted before.
RestoreIsFaithful == reply = "restored" => target = verified /\ Required \subseteq DOMAIN target

\* A backup that is acknowledged verifies and is the state of one moment, a torn
\* one is refused, and a restore writes exactly what was verified.
RecoverySound ==
    TypeOK /\ BackupIsSnapshot /\ AcknowledgedVerifies /\ RestoreIsFaithful /\ TornIsRefused
===============================================================================
