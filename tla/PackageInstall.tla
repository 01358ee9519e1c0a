--------------------------- MODULE PackageInstall ---------------------------
(***************************************************************************)
(* Installed packages of appd: the version directories that installer.rs   *)
(* publishes, the application registry of registry.rs in memory and on     *)
(* disk, and the removal of lifecycle.rs, with a crash and restart of appd *)
(* between any two of their file-system operations.  Renames that a power  *)
(* loss takes back are not modelled.                                       *)
(*                                                                         *)
(* A version directory appears by one rename of a staged tree, so it is    *)
(* absent or complete: dirs[a][v] is its content, 0 when there is none.    *)
(* The control thread runs one operation at a time; op says which part of  *)
(* it is done.  Saving the registry succeeds, or fails before its rename,  *)
(* or fails after it (the directory cannot be synced), which reports an    *)
(* error although the new file is in place.                                *)
(***************************************************************************)
EXTENDS Integers, Sequences, SequencesExt

CONSTANTS
    Apps, Versions,
    Contents,           \* package digests, non-zero
    FirstAccount,       \* FIRST_APP_ACCOUNT_ID, a positive number
    LastAccount,        \* LAST_APP_ACCOUNT_ID
    MaxRollback,        \* MAX_ROLLBACK_VERSIONS
    NoVersion           \* not a version

ASSUME AccountAssumption ==
    FirstAccount \in Nat \ {0} /\ LastAccount \in Nat /\ FirstAccount <= LastAccount
ASSUME ContentAssumption == 0 \notin Contents
ASSUME VersionAssumption == NoVersion \notin Versions
ASSUME RollbackAssumption == MaxRollback \in Nat \ {0}

VARIABLES
    registry,   \* AppManager.registry
    disk,       \* the registry file
    dirs,       \* apps_root/<app>/<version>
    tombstone,  \* apps_root/.uninstall-<account>, {} or one tree
    op,         \* the control thread's operation
    owner       \* history: the app each account was first registered to on disk

vars == <<registry, disk, dirs, tombstone, op, owner>>

NoAccount == [account_id |-> 0, installed_version |-> NoVersion, previous_versions |-> <<>>]
NoTree == [v \in Versions |-> 0]
Idle == [pc |-> "idle"]

Init ==
    /\ registry = [apps |-> [a \in Apps |-> NoAccount], next_account_id |-> FirstAccount]
    /\ disk = registry
    /\ dirs = [a \in Apps |-> NoTree]
    /\ tombstone = [a \in Apps |-> {}]
    /\ op = Idle
    /\ owner = [n \in FirstAccount .. LastAccount |-> {}]

-----------------------------------------------------------------------------
(* AppRegistry                                                             *)

CanAssign(r, a) == r.apps[a].account_id # 0 \/ r.next_account_id <= LastAccount

Assign(r, a) ==
    IF r.apps[a].account_id # 0 THEN r
    ELSE [apps |-> [r.apps EXCEPT ![a].account_id = r.next_account_id],
          next_account_id |-> r.next_account_id + 1]

\* retain(|version| version != x), on the lists of a registry, which validate
\* found to hold no version twice
Without(s, x) == RemoveFirst(s, x)
Truncate(s) == IF Len(s) > MaxRollback THEN SubSeq(s, 1, MaxRollback) ELSE s

\* r with the current and the earlier versions of a replaced
WithVersions(r, a, installed, previous) ==
    [r EXCEPT !.apps[a] = [@ EXCEPT !.installed_version = installed, !.previous_versions = previous]]

MarkInstalled(r, a, v) ==
    LET account == r.apps[a]
        kept == Without(account.previous_versions, v)
    IN  IF account.installed_version = v THEN r
        ELSE WithVersions(r, a, v,
                 IF account.installed_version = NoVersion THEN kept
                 ELSE Truncate(<<account.installed_version>> \o Without(kept, account.installed_version)))

RegistryRollback(r, a) ==
    LET account == r.apps[a]
    IN  WithVersions(r, a, Head(account.previous_versions),
             Truncate(<<account.installed_version>>
                        \o Without(Tail(account.previous_versions), account.installed_version)))

\* Fault: removing an app frees its identity
Fault_RegistryUninstall(r, a) ==
    [apps |-> [r.apps EXCEPT ![a] = NoAccount],
     next_account_id |-> IF r.apps[a].account_id + 1 = r.next_account_id
                         THEN r.next_account_id - 1 ELSE r.next_account_id]

RegistryUninstall(r, a) == WithVersions(r, a, NoVersion, <<>>)

\* What AppRegistry::validate asks of the versions of one account
HistoryValid(account) ==
    /\ Len(account.previous_versions) <= MaxRollback
    /\ account.installed_version = NoVersion => account.previous_versions = <<>>
    /\ account.installed_version \notin ToSet(account.previous_versions)
    /\ IsInjective(account.previous_versions)

\* AppRegistry::validate, which load and save apply to the whole file
Valid(r) ==
    /\ r.next_account_id \in FirstAccount .. LastAccount + 1
    /\ \A a \in Apps :
          LET account == r.apps[a]
          IN  /\ account.account_id # 0 => account.account_id \in FirstAccount .. r.next_account_id - 1
              /\ \A b \in Apps : account.account_id # 0 /\ account.account_id = r.apps[b].account_id => a = b
              /\ HistoryValid(account)

\* save_atomic and the caller's `self.registry = next`
Save(next, outcome) ==
    /\ disk' = IF outcome = "failed" \/ ~Valid(next) THEN disk ELSE next
    /\ owner' = [n \in DOMAIN owner |->
                    owner[n] \cup {a \in Apps : disk'.apps[a].account_id = n
                                               /\ disk'.apps[a].installed_version # NoVersion}]

Outcomes == {"ok", "failed", "unsynced"}
Saved(next, outcome) == outcome = "ok" /\ Valid(next)

-----------------------------------------------------------------------------
(* Installation                                                            *)

\* final_dir does not exist, or directory_matches
MayPublish(a, v, c) == dirs[a][v] \in {0, c}

\* install_inner: a failure before the rename leaves nothing visible, one of
\* the directory sync after it (~ok) leaves an inactive orphan.
Publish(a, v, c, ok) ==
    /\ op = Idle
    /\ MayPublish(a, v, c)
    /\ ok \/ dirs[a][v] = 0
    /\ dirs' = [dirs EXCEPT ![a][v] = c]
    /\ op' = IF ok THEN [pc |-> "prepared", app |-> a, version |-> v] ELSE Idle
    /\ UNCHANGED <<registry, disk, tombstone, owner>>

\* commit_prepared_install: prepare_account, the host account check, then
\* mark_installed, which reads the published manifest and saves.
Commit(outcome) ==
    LET assigned == Assign(registry, op.app)
        next == MarkInstalled(assigned, op.app, op.version)
    IN  /\ op.pc = "prepared"
        /\ op' = Idle
        /\ \/ /\ CanAssign(registry, op.app)
              /\ dirs[op.app][op.version] # 0
              /\ Save(next, outcome)
              /\ registry' = IF Saved(next, outcome) THEN next ELSE assigned
           \/ \* the app runs, the account pool is exhausted or the host account is wrong
              /\ registry' = IF CanAssign(registry, op.app) THEN assigned ELSE registry
              /\ UNCHANGED <<disk, owner>>
        /\ UNCHANGED <<dirs, tombstone>>

\* AppManager::rollback
Rollback(a, outcome) ==
    LET account == registry.apps[a]
        next == RegistryRollback(registry, a)
    IN  /\ op = Idle
        /\ account.installed_version # NoVersion
        /\ account.previous_versions # <<>>
        /\ dirs[a][Head(account.previous_versions)] # 0
        /\ Save(next, outcome)
        /\ registry' = IF Saved(next, outcome) THEN next ELSE registry
        /\ UNCHANGED <<dirs, tombstone, op>>

-----------------------------------------------------------------------------
(* uninstall_stopped: stage the tree, save the registry, remove the tree.  *)

\* rename(app_root, tombstone) needs app_root and no earlier tombstone tree
Stage(a) ==
    /\ op = Idle
    /\ registry.apps[a].installed_version # NoVersion
    /\ dirs[a] # NoTree
    /\ tombstone[a] = {}
    /\ tombstone' = [tombstone EXCEPT ![a] = {dirs[a]}]
    /\ dirs' = [dirs EXCEPT ![a] = NoTree]
    /\ op' = [pc |-> "staged", app |-> a]
    /\ UNCHANGED <<registry, disk, owner>>

\* A failed save renames the tree back and ignores that rename's own failure.
Unregister(outcome) ==
    LET next == RegistryUninstall(registry, op.app)
    IN  /\ op.pc = "staged"
        /\ Save(next, outcome)
        /\ IF Saved(next, outcome)
           THEN /\ registry' = next
                /\ op' = [op EXCEPT !.pc = "unregistered"]
                /\ UNCHANGED <<dirs, tombstone>>
           ELSE /\ op' = Idle
                /\ \/ /\ \E tree \in tombstone[op.app] : dirs' = [dirs EXCEPT ![op.app] = tree]
                      /\ tombstone' = [tombstone EXCEPT ![op.app] = {}]
                   \/ UNCHANGED <<dirs, tombstone>>
                /\ UNCHANGED registry

\* remove_dir_all; a failure may have removed any part of the tree and is
\* reported as package_cleanup_pending
RemoveTree(ok) ==
    /\ op.pc = "unregistered"
    /\ tombstone' = [tombstone EXCEPT ![op.app] = IF ok THEN {} ELSE {NoTree}]
    /\ op' = Idle
    /\ UNCHANGED <<registry, disk, dirs, owner>>

\* appd restarts: AppManager::load reads the registry file again.
Crash ==
    /\ registry' = disk
    /\ op' = Idle
    /\ UNCHANGED <<disk, dirs, tombstone, owner>>

Next ==
    \/ \E a \in Apps, v \in Versions, c \in Contents, ok \in BOOLEAN : Publish(a, v, c, ok)
    \/ \E outcome \in Outcomes : Commit(outcome) \/ Unregister(outcome)
    \/ \E a \in Apps, outcome \in Outcomes : Rollback(a, outcome)
    \/ \E a \in Apps : Stage(a)
    \/ \E ok \in BOOLEAN : RemoveTree(ok)
    \/ Crash

Spec == Init /\ [][Next]_vars

-----------------------------------------------------------------------------
(* Properties                                                              *)

Accounts ==
    [account_id : {0} \cup (FirstAccount .. LastAccount),
     installed_version : Versions \cup {NoVersion},
     previous_versions : Seq(Versions)]
Registries == [apps : [Apps -> Accounts], next_account_id : FirstAccount .. LastAccount + 1]
Trees == [Versions -> Contents \cup {0}]

\* Every variable has its type.
TypeOK ==
    /\ registry \in Registries
    /\ disk \in Registries
    /\ dirs \in [Apps -> Trees]
    /\ tombstone \in [Apps -> {{}} \cup {{tree} : tree \in Trees}]
    /\ op \in {Idle}
            \cup [pc : {"prepared"}, app : Apps, version : Versions]
            \cup [pc : {"staged", "unregistered"}, app : Apps]
    /\ owner \in [FirstAccount .. LastAccount -> SUBSET Apps]

\* AppRegistry::validate never refuses what the code itself built: the file
\* can always be loaded, and whatever install, rollback or uninstall comes
\* next, its registry passes the validation that save_atomic starts with, so
\* no history of operations leaves an app that cannot be changed any more.
ValidateNeverRefuses ==
    /\ Valid(disk)
    /\ \A a \in Apps :
          /\ CanAssign(registry, a) =>
                \A v \in Versions : Valid(MarkInstalled(Assign(registry, a), a, v))
          /\ registry.apps[a].installed_version # NoVersion =>
                /\ Valid(RegistryUninstall(registry, a))
                /\ registry.apps[a].previous_versions # <<>> => Valid(RegistryRollback(registry, a))

\* AppRegistry::assign never gives the Unix account that an app was installed
\* under to another app, across failed saves, uninstalls and restarts.
AccountNeverRecycled == \A n \in DOMAIN owner : \A a, b \in owner[n] : a = b

Offered(r, a) == ToSet(r.apps[a].previous_versions) \cup ({r.apps[a].installed_version} \ {NoVersion})

\* Every version that the registry offers, as current or for rollback and in
\* memory or on disk, still has its files: in place, or complete in the
\* tombstone of an uninstall_stopped that did not finish.
RegisteredHasFiles ==
    \A r \in {registry, disk}, a \in Apps : \A v \in Offered(r, a) :
        dirs[a][v] # 0 \/ \E tree \in tombstone[a] : tree[v] # 0

\* The registry that a restart finds is one it accepts, and every version it
\* offers has its files, wherever an operation was cut off.
RegistryUsable == ValidateNeverRefuses /\ RegisteredHasFiles

\* The two together: whatever fails or is cut off in install, rollback and
\* uninstall, no account changes hands and the registry stays usable.
PackagesSound == TypeOK /\ AccountNeverRecycled /\ RegistryUsable
====
