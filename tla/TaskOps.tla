------------------------------ MODULE TaskOps ------------------------------
(***************************************************************************)
(* The task registry of appd (crates/cp0-appd/src/tasks.rs) as operators   *)
(* on a registry value                                                     *)
(*                                                                         *)
(*    [tasks, next_task_id, next_sequence]                                 *)
(*                                                                         *)
(* where tasks is the Vec<TaskRecord> of the code, in its order.  None is  *)
(* 0 for the identifiers the code keeps non-zero (task ids, runtime        *)
(* tokens, thumbnail generations).  An operation that returns Err leaves   *)
(* the registry as it was: every operation Op has a guard CanOp, and the   *)
(* value Op gives is meant only where the guard holds.                     *)
(***************************************************************************)
EXTENDS Integers, Sequences

CONSTANTS
    Apps,       \* application identities
    Versions,   \* package versions
    Capacity,   \* TaskRegistry.capacity, at most MAX_TASKS
    U64Max      \* u64::MAX

ASSUME CapacityAssumption == Capacity \in Nat \ {0}
ASSUME U64MaxAssumption == U64Max \in Nat \ {0, 1}

TaskStates == {"foreground", "background", "frozen", "checkpointed", "crashed"}

\* TaskState::is_resident
Resident == {"foreground", "background", "frozen"}

CheckpointStatus == {"not_requested", "available", "unavailable"}

TaskRecord ==
    [task_id : Nat \ {0}, app_id : Apps, version : Versions, state : TaskStates,
     created_sequence : Nat \ {0}, last_activated_sequence : Nat \ {0},
     checkpoint : CheckpointStatus, thumbnail_generation : Nat, runtime : Nat]

Registry == [tasks : Seq(TaskRecord), next_task_id : Nat \ {0}, next_sequence : Nat \ {0}]

EmptyRegistry == [tasks |-> <<>>, next_task_id |-> 1, next_sequence |-> 1]

\* checked_add(1).unwrap_or(1)
NextU64(n) == IF n = U64Max THEN 1 ELSE n + 1

-----------------------------------------------------------------------------
(* Lookups: the set holding the first index the predicate selects, or {}.  *)

First(I) == {i \in I : \A j \in I : i <= j}

TheIndex(I) == CHOOSE i \in I : TRUE

ById(ts, id) == First({i \in DOMAIN ts : ts[i].task_id = id})

ByApp(ts, app) == First({i \in DOMAIN ts : ts[i].app_id = app})

ByToken(ts, token) == First({i \in DOMAIN ts : ts[i].runtime # 0 /\ ts[i].runtime = token})

-----------------------------------------------------------------------------
(* Mutations.                                                              *)

\* Fault: the previous foreground task is left as it is
Fault_BackgroundForeground(ts, except) == ts

\* The first foreground task other than except goes to the background.
BackgroundForeground(ts, except) ==
    LET I == First({i \in DOMAIN ts : ts[i].state = "foreground" /\ ts[i].task_id # except})
    IN  [i \in DOMAIN ts |-> IF i \in I THEN [ts[i] EXCEPT !.state = "background"] ELSE ts[i]]

CanEvict(reg, victim) ==
    /\ Len(reg.tasks) = Capacity
    /\ reg.tasks[1].task_id = victim

EvictCapacityVictim(reg, victim) == [reg EXCEPT !.tasks = Tail(@)]

\* Fault: a resident task may be launched again
Fault_CanRelaunch(reg, app) == ByApp(reg.tasks, app) # {}

\* A task without a process is started again: it keeps its identity, its
\* creation sequence, its checkpoint and its thumbnail.
CanRelaunch(reg, app) ==
    \E i \in ByApp(reg.tasks, app) : reg.tasks[i].state \notin Resident

Relaunch(reg, app, version, token) ==
    LET I  == ByApp(reg.tasks, app)
        ts == BackgroundForeground(reg.tasks, reg.tasks[TheIndex(I)].task_id)
    IN  [reg EXCEPT
            !.next_sequence = NextU64(@),
            !.tasks = [i \in DOMAIN ts |->
                IF i \in I
                THEN [ts[i] EXCEPT !.version = version, !.state = "foreground", !.runtime = token,
                                   !.last_activated_sequence = reg.next_sequence]
                ELSE ts[i]]]

\* Fault: the caller's victim is not required when the registry is full
Fault_CanLaunchNew(reg, app, victim) == ByApp(reg.tasks, app) = {} /\ victim = 0

\* A new task; a full registry first gives up the task the caller has
\* checkpointed, which has to be the oldest one.
CanLaunchNew(reg, app, victim) ==
    /\ ByApp(reg.tasks, app) = {}
    /\ IF Len(reg.tasks) = Capacity THEN CanEvict(reg, victim) ELSE victim = 0

LaunchNew(reg, app, version, token, victim) ==
    LET old == IF victim = 0 THEN reg ELSE EvictCapacityVictim(reg, victim)
    IN  [tasks |-> Append(BackgroundForeground(old.tasks, 0),
            [task_id |-> reg.next_task_id, app_id |-> app, version |-> version,
             state |-> "foreground", created_sequence |-> reg.next_sequence,
             last_activated_sequence |-> reg.next_sequence, checkpoint |-> "not_requested",
             thumbnail_generation |-> 0, runtime |-> token]),
         next_task_id |-> NextU64(reg.next_task_id),
         next_sequence |-> NextU64(reg.next_sequence)]

CanActivate(reg, id) == \E i \in ById(reg.tasks, id) : reg.tasks[i].state \in Resident

Activate(reg, id) ==
    LET ts == BackgroundForeground(reg.tasks, id)
    IN  [reg EXCEPT
            !.next_sequence = NextU64(@),
            !.tasks = [i \in DOMAIN ts |->
                IF i \in ById(reg.tasks, id)
                THEN [ts[i] EXCEPT !.state = "foreground", !.last_activated_sequence = reg.next_sequence]
                ELSE ts[i]]]

CanFreeze(reg, id) ==
    \E i \in ById(reg.tasks, id) : reg.tasks[i].state \in {"background", "frozen"}

Freeze(reg, id) ==
    [reg EXCEPT !.tasks = [i \in DOMAIN @ |->
        IF i \in ById(@, id) THEN [@[i] EXCEPT !.state = "frozen"] ELSE @[i]]]

CanCheckpoint(reg, id) == \E i \in ById(reg.tasks, id) : reg.tasks[i].state # "foreground"

Checkpoint(reg, id, status) ==
    [reg EXCEPT !.tasks = [i \in DOMAIN @ |->
        IF i \in ById(@, id)
        THEN [@[i] EXCEPT !.state = "checkpointed", !.checkpoint = status, !.runtime = 0]
        ELSE @[i]]]

RuntimeExited(reg, token) ==
    [reg EXCEPT !.tasks = [i \in DOMAIN @ |->
        IF i \in ByToken(@, token) THEN [@[i] EXCEPT !.state = "crashed", !.runtime = 0] ELSE @[i]]]

UpdateThumbnail(reg, id, generation) ==
    [reg EXCEPT !.tasks = [i \in DOMAIN @ |->
        IF i \in ById(@, id) THEN [@[i] EXCEPT !.thumbnail_generation = generation] ELSE @[i]]]

CanClose(reg, id) == ById(reg.tasks, id) # {}

(* Vec::remove. *)
RemoveIndex(s, i) == SubSeq(s, 1, i - 1) \o SubSeq(s, i + 1, Len(s))

Close(reg, id) == [reg EXCEPT !.tasks = RemoveIndex(@, TheIndex(ById(@, id)))]

-----------------------------------------------------------------------------
(* What a snapshot must satisfy to be restored (restore, invariants_hold   *)
(* and validate_snapshot).                                                 *)

WithinCapacity(reg) == Len(reg.tasks) <= Capacity

CreationOrdered(reg) ==
    \A i, j \in DOMAIN reg.tasks :
        i < j => reg.tasks[i].created_sequence < reg.tasks[j].created_sequence

OneForeground(reg) ==
    \A i, j \in DOMAIN reg.tasks :
        reg.tasks[i].state = "foreground" /\ reg.tasks[j].state = "foreground" => i = j

ResidentIffBound(reg) ==
    \A i \in DOMAIN reg.tasks : reg.tasks[i].state \in Resident <=> reg.tasks[i].runtime # 0

UniqueIds(reg) ==
    \A i, j \in DOMAIN reg.tasks : reg.tasks[i].task_id = reg.tasks[j].task_id => i = j

UniqueApps(reg) ==
    \A i, j \in DOMAIN reg.tasks : reg.tasks[i].app_id = reg.tasks[j].app_id => i = j

UniqueTokens(reg) ==
    \A i, j \in DOMAIN reg.tasks :
        reg.tasks[i].runtime # 0 /\ reg.tasks[i].runtime = reg.tasks[j].runtime => i = j

FreshIdentifiers(reg) ==
    \A i \in DOMAIN reg.tasks :
        /\ reg.tasks[i].task_id < reg.next_task_id
        /\ reg.tasks[i].created_sequence < reg.next_sequence
        /\ reg.tasks[i].last_activated_sequence < reg.next_sequence

Restorable(reg) ==
    /\ WithinCapacity(reg)
    /\ CreationOrdered(reg)
    /\ OneForeground(reg)
    /\ ResidentIffBound(reg)
    /\ UniqueIds(reg)
    /\ UniqueApps(reg)
    /\ UniqueTokens(reg)
    /\ FreshIdentifiers(reg)
=============================================================================
