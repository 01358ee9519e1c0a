---------------------------- MODULE TaskRegistry ----------------------------
(***************************************************************************)
(* The life of one task registry: every public operation of TaskRegistry   *)
(* (crates/cp0-appd/src/tasks.rs), called in any order, while the          *)
(* processes behind the runtime tokens come and go.                        *)
(*                                                                         *)
(* The callers are modelled by what they guarantee: a runtime token is     *)
(* handed out once (server.rs, runtime_sequence), a unit is stopped before *)
(* its task is closed, evicted or checkpointed, and an exit is reported    *)
(* only for a process that is gone, but possibly late or twice.            *)
(***************************************************************************)
EXTENDS TaskOps

CONSTANT Thumbnails   \* thumbnail generations

ASSUME ThumbnailsAssumption == Thumbnails \subseteq Nat \ {0}

VARIABLES
    reg,               \* the registry
    runtime_sequence,  \* the next runtime token
    live,              \* tokens whose process is running
    wrapped            \* history: a counter of the registry has wrapped

vars == <<reg, runtime_sequence, live, wrapped>>

Init ==
    /\ reg = EmptyRegistry
    /\ runtime_sequence = 1
    /\ live = {}
    /\ wrapped = FALSE

TokenOf(id) == {reg.tasks[i].runtime : i \in ById(reg.tasks, id)}

DoRelaunch(app, version) ==
    /\ CanRelaunch(reg, app)
    /\ reg' = Relaunch(reg, app, version, runtime_sequence)
    /\ live' = live \cup {runtime_sequence}
    /\ runtime_sequence' = runtime_sequence + 1

DoLaunch(app, version, victim) ==
    /\ CanLaunchNew(reg, app, victim)
    /\ reg' = LaunchNew(reg, app, version, runtime_sequence, victim)
    /\ live' = (live \ TokenOf(victim)) \cup {runtime_sequence}
    /\ runtime_sequence' = runtime_sequence + 1

DoEvict(victim) ==
    /\ CanEvict(reg, victim)
    /\ reg' = EvictCapacityVictim(reg, victim)
    /\ live' = live \ TokenOf(victim)
    /\ UNCHANGED runtime_sequence

DoActivate(id) ==
    /\ CanActivate(reg, id)
    /\ reg' = Activate(reg, id)
    /\ UNCHANGED <<runtime_sequence, live>>

DoFreeze(id) ==
    /\ CanFreeze(reg, id)
    /\ reg' = Freeze(reg, id)
    /\ UNCHANGED <<runtime_sequence, live>>

DoCheckpoint(id, status) ==
    /\ CanCheckpoint(reg, id)
    /\ reg' = Checkpoint(reg, id, status)
    /\ live' = live \ TokenOf(id)
    /\ UNCHANGED runtime_sequence

DoUpdateThumbnail(id, generation) ==
    /\ ById(reg.tasks, id) # {}
    /\ reg' = UpdateThumbnail(reg, id, generation)
    /\ UNCHANGED <<runtime_sequence, live>>

DoClose(id) ==
    /\ CanClose(reg, id)
    /\ reg' = Close(reg, id)
    /\ live' = live \ TokenOf(id)
    /\ UNCHANGED runtime_sequence

\* The process behind a token ends by itself.
UnitExits(token) ==
    /\ token \in live
    /\ live' = live \ {token}
    /\ UNCHANGED <<reg, runtime_sequence>>

\* A monitor reports the end of a process.
DoRuntimeExited(token) ==
    /\ token \notin live
    /\ reg' = RuntimeExited(reg, token)
    /\ UNCHANGED <<runtime_sequence, live>>

TaskIds == {reg.tasks[i].task_id : i \in DOMAIN reg.tasks}

Tokens == 1 .. (runtime_sequence - 1)

Operation ==
    \/ \E app \in Apps, version \in Versions : DoRelaunch(app, version)
    \/ \E app \in Apps, version \in Versions, victim \in TaskIds \cup {0} :
          DoLaunch(app, version, victim)
    \/ \E victim \in TaskIds : DoEvict(victim)
    \/ \E id \in TaskIds : DoActivate(id)
    \/ \E id \in TaskIds : DoFreeze(id)
    \/ \E id \in TaskIds, status \in CheckpointStatus : DoCheckpoint(id, status)
    \/ \E id \in TaskIds, generation \in Thumbnails : DoUpdateThumbnail(id, generation)
    \/ \E id \in TaskIds : DoClose(id)
    \/ \E token \in Tokens : UnitExits(token)
    \/ \E token \in Tokens : DoRuntimeExited(token)

Wraps ==
    \/ reg.next_task_id = U64Max /\ reg'.next_task_id # U64Max
    \/ reg.next_sequence = U64Max /\ reg'.next_sequence # U64Max

Next == Operation /\ wrapped' = (wrapped \/ Wraps)

Spec == Init /\ [][Next]_vars

-----------------------------------------------------------------------------
(* Type invariant: the registry is well formed, every token in use was     *)
(* handed out, and no counter leaves 1..u64::MAX, also where take_sequence *)
(* wraps.                                                                  *)
TypeOK ==
    /\ reg \in Registry
    /\ reg.next_task_id <= U64Max
    /\ reg.next_sequence <= U64Max
    /\ runtime_sequence \in Nat \ {0}
    /\ live \subseteq Tokens
    /\ wrapped \in BOOLEAN
    /\ \A i \in DOMAIN reg.tasks : reg.tasks[i].runtime < runtime_sequence

(* Launch, relaunch, eviction, checkpoint, exit and close, in any order    *)
(* and across a wrap of the counters, never exceed the capacity, never     *)
(* give an application two tasks, and bind a runtime to exactly the tasks  *)
(* in a resident state (tasks.rs, launch and invariants_hold).             *)
RegistrySound == WithinCapacity(reg) /\ UniqueApps(reg) /\ ResidentIffBound(reg)

(* While the counters have not wrapped, every state the operations reach   *)
(* is one restore() accepts: what appd could save at any moment, it could  *)
(* load again (tasks.rs, validate_snapshot).                               *)
SnapshotRestorable == wrapped \/ Restorable(reg)

(* A running process always has a task, also after a counter wrapped: an   *)
(* exit reported late or twice never unbinds the runtime of a restarted    *)
(* task, and no launch overwrites the binding of a live one (tasks.rs,     *)
(* runtime_exited and launch).                                             *)
NoOrphan ==
    \A token \in live : \E i \in DOMAIN reg.tasks : reg.tasks[i].runtime = token

=============================================================================
