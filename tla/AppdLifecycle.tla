--------------------------- MODULE AppdLifecycle ---------------------------
(***************************************************************************)
(* The lifecycle coordinator of appd (crates/cp0-appd/src/server.rs and    *)
(* lifecycle.rs): the thread that serves the control socket, the thread    *)
(* that serves the broker socket and one monitor thread per runtime, over  *)
(* three mutexes taken in the order lifecycle, runtime, state.             *)
(*                                                                         *)
(* Every step below is one critical section of the runtime mutex or of the *)
(* state mutex (set_foreground_app_control holds both).  A handler that    *)
(* releases a mutex half-way is several steps, and its thread's record     *)
(* says where it is and which values it carries over the gap.  systemctl   *)
(* is only called with the state mutex held, so the unit changes in the    *)
(* same step as the registry; a unit may also exit by itself at any time.  *)
(* No caller freezes a task yet, so the thaw branch of                     *)
(* start_or_activate_app is never taken and has no step.  What the stops   *)
(* do to prompts, grants and media sessions is in Prompts and MediaSession.*)
(***************************************************************************)
EXTENDS TaskOps

CONSTANTS
    NoVersion,      \* installed_version = None
    SpawnMayFail    \* whether thread::Builder::spawn can fail

ConstantsSound == NoVersion \notin Versions /\ SpawnMayFail \in BOOLEAN
ASSUME ConstantsAssumption == ConstantsSound

VARIABLES
    reg,                \* ServerState.tasks
    runtime_sequence,   \* the AtomicU64 that numbers runtimes
    sessions,           \* RuntimeState.sessions, without the monitors' own state
    foreground,         \* RuntimeState.foreground, 0 for None
    monitor,            \* token -> where its monitor thread is
    unit,               \* app -> the process in its systemd unit (token 0: inactive)
    installed,          \* app -> installed_version
    previous,           \* app -> the rollback version
    thread              \* the control and the broker thread

vars == <<reg, runtime_sequence, sessions, foreground, monitor, unit, installed, previous,
          thread>>

runtimeVars == <<sessions, foreground>>
packageVars == <<installed, previous>>

Threads == {"control", "broker"}
NoUnit == [token |-> 0, version |-> NoVersion]
Idle == [pc |-> "idle", app |-> "none", id |-> 0, token |-> 0, version |-> NoVersion,
         victim |-> "none"]

Init ==
    /\ reg = EmptyRegistry
    /\ runtime_sequence = 1
    /\ sessions = [k \in {} |-> 0]
    /\ foreground = 0
    /\ monitor = [k \in {} |-> 0]
    /\ unit = [a \in Apps |-> NoUnit]
    /\ installed \in [Apps -> Versions]
    /\ previous = [a \in Apps |-> NoVersion]
    /\ thread = [t \in Threads |-> Idle]

-----------------------------------------------------------------------------
(* The mutex and the helpers of the handlers.                              *)

\* The lifecycle mutex is free.
Unlocked == \A t \in Threads : thread[t].pc = "idle"

Goto(t, r) == thread' = [thread EXCEPT ![t] = r]
At(t, pc) == thread[t].pc = pc
Return(t) == Goto(t, Idle)

Running(app) == unit[app].token # 0
HasTask(app) == ByApp(reg.tasks, app) # {}

SessionsOf(app) == {k \in DOMAIN sessions : sessions[k].app = app}
Without(f, k) == [j \in DOMAIN f \ {k} |-> f[j]]
With(f, k, v) == [j \in DOMAIN f \cup {k} |-> IF j = k THEN v ELSE f[j]]

TakeRuntimeEnd(k) ==
    /\ sessions' = Without(sessions, k)
    /\ foreground' = IF foreground = k THEN 0 ELSE foreground

\* mark_explicit_stop: the token it returns is the one a stop carries on
Marked(app) == IF SessionsOf(app) = {} THEN 0 ELSE CHOOSE k \in SessionsOf(app) : TRUE
Mark(app) ==
    sessions' = [k \in DOMAIN sessions |->
                    IF k = Marked(app) THEN [sessions[k] EXCEPT !.explicit_stop = TRUE]
                    ELSE sessions[k]]

StopUnit(app) == unit' = [unit EXCEPT ![app] = NoUnit]

-----------------------------------------------------------------------------
(* start_or_activate_app, from Start, ActivateTask or a delivered intent.  *)

StartApp(t, app) ==
    /\ Unlocked /\ At(t, "idle")
    /\ Goto(t, [Idle EXCEPT !.pc = "plan", !.app = app])
    /\ UNCHANGED <<reg, runtime_sequence, runtimeVars, monitor, unit, packageVars>>

ActivateTask(id) ==
    /\ Unlocked /\ At("control", "idle")
    /\ \E i \in ById(reg.tasks, id) :
          Goto("control", [Idle EXCEPT !.pc = "plan", !.app = reg.tasks[i].app_id])
    /\ UNCHANGED <<reg, runtime_sequence, runtimeVars, monitor, unit, packageVars>>

\* The first critical section: policy, installed version, existing task and
\* the victim of a full registry.  A rejection ends the operation.
Plan(t) ==
    LET r == thread[t]
        I == ByApp(reg.tasks, r.app)
        oldest == reg.tasks[1]
        full == I = {} /\ Len(reg.tasks) = Capacity
    IN  /\ At(t, "plan")
        /\ \/ Return(t)
           \/ /\ installed[r.app] # NoVersion
              /\ Goto(t,
                    IF \E i \in I : reg.tasks[i].state \in Resident
                    THEN [r EXCEPT !.pc = "activate", !.id = reg.tasks[TheIndex(I)].task_id,
                                   !.token = reg.tasks[TheIndex(I)].runtime]
                    ELSE [r EXCEPT !.version = installed[r.app],
                                   !.id = IF full THEN oldest.task_id ELSE 0,
                                   !.victim = IF full THEN oldest.app_id ELSE "none",
                                   !.pc = IF ~full THEN "launch"
                                          ELSE IF oldest.state \in Resident THEN "evict_mark"
                                          ELSE "evict"])
        /\ UNCHANGED <<reg, runtime_sequence, runtimeVars, monitor, unit, packageVars>>

\* A task that crashed since the plan is not activated.
ActivateExisting(t) ==
    LET r == thread[t]
    IN  /\ At(t, "activate")
        /\ IF CanActivate(reg, r.id)
           THEN reg' = Activate(reg, r.id) /\ Goto(t, [r EXCEPT !.pc = "set_foreground"])
           ELSE UNCHANGED reg /\ Return(t)
        /\ UNCHANGED <<runtime_sequence, runtimeVars, monitor, unit, packageVars>>

SetForegroundRuntime(t) ==
    LET r == thread[t]
    IN  /\ At(t, "set_foreground")
        /\ foreground' = IF r.token \in DOMAIN sessions THEN r.token ELSE foreground
        /\ Return(t)
        /\ UNCHANGED <<reg, runtime_sequence, sessions, monitor, unit, packageVars>>

EvictMark(t) ==
    LET r == thread[t]
    IN  /\ At(t, "evict_mark")
        /\ Mark(r.victim)
        /\ Goto(t, [r EXCEPT !.pc = "evict_stop", !.token = Marked(r.victim)])
        /\ UNCHANGED <<reg, runtime_sequence, foreground, monitor, unit, packageVars>>

\* manager.stop: NotRunning, UnitFailed or success
EvictStop(t) ==
    LET r == thread[t]
    IN  /\ At(t, "evict_stop")
        /\ \/ UNCHANGED unit /\ Goto(t, [r EXCEPT !.pc = "cancel"])
           \/ Running(r.victim) /\ StopUnit(r.victim) /\ Goto(t, [r EXCEPT !.pc = "evict_finish"])
        /\ UNCHANGED <<reg, runtime_sequence, runtimeVars, monitor, packageVars>>

EvictFinish(t) ==
    LET r == thread[t]
    IN  /\ At(t, "evict_finish")
        /\ TakeRuntimeEnd(r.token)
        /\ Goto(t, [r EXCEPT !.pc = "evict"])
        /\ UNCHANGED <<reg, runtime_sequence, monitor, unit, packageVars>>

Evict(t) ==
    LET r == thread[t]
    IN  /\ At(t, "evict")
        /\ IF CanEvict(reg, r.id)
           THEN /\ reg' = EvictCapacityVictim(reg, r.id)
                /\ Goto(t, [r EXCEPT !.pc = "launch"])
           ELSE UNCHANGED reg /\ Return(t)
        /\ UNCHANGED <<runtime_sequence, runtimeVars, monitor, unit, packageVars>>

\* runtime_sequence.fetch_add
FetchAdd == runtime_sequence + 1

\* manager.start: a package, and a unit that is not active
CanStartUnit(app) == installed[app] # NoVersion /\ ~Running(app)

\* manager.start may always fail; a registry that refuses the launch stops
\* the unit again.
Launch(t) ==
    LET r == thread[t]
        token == runtime_sequence
    IN  /\ At(t, "launch")
        /\ runtime_sequence' = FetchAdd
        /\ \/ UNCHANGED <<reg, unit>> /\ Return(t)
           \/ /\ CanStartUnit(r.app)
              /\ CanRelaunch(reg, r.app) \/ CanLaunchNew(reg, r.app, 0)
              /\ unit' = [unit EXCEPT ![r.app] = [token |-> token, version |-> installed[r.app]]]
              /\ reg' = IF CanRelaunch(reg, r.app) THEN Relaunch(reg, r.app, r.version, token)
                        ELSE LaunchNew(reg, r.app, r.version, token, 0)
              /\ Goto(t, [r EXCEPT !.pc = "monitor", !.token = token])
        /\ UNCHANGED <<runtimeVars, monitor, packageVars>>

\* start_runtime_monitor; when the thread cannot be spawned the session is
\* taken back at once.
StartRuntimeMonitor(t) ==
    LET r == thread[t]
    IN  /\ At(t, "monitor")
        /\ \/ /\ sessions' = With(sessions, r.token, [app |-> r.app, explicit_stop |-> FALSE])
              /\ foreground' = r.token
              /\ monitor' = With(monitor, r.token, [app |-> r.app, pc |-> "wait", crashed |-> FALSE])
           \/ SpawnMayFail /\ foreground' = 0 /\ UNCHANGED <<sessions, monitor>>
        /\ Return(t)
        /\ UNCHANGED <<reg, runtime_sequence, unit, packageVars>>

\* cancel_explicit_stop, on the error path of an eviction, a stop or a close
CancelExplicitStop(t) ==
    LET r == thread[t]
    IN  /\ At(t, "cancel")
        /\ sessions' = [k \in DOMAIN sessions |->
                           IF k = r.token THEN [sessions[k] EXCEPT !.explicit_stop = FALSE]
                           ELSE sessions[k]]
        /\ Return(t)
        /\ UNCHANGED <<reg, runtime_sequence, foreground, monitor, unit, packageVars>>

-----------------------------------------------------------------------------
(* Stop and CloseTask.                                                     *)

StopApp(app) ==
    /\ Unlocked /\ At("control", "idle")
    /\ Mark(app)
    /\ Goto("control", [Idle EXCEPT !.pc = "stop", !.app = app, !.token = Marked(app)])
    /\ UNCHANGED <<reg, runtime_sequence, foreground, monitor, unit, packageVars>>

\* The state critical section of stop_app_control: a running unit is stopped,
\* an inactive one needs a task to close.
StopSection ==
    LET r == thread["control"]
        I == ByApp(reg.tasks, r.app)
    IN  /\ At("control", "stop")
        /\ \/ /\ Running(r.app) \/ I = {}
              /\ UNCHANGED <<reg, unit>>
              /\ Goto("control", [r EXCEPT !.pc = "cancel"])
           \/ /\ Running(r.app) \/ I # {}
              /\ StopUnit(r.app)
              /\ reg' = IF I = {} THEN reg ELSE Close(reg, reg.tasks[TheIndex(I)].task_id)
              /\ Goto("control", [r EXCEPT !.pc = "finish"])
        /\ UNCHANGED <<runtime_sequence, runtimeVars, monitor, packageVars>>

\* close_task_control works on a clone of the task taken in a first section.
CloseTask(id) ==
    /\ Unlocked /\ At("control", "idle")
    /\ \E i \in ById(reg.tasks, id) :
          Goto("control", [Idle EXCEPT !.pc = IF reg.tasks[i].runtime # 0 THEN "close_mark" ELSE "close",
                                       !.app = reg.tasks[i].app_id, !.id = id,
                                       !.token = reg.tasks[i].runtime])
    /\ UNCHANGED <<reg, runtime_sequence, runtimeVars, monitor, unit, packageVars>>

CloseMark ==
    /\ At("control", "close_mark")
    /\ Mark(thread["control"].app)
    /\ Goto("control", [thread["control"] EXCEPT !.pc = "close"])
    /\ UNCHANGED <<reg, runtime_sequence, foreground, monitor, unit, packageVars>>

CloseSection ==
    LET r == thread["control"]
    IN  /\ At("control", "close")
        /\ \/ /\ r.token # 0 \/ ~CanClose(reg, r.id)
              /\ UNCHANGED <<reg, unit>>
              /\ Goto("control", [r EXCEPT !.pc = "cancel"])
           \/ /\ r.token # 0 => Running(r.app)
              /\ CanClose(reg, r.id)
              /\ IF r.token # 0 THEN StopUnit(r.app) ELSE UNCHANGED unit
              /\ reg' = Close(reg, r.id)
              /\ Goto("control", [r EXCEPT !.pc = "finish"])
        /\ UNCHANGED <<runtime_sequence, runtimeVars, monitor, packageVars>>

FinishExplicitStop ==
    /\ At("control", "finish")
    /\ TakeRuntimeEnd(thread["control"].token)
    /\ Return("control")
    /\ UNCHANGED <<reg, runtime_sequence, monitor, unit, packageVars>>

\* set_foreground_app_control, under all three mutexes
SetForegroundApp(app) ==
    /\ Unlocked /\ At("control", "idle")
    /\ \E i \in ByApp(reg.tasks, app) :
          LET task == reg.tasks[i]
          IN  /\ task.runtime \in DOMAIN sessions
              /\ sessions[task.runtime].app = app
              /\ IF task.state = "foreground" THEN UNCHANGED reg
                 ELSE CanActivate(reg, task.task_id) /\ reg' = Activate(reg, task.task_id)
              /\ foreground' = task.runtime
    /\ UNCHANGED <<runtime_sequence, sessions, monitor, unit, packageVars, thread>>

ClearForegroundApp ==
    /\ Unlocked /\ At("control", "idle")
    /\ foreground' = 0
    /\ UNCHANGED <<reg, runtime_sequence, sessions, monitor, unit, packageVars, thread>>

-----------------------------------------------------------------------------
(* Package changes: the state mutex only.                                  *)

\* Fault: only a running unit blocks a package change, not a task
Fault_PackageFree(app) == ~Running(app)

\* task_blocks_package_change and is_running
PackageFree(app) == ~HasTask(app) /\ ~Running(app)

\* commit_prepared_install; an exact replay changes nothing here
Install(app, v) ==
    /\ At("control", "idle")
    /\ installed[app] # v
    /\ installed[app] # NoVersion => PackageFree(app)
    /\ installed' = [installed EXCEPT ![app] = v]
    /\ previous' = [previous EXCEPT ![app] = installed[app]]
    /\ UNCHANGED <<reg, runtime_sequence, runtimeVars, monitor, unit, thread>>

Rollback(app) ==
    /\ At("control", "idle")
    /\ installed[app] # NoVersion /\ previous[app] # NoVersion
    /\ PackageFree(app)
    /\ installed' = [installed EXCEPT ![app] = previous[app]]
    /\ previous' = [previous EXCEPT ![app] = installed[app]]
    /\ UNCHANGED <<reg, runtime_sequence, runtimeVars, monitor, unit, thread>>

Uninstall(app) ==
    /\ At("control", "idle")
    /\ installed[app] # NoVersion
    /\ PackageFree(app)
    /\ installed' = [installed EXCEPT ![app] = NoVersion]
    /\ previous' = [previous EXCEPT ![app] = NoVersion]
    /\ UNCHANGED <<reg, runtime_sequence, runtimeVars, monitor, unit, thread>>

-----------------------------------------------------------------------------
(* Units and monitors.                                                     *)

UnitExits(app) ==
    /\ Running(app)
    /\ StopUnit(app)
    /\ UNCHANGED <<reg, runtime_sequence, runtimeVars, monitor, packageVars, thread>>

\* Fault: a failed wait ends the monitor
Fault_MonitorWait(k) ==
    /\ monitor[k].pc = "wait" /\ monitor' = Without(monitor, k)
    /\ UNCHANGED <<reg, runtime_sequence, runtimeVars, unit, packageVars, thread>>

\* monitor_runtime: wait_for_unit_stopped returns, or the session is gone
MonitorWait(k) ==
    /\ monitor[k].pc = "wait"
    /\ \/ ~Running(monitor[k].app) /\ monitor' = [monitor EXCEPT ![k].pc = "take"]
       \/ k \notin DOMAIN sessions /\ monitor' = Without(monitor, k)
    /\ UNCHANGED <<reg, runtime_sequence, runtimeVars, unit, packageVars, thread>>

\* Fault: the session is looked at and not taken
Fault_MonitorTake(k) ==
    /\ monitor[k].pc = "take"
    /\ monitor' = IF k \in DOMAIN sessions
                  THEN [monitor EXCEPT ![k].pc = "clean", ![k].crashed = ~sessions[k].explicit_stop]
                  ELSE Without(monitor, k)
    /\ UNCHANGED <<reg, runtime_sequence, runtimeVars, unit, packageVars, thread>>

MonitorTake(k) ==
    /\ monitor[k].pc = "take"
    /\ IF k \in DOMAIN sessions
       THEN /\ TakeRuntimeEnd(k)
            /\ monitor' = [monitor EXCEPT ![k].pc = "clean",
                                          ![k].crashed = ~sessions[k].explicit_stop]
       ELSE monitor' = Without(monitor, k) /\ UNCHANGED runtimeVars
    /\ UNCHANGED <<reg, runtime_sequence, unit, packageVars, thread>>

CrashedTask(k) == RuntimeExited(reg, k)

MonitorClean(k) ==
    /\ monitor[k].pc = "clean"
    /\ reg' = IF monitor[k].crashed THEN CrashedTask(k) ELSE reg
    /\ monitor' = Without(monitor, k)
    /\ UNCHANGED <<runtime_sequence, runtimeVars, unit, packageVars, thread>>

-----------------------------------------------------------------------------
StepOf(t) ==
    \/ Plan(t) \/ ActivateExisting(t) \/ SetForegroundRuntime(t)
    \/ EvictMark(t) \/ EvictStop(t) \/ EvictFinish(t) \/ Evict(t)
    \/ Launch(t) \/ StartRuntimeMonitor(t) \/ CancelExplicitStop(t)

ControlStep == StopSection \/ CloseMark \/ CloseSection \/ FinishExplicitStop

MonitorStep(k) == MonitorWait(k) \/ MonitorTake(k) \/ MonitorClean(k)

TaskIds == {reg.tasks[i].task_id : i \in DOMAIN reg.tasks}

Next ==
    \/ \E t \in Threads : StepOf(t) \/ \E app \in Apps : StartApp(t, app)
    \/ \E id \in TaskIds : ActivateTask(id) \/ CloseTask(id)
    \/ \E app \in Apps : StopApp(app) \/ SetForegroundApp(app) \/ Rollback(app) \/ Uninstall(app)
    \/ \E app \in Apps, v \in Versions : Install(app, v)
    \/ ClearForegroundApp
    \/ ControlStep
    \/ \E app \in Apps : UnitExits(app)
    \/ \E k \in DOMAIN monitor : MonitorStep(k)

Spec == Init /\ [][Next]_vars

-----------------------------------------------------------------------------
(* Properties.                                                             *)

\* Types of the state the threads share; every token in use has been handed
\* out by runtime_sequence.fetch_add.
TypeOK ==
    /\ reg \in Registry
    /\ runtime_sequence \in Nat \ {0}
    /\ DOMAIN sessions \cup DOMAIN monitor \subseteq 1 .. runtime_sequence - 1
    /\ \A k \in DOMAIN sessions : sessions[k] \in [app : Apps, explicit_stop : BOOLEAN]
    /\ foreground \in 0 .. runtime_sequence - 1
    /\ \A k \in DOMAIN monitor :
          monitor[k] \in [app : Apps, pc : {"wait", "take", "clean"}, crashed : BOOLEAN]
    /\ unit \in [Apps -> [token : Nat, version : Versions \cup {NoVersion}]]
    /\ installed \in [Apps -> Versions \cup {NoVersion}]
    /\ previous \in [Apps -> Versions \cup {NoVersion}]

\* Every active unit is the runtime of a task: start_or_activate_app, stop,
\* close and eviction never leave a process that no task card can close, and
\* the monitor of an old runtime never marks a restarted task crashed.
RunningHasTask ==
    \A a \in Apps : Running(a) =>
        \E i \in DOMAIN reg.tasks : reg.tasks[i].app_id = a /\ reg.tasks[i].runtime = unit[a].token

\* mark_explicit_stop takes the first session of an app: there is only one,
\* so the mark never lands on another runtime than the one being stopped.
OneSessionPerApp ==
    \A j, k \in DOMAIN sessions : sessions[j].app = sessions[k].app => j = k

\* An active unit runs the installed version and a task always has a package:
\* install, rollback and uninstall, which do not take the lifecycle mutex,
\* cannot change a package under a launch that is under way.
PackageStableWhileRunning ==
    /\ \A a \in Apps : Running(a) => unit[a].version = installed[a]
    /\ \A i \in DOMAIN reg.tasks : installed[reg.tasks[i].app_id] # NoVersion

\* A stop that fails takes its mark back: outside a stop no live session is
\* marked, so a later exit of that runtime still counts as a crash.
MarkOnlyWhileStopping ==
    Unlocked => \A k \in DOMAIN sessions : ~sessions[k].explicit_stop

\* The foreground runtime is one with a session: take_runtime_end never
\* leaves a foreground token of a runtime that has ended.
ForegroundHasSession == foreground # 0 => foreground \in DOMAIN sessions

\* Units, tasks and sessions agree: every active unit is the runtime of a task,
\* and the table of sessions has one per app, marked as stopping only while a
\* stop is under way, and names the foreground (mark_explicit_stop,
\* take_runtime_end, finish_explicit_stop).
SessionsSound ==
    TypeOK /\ RunningHasTask /\ OneSessionPerApp /\ MarkOnlyWhileStopping /\ ForegroundHasSession

\* An unexpected exit of a unit ends as a crashed task: a resident task whose
\* unit is gone still has its session, or a monitor about to mark it, or an
\* operation under way.
ExitMarksCrashed ==
    \A i \in DOMAIN reg.tasks :
        LET k == reg.tasks[i].runtime
        IN  k # 0 /\ unit[reg.tasks[i].app_id].token # k /\ Unlocked
              => \/ k \in DOMAIN sessions
                 \/ k \in DOMAIN monitor /\ monitor[k].pc = "clean" /\ monitor[k].crashed
====
