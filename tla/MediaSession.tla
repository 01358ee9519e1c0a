---------------------------- MODULE MediaSession ----------------------------
(***************************************************************************)
(* The media session of appd (media_session.rs): the media keys of the     *)
(* Shell go to the one session that the foreground app registered.         *)
(*                                                                         *)
(* Three threads meet here.  The control thread starts, focuses and stops  *)
(* apps and dispatches the keys; the one broker thread authenticates a     *)
(* process and then, in a second step, acts for the app it belongs to; a   *)
(* monitor cleans up after a process that exits.  A process is named by    *)
(* the token of its runtime.                                               *)
(***************************************************************************)
EXTENDS Integers, Sequences

CONSTANTS
    Apps,
    Actions,        \* MediaAction
    MaxPending,     \* MAX_PENDING_MEDIA_ACTIONS
    None

VARIABLES
    task,           \* the token of the app's resident task, 0 without one
    process,        \* the token of the app's process, 0 without one
    sessions,       \* RuntimeState.sessions: app per token
    foreground,     \* RuntimeState.foreground, 0 for None
    next_token,     \* runtime_sequence
    session,        \* MediaSessionBroker.session
    control,        \* what the control thread still has to do
    broker,         \* the caller the broker thread has authenticated
    ended,          \* <<app, token>> whose monitor took the session but has not cleaned up
    taken           \* history: the last action taken, with who took it

runtimeVars == <<task, process, sessions, foreground, next_token>>
vars == <<runtimeVars, session, control, broker, ended, taken>>

Init ==
    /\ task = [a \in Apps |-> 0]
    /\ process = task
    /\ sessions = <<>>
    /\ foreground = 0
    /\ next_token = 1
    /\ session = None
    /\ control = None
    /\ broker = None
    /\ ended = {}
    /\ taken = None

Drop(token) == [t \in DOMAIN sessions \ {token} |-> sessions[t]]

-----------------------------------------------------------------------------
(* MediaSessionBroker                                                      *)

ClearApp(a) == IF session # None /\ session.app = a THEN None ELSE session

Bound(a, token) == session # None /\ session.app = a /\ session.token = token

Register(a, token, mask) == [app |-> a, token |-> token, mask |-> mask, actions |-> <<>>]

\* update; the empty mask is the Inactive state
Update(a, token, mask) ==
    IF mask = {} THEN ClearApp(a)
    ELSE IF Bound(a, token)
         THEN [session EXCEPT !.mask = mask,
                              !.actions = SelectSeq(@, LAMBDA m : m.action \in mask)]
         ELSE Register(a, token, mask)

-----------------------------------------------------------------------------
(* The control thread                                                      *)

\* The launching section of start_or_activate_app, with media_sessions.clear()
Launch(a) ==
    /\ control = None
    /\ task[a] = 0
    /\ process[a] = 0
    /\ task' = [task EXCEPT ![a] = next_token]
    /\ process' = [process EXCEPT ![a] = next_token]
    /\ next_token' = next_token + 1
    /\ session' = None
    /\ control' = [pc |-> "monitor", app |-> a, token |-> next_token]
    /\ UNCHANGED <<sessions, foreground, broker, ended, taken>>

\* start_runtime_monitor registers the runtime and gives it the foreground.
StartRuntimeMonitor ==
    /\ control # None
    /\ control.pc = "monitor"
    /\ sessions' = [t \in DOMAIN sessions \cup {control.token} |->
                        IF t = control.token THEN control.app ELSE sessions[t]]
    /\ foreground' = control.token
    /\ control' = None
    /\ UNCHANGED <<task, process, next_token, session, broker, ended, taken>>

\* set_foreground_app_control, also for no app (the token 0)
SetForeground(token) ==
    /\ control = None
    /\ token \in DOMAIN sessions \cup {0}
    /\ foreground # token
    /\ foreground' = token
    /\ UNCHANGED <<task, process, sessions, next_token, session, control, broker, ended, taken>>

\* stop_app_control, close_task_control: the section under the state mutex ...
Stop(a) ==
    /\ control = None
    /\ task[a] # 0
    /\ task' = [task EXCEPT ![a] = 0]
    /\ process' = [process EXCEPT ![a] = 0]
    /\ session' = ClearApp(a)
    /\ control' = [pc |-> "finish", app |-> a, token |-> task[a]]
    /\ UNCHANGED <<sessions, foreground, next_token, broker, ended, taken>>

\* ... and finish_explicit_stop
FinishStop ==
    /\ control # None
    /\ control.pc = "finish"
    /\ sessions' = Drop(control.token)
    /\ foreground' = IF foreground = control.token THEN 0 ELSE foreground
    /\ control' = None
    /\ UNCHANGED <<task, process, next_token, session, broker, ended, taken>>

\* Fault: the key goes to whichever app has a session
Fault_Dispatch(m) ==
    /\ control = None
    /\ foreground # 0
    /\ session # None
    /\ m \in session.mask
    /\ Len(session.actions) < MaxPending
    /\ session' = [session EXCEPT !.actions = Append(@, [action |-> m, token |-> foreground])]
    /\ UNCHANGED <<runtimeVars, control, broker, ended, taken>>

\* dispatch_media_action, both mutexes held
Dispatch(m) ==
    /\ control = None
    /\ foreground # 0
    /\ Bound(sessions[foreground], foreground)
    /\ m \in session.mask
    /\ Len(session.actions) < MaxPending
    /\ session' = [session EXCEPT !.actions = Append(@, [action |-> m, token |-> foreground])]
    /\ UNCHANGED <<runtimeVars, control, broker, ended, taken>>

-----------------------------------------------------------------------------
(* The broker thread: with_current_media_caller                            *)

Authenticate(a) ==
    /\ broker = None
    /\ process[a] # 0
    /\ broker' = [app |-> a, process |-> process[a]]
    /\ UNCHANGED <<runtimeVars, session, control, ended, taken>>

\* Only the app is compared with the foreground runtime, so that the caller
\* may be an earlier process of the app.
IsForegroundApp == broker # None /\ foreground # 0 /\ sessions[foreground] = broker.app

UpdateMediaSession(mask) ==
    /\ IsForegroundApp
    /\ session' = Update(broker.app, foreground, mask)
    /\ broker' = None
    /\ UNCHANGED <<runtimeVars, control, ended, taken>>

TakeMediaAction ==
    /\ IsForegroundApp
    /\ Bound(broker.app, foreground)
    /\ session.actions # <<>>
    /\ taken' = [action |-> Head(session.actions), process |-> broker.process]
    /\ session' = [session EXCEPT !.actions = Tail(@)]
    /\ broker' = None
    /\ UNCHANGED <<runtimeVars, control, ended>>

\* The caller is not in the foreground, or there is no action to take.
Refuse ==
    /\ broker # None
    /\ ~(IsForegroundApp /\ Bound(broker.app, foreground) /\ session.actions # <<>>)
    /\ broker' = None
    /\ UNCHANGED <<runtimeVars, session, control, ended, taken>>

-----------------------------------------------------------------------------
(* A process exits by itself                                               *)

Exit(a) ==
    /\ process[a] # 0
    /\ process' = [process EXCEPT ![a] = 0]
    /\ UNCHANGED <<task, sessions, foreground, next_token, session, control, broker, ended, taken>>

\* monitor_runtime: take_runtime_end ...
MonitorTake(token) ==
    /\ token \in DOMAIN sessions
    /\ process[sessions[token]] # token
    /\ ended' = ended \cup {<<sessions[token], token>>}
    /\ sessions' = Drop(token)
    /\ foreground' = IF foreground = token THEN 0 ELSE foreground
    /\ UNCHANGED <<task, process, next_token, session, control, broker, taken>>

\* ... and, later, runtime_exited for its token and the clean-up by application
MonitorClean(e) ==
    /\ task' = IF task[e[1]] = e[2] THEN [task EXCEPT ![e[1]] = 0] ELSE task
    /\ session' = ClearApp(e[1])
    /\ ended' = ended \ {e}
    /\ UNCHANGED <<process, sessions, foreground, next_token, control, broker, taken>>

Next ==
    \/ \E a \in Apps : Launch(a) \/ Stop(a) \/ Authenticate(a) \/ Exit(a)
    \/ \E e \in ended : MonitorClean(e)
    \/ StartRuntimeMonitor
    \/ FinishStop
    \/ \E token \in DOMAIN sessions \cup {0} : SetForeground(token)
    \/ \E token \in DOMAIN sessions : MonitorTake(token)
    \/ \E m \in Actions : Dispatch(m)
    \/ \E mask \in SUBSET Actions : UpdateMediaSession(mask)
    \/ TakeMediaAction
    \/ Refuse

Spec == Init /\ [][Next]_vars

-----------------------------------------------------------------------------
(* Properties                                                              *)

\* Every variable has its type.
TypeOK ==
    /\ task \in [Apps -> 0 .. next_token - 1] /\ process \in [Apps -> 0 .. next_token - 1]
    /\ \A t \in DOMAIN sessions : t \in 1 .. next_token - 1 /\ sessions[t] \in Apps
    /\ foreground \in DOMAIN sessions \cup {0}
    /\ session # None =>
          /\ session.app \in Apps
          /\ session.token \in 1 .. next_token - 1
          /\ session.mask \in (SUBSET Actions) \ {{}}
          /\ Len(session.actions) <= MaxPending
    /\ ended \subseteq Apps \X (1 .. next_token - 1)

\* A key reaches only the process that had the foreground when the key was
\* pressed: "a stale application cannot receive an action intended for a new
\* foreground process" (docs/MEDIA-SESSION-BROKER.md:50), although the broker
\* thread compares nothing but the application.
TakenByItsRuntime == taken # None => taken.process = taken.action.token

====
