------------------------ MODULE AppdLifecycleProofs ------------------------
(***************************************************************************)
(* The handlers of appd, for any number of applications, launches and      *)
(* package changes: their types, what passes from one critical section to  *)
(* the next, what the operations of the registry mean for the invariant    *)
(* SInv, and that every step keeps it.  Packages stay as long as they run, *)
(* and units, tasks and runtime sessions agree for any number of launches  *)
(* before one of the registry's counters wraps.                            *)
(***************************************************************************)
EXTENDS AppdLifecycle, TaskOpsProofs

-----------------------------------------------------------------------------
(* Types, of what the threads share and of what they carry along.          *)

Evicting == {"evict_mark", "evict_stop", "evict_finish", "evict"}

ThreadRecord ==
    [pc : {"idle", "plan", "activate", "set_foreground", "launch", "monitor", "cancel", "stop",
           "close_mark", "close", "finish"} \cup Evicting,
     app : Apps \cup {"none"}, id : Nat, token : Nat, version : Versions \cup {NoVersion},
     victim : Apps \cup {"none"}]

CarriedTypes(r) ==
    /\ r \in ThreadRecord
    /\ r.pc # "idle" => r.app \in Apps
    /\ r.pc \in Evicting => r.victim \in Apps
    /\ r.pc \in Evicting \cup {"launch"} => r.version \in Versions
    /\ r.pc = "monitor" => r.token # 0

WellFormed(r, n) == r \in Registry /\ CountersInRange(r) /\ TokensBelow(r, n)

HandlersTyped ==
    /\ thread \in [Threads -> ThreadRecord]
    /\ \A t \in Threads : CarriedTypes(thread[t]) /\ thread[t].token < runtime_sequence

Typed == TypeOK /\ WellFormed(reg, runtime_sequence) /\ HandlersTyped

(* The package of an active unit or of a task cannot change: install,      *)
(* rollback and uninstall find it blocked.                                 *)
Stable ==
    /\ \A a \in Apps : Running(a) => unit[a].version = installed[a] /\ installed[a] # NoVersion
    /\ \A i \in DOMAIN reg.tasks : installed[reg.tasks[i].app_id] # NoVersion

-----------------------------------------------------------------------------
(* What the operations on the registry leave of it.                        *)

TaskApps(r) == {r.tasks[i].app_id : i \in DOMAIN r.tasks}

LEMMA ActivateKeeps ==
    ASSUME NEW r, NEW n \in Nat \ {0}, WellFormed(r, n), NEW id, CanActivate(r, id)
    PROVE  WellFormed(Activate(r, id), n) /\ TaskApps(Activate(r, id)) = TaskApps(r)
<1>1. r \in Registry /\ r.next_sequence <= U64Max /\ r.next_task_id <= U64Max /\ TokensBelow(r, n)
  BY DEF WellFormed, CountersInRange
<1> DEFINE s == Activate(r, id)
<1>2. PICK k \in 1 .. Len(r.tasks) : Promotes(r, s, k, r.tasks[k].runtime)
  BY <1>1, ActivatePromotes
<1> HIDE DEF s
<1>3. r.tasks[k].runtime < n
  BY <1>1 DEF TokensBelow
<1>4. TokensBelow(s, n)
  BY <1>1, <1>2, <1>3, TokensBelowPreserved
<1>5. s \in Registry /\ s.next_task_id = r.next_task_id /\ s.next_sequence = NextU64(r.next_sequence)
  BY <1>2 DEF Promotes
<1>6. CountersInRange(s)
  BY <1>1, <1>5, NextU64Type, RegistryParts DEF CountersInRange
<1>7. Len(s.tasks) = Len(r.tasks) /\ \A i \in 1 .. Len(r.tasks) : s.tasks[i].app_id = r.tasks[i].app_id
  BY <1>2 DEF Promotes, SameButState
<1>8. TaskApps(s) = TaskApps(r)
  BY ZenonT(40), <1>1, <1>5, <1>7, RegistryParts DEF TaskApps
<1> QED BY <1>4, <1>5, <1>6, <1>8 DEF WellFormed, s

LEMMA ExitKeeps ==
    ASSUME NEW r, NEW n \in Nat \ {0}, WellFormed(r, n), NEW token
    PROVE  WellFormed(RuntimeExited(r, token), n) /\ TaskApps(RuntimeExited(r, token)) = TaskApps(r)
<1>1. r \in Registry /\ TokensBelow(r, n) /\ CountersInRange(r)
  BY DEF WellFormed
<1> DEFINE s == RuntimeExited(r, token)
<1>2. Demotes(r, s)
  BY <1>1, RuntimeExitedDemotes
<1> HIDE DEF s
<1>3. TokensBelow(s, n)
  BY <1>1, <1>2, TokensBelowPreserved
<1>4. /\ s \in Registry /\ CountersInRange(s)
      /\ Len(s.tasks) = Len(r.tasks) /\ \A i \in 1 .. Len(r.tasks) : s.tasks[i].app_id = r.tasks[i].app_id
  BY <1>1, <1>2 DEF Demotes, SameHistory, CountersInRange
<1>5. TaskApps(s) = TaskApps(r)
  BY Zenon, <1>1, <1>4, RegistryParts DEF TaskApps
<1> QED BY <1>3, <1>4, <1>5 DEF WellFormed, s

LEMMA RemovalKeeps ==
    ASSUME NEW r, NEW n \in Nat \ {0}, WellFormed(r, n), NEW s, NEW k, Removes(r, s, k)
    PROVE  WellFormed(s, n) /\ TaskApps(s) \subseteq TaskApps(r)
<1>1. r \in Registry /\ TokensBelow(r, n) /\ CountersInRange(r)
  BY DEF WellFormed
<1>2. TokensBelow(s, n)
  BY <1>1, TokensBelowPreserved
<1>3. s \in Registry /\ CountersInRange(s)
  BY <1>1 DEF Removes, CountersInRange
<1>4. TaskApps(s) \subseteq TaskApps(r)
  <2>1. PICK f \in [1 .. (Len(r.tasks) - 1) -> 1 .. Len(r.tasks)] :
            \A j \in 1 .. (Len(r.tasks) - 1) : s.tasks[j] = r.tasks[f[j]]
    BY <1>1, RemovesIndex
  <2>2. DOMAIN r.tasks = 1 .. Len(r.tasks) /\ DOMAIN s.tasks = 1 .. (Len(r.tasks) - 1)
    BY <1>1, RemovesIndex
  <2> QED BY <2>1, <2>2 DEF TaskApps
<1> QED BY <1>2, <1>3, <1>4 DEF WellFormed

(* start_or_activate_app evicts before it launches: the launch itself never  *)
(* gives up a task.                                                          *)
LEMMA LaunchNewWithRoom ==
    ASSUME NEW r \in Registry, CountersInRange(r), NEW app \in Apps, NEW version \in Versions,
           NEW token \in Nat, CanLaunchNew(r, app, 0)
    PROVE  /\ Len(r.tasks) # Capacity
           /\ Adds(r, LaunchNew(r, app, version, token, 0), app, token)
<1>1. Len(r.tasks) = Capacity => r.tasks[1] \in TaskRecord
  BY RegistryParts, CapacityAssumption
<1>2. Len(r.tasks) # Capacity
  BY <1>1 DEF CanLaunchNew, CanEvict, TaskRecord
<1> QED BY <1>2, LaunchNewAdds DEF CountersInRange

LEMMA LaunchKeeps ==
    ASSUME NEW r, NEW n \in Nat \ {0}, WellFormed(r, n), NEW app \in Apps, NEW version \in Versions
    PROVE  /\ CanRelaunch(r, app) =>
                 /\ WellFormed(Relaunch(r, app, version, n), n + 1)
                 /\ TaskApps(Relaunch(r, app, version, n)) \subseteq TaskApps(r) \cup {app}
           /\ CanLaunchNew(r, app, 0) =>
                 /\ WellFormed(LaunchNew(r, app, version, n, 0), n + 1)
                 /\ TaskApps(LaunchNew(r, app, version, n, 0)) \subseteq TaskApps(r) \cup {app}
<1>1. r \in Registry /\ r.next_sequence <= U64Max /\ r.next_task_id <= U64Max /\ TokensBelow(r, n)
  BY DEF WellFormed, CountersInRange
<1>2. ASSUME CanRelaunch(r, app)
      PROVE  /\ WellFormed(Relaunch(r, app, version, n), n + 1)
             /\ TaskApps(Relaunch(r, app, version, n)) \subseteq TaskApps(r) \cup {app}
  <2> DEFINE s == Relaunch(r, app, version, n)
  <2>1. PICK k \in 1 .. Len(r.tasks) : Promotes(r, s, k, n)
    BY <1>1, <1>2, RelaunchPromotes
  <2> HIDE DEF s
  <2>2. TokensBelow(s, n + 1)
    <3>1. n <= n /\ n \in Nat
      OBVIOUS
    <3> QED BY Zenon, <1>1, <2>1, <3>1, TokensBelowPreserved
  <2>3. s \in Registry /\ s.next_task_id = r.next_task_id /\ s.next_sequence = NextU64(r.next_sequence)
    BY <2>1 DEF Promotes
  <2>4. CountersInRange(s)
    BY <1>1, <2>3, NextU64Type, RegistryParts DEF CountersInRange
  <2>5. Len(s.tasks) = Len(r.tasks) /\ \A i \in 1 .. Len(r.tasks) : s.tasks[i].app_id = r.tasks[i].app_id
    BY <2>1 DEF Promotes, SameButState
  <2>6. TaskApps(s) = TaskApps(r)
    BY Zenon, <1>1, <2>3, <2>5, RegistryParts DEF TaskApps
  <2> QED BY <2>2, <2>3, <2>4, <2>6 DEF WellFormed, s
<1>3. ASSUME CanLaunchNew(r, app, 0)
      PROVE  /\ WellFormed(LaunchNew(r, app, version, n, 0), n + 1)
             /\ TaskApps(LaunchNew(r, app, version, n, 0)) \subseteq TaskApps(r) \cup {app}
  <2> DEFINE s == LaunchNew(r, app, version, n, 0)
  <2>1. Adds(r, s, app, n)
    BY <1>1, <1>3, LaunchNewWithRoom DEF CountersInRange
  <2> HIDE DEF s
  <2>2. TokensBelow(s, n + 1)
    BY ZenonT(40), <1>1, <2>1, TokensBelowPreserved
  <2>3. /\ s \in Registry /\ s.next_task_id = NextU64(r.next_task_id)
        /\ s.next_sequence = NextU64(r.next_sequence)
    BY <2>1 DEF Adds
  <2>4. CountersInRange(s)
    BY <1>1, <2>3, NextU64Type, RegistryParts DEF CountersInRange
  <2>5. /\ Len(s.tasks) = Len(r.tasks) + 1 /\ s.tasks[Len(r.tasks) + 1].app_id = app
        /\ \A i \in 1 .. Len(r.tasks) : s.tasks[i].app_id = r.tasks[i].app_id
    BY <2>1 DEF Adds, SameButState
  <2>6. TaskApps(s) \subseteq TaskApps(r) \cup {app}
    <3>1. /\ DOMAIN s.tasks = 1 .. (Len(r.tasks) + 1) /\ DOMAIN r.tasks = 1 .. Len(r.tasks)
          /\ Len(r.tasks) \in Nat
      BY <1>1, <2>3, <2>5, RegistryParts
    <3> QED BY <2>5, <3>1 DEF TaskApps
  <2> QED BY <2>2, <2>3, <2>4, <2>6 DEF WellFormed, s
<1> QED BY <1>2, <1>3

-----------------------------------------------------------------------------
(* Types and packages, one lemma per group of steps.                       *)

TypedStable == Typed /\ Stable

(* A handler that goes on with a record of the right types. *)
LEMMA GotoTyped ==
    ASSUME HandlersTyped, NEW t \in Threads, NEW q, Goto(t, q), CarriedTypes(q),
           runtime_sequence \in Nat, runtime_sequence' \in Nat, runtime_sequence <= runtime_sequence',
           q.token < runtime_sequence'
    PROVE  HandlersTyped'
<1>1. /\ thread' = [thread EXCEPT ![t] = q] /\ q \in ThreadRecord
      /\ thread \in [Threads -> ThreadRecord]
  BY DEF Goto, HandlersTyped, CarriedTypes
<1>2. thread' \in [Threads -> ThreadRecord] /\ thread'[t] = q /\ \A u \in Threads \ {t} : thread'[u] = thread[u]
  BY <1>1
<1>3. ASSUME NEW u \in Threads PROVE CarriedTypes(thread'[u]) /\ thread'[u].token < runtime_sequence'
  <2>1. CASE u = t
    BY <1>2, <2>1
  <2>2. CASE u # t
    <3>1. CarriedTypes(thread[u]) /\ thread[u].token < runtime_sequence /\ thread[u].token \in Nat
      BY DEF HandlersTyped, ThreadRecord
    <3> QED BY <1>2, <2>2, <3>1
  <2> QED BY <2>1, <2>2
<1> QED BY <1>2, <1>3 DEF HandlersTyped, CarriedTypes

LEMMA IdleTyped == CarriedTypes(Idle) /\ Idle.token = 0
BY DEF Idle, CarriedTypes, ThreadRecord, Evicting

(* What a handler has been carrying. *)
LEMMA CarriedParts ==
    ASSUME Typed, NEW t \in Threads
    PROVE  /\ thread[t] \in ThreadRecord
           /\ CarriedTypes(thread[t])
           /\ thread[t].token < runtime_sequence /\ thread[t].token \in Nat
           /\ runtime_sequence \in Nat \ {0}
BY DEF Typed, TypeOK, HandlersTyped, ThreadRecord

(* A step of a handler that changes neither registry nor units. *)
LEMMA HandlerKeeps ==
    ASSUME TypedStable, NEW t \in Threads, NEW q, Goto(t, q), CarriedTypes(q), q.token < runtime_sequence,
           UNCHANGED <<reg, runtime_sequence, unit, packageVars>>,
           \/ UNCHANGED <<sessions, foreground, monitor>>
           \/ TypeOK'
    PROVE  TypedStable'
<1>1. runtime_sequence \in Nat
  BY DEF TypedStable, Typed, TypeOK
<1>2. HandlersTyped'
  BY <1>1, GotoTyped DEF TypedStable, Typed
<1>3. TypeOK'
  BY DEF TypedStable, Typed, TypeOK, packageVars
<1>4. WellFormed(reg, runtime_sequence)'
  BY DEF TypedStable, Typed
<1>5. Stable'
  BY DEF TypedStable, Stable, Running, packageVars
<1> QED BY <1>2, <1>3, <1>4, <1>5 DEF TypedStable, Typed

LEMMA StartKeepsTypes ==
    ASSUME TypedStable, NEW t \in Threads, NEW app \in Apps, StartApp(t, app)
    PROVE  TypedStable'
<1> DEFINE q == [Idle EXCEPT !.pc = "plan", !.app = app]
<1>1. CarriedTypes(q) /\ q.token = 0
  BY Zenon DEF Idle, CarriedTypes, ThreadRecord, Evicting
<1>2. Goto(t, q) /\ UNCHANGED <<reg, runtime_sequence, sessions, foreground, monitor, unit, packageVars>>
  BY DEF StartApp, runtimeVars
<1>3. q.token < runtime_sequence
  BY <1>1 DEF TypedStable, Typed, TypeOK
<1> QED BY Zenon, <1>1, <1>2, <1>3, HandlerKeeps

LEMMA ActivateTaskKeepsTypes ==
    ASSUME TypedStable, NEW id, ActivateTask(id)
    PROVE  TypedStable'
<1>1. reg \in Registry /\ "control" \in Threads
  BY DEF TypedStable, Typed, TypeOK, Threads
<1>2. PICK i \in ById(reg.tasks, id) : Goto("control", [Idle EXCEPT !.pc = "plan", !.app = reg.tasks[i].app_id])
  BY Zenon DEF ActivateTask
<1> DEFINE q == [Idle EXCEPT !.pc = "plan", !.app = reg.tasks[i].app_id]
<1>3. reg.tasks[i].app_id \in Apps
  BY Zenon, <1>1, LookupById, RegistryParts DEF TaskRecord
<1>4. CarriedTypes(q) /\ q.token = 0
  BY ZenonT(40), <1>3 DEF Idle, CarriedTypes, ThreadRecord, Evicting
<1>5. UNCHANGED <<reg, runtime_sequence, sessions, foreground, monitor, unit, packageVars>>
  BY DEF ActivateTask, runtimeVars
<1>6. q.token < runtime_sequence
  BY <1>4 DEF TypedStable, Typed, TypeOK
<1> QED BY Zenon, <1>1, <1>2, <1>4, <1>5, <1>6, HandlerKeeps

LEMMA CloseTaskKeepsTypes ==
    ASSUME TypedStable, NEW id, CloseTask(id)
    PROVE  TypedStable'
<1>1. /\ reg \in Registry /\ "control" \in Threads /\ runtime_sequence \in Nat
      /\ TokensBelow(reg, runtime_sequence)
  BY DEF TypedStable, Typed, TypeOK, Threads, WellFormed
<1> DEFINE q(i) == [Idle EXCEPT !.pc = IF reg.tasks[i].runtime # 0 THEN "close_mark" ELSE "close",
                                !.app = reg.tasks[i].app_id, !.id = id,
                                !.token = reg.tasks[i].runtime]
<1>2. PICK i \in ById(reg.tasks, id) : Goto("control", q(i))
  BY Zenon DEF CloseTask
<1>3. i \in 1 .. Len(reg.tasks) /\ reg.tasks[i].task_id = id /\ reg.tasks[i] \in TaskRecord
  BY Zenon, <1>1, LookupById, RegistryParts
<1>4. reg.tasks[i].app_id \in Apps /\ id \in Nat /\ reg.tasks[i].runtime \in Nat
  BY <1>3 DEF TaskRecord
<1>5. CarriedTypes(q(i)) /\ q(i).token = reg.tasks[i].runtime
  BY ZenonT(40), <1>4 DEF Idle, CarriedTypes, ThreadRecord, Evicting
<1>6. UNCHANGED <<reg, runtime_sequence, sessions, foreground, monitor, unit, packageVars>>
  BY DEF CloseTask, runtimeVars
<1>7. q(i).token < runtime_sequence
  BY <1>1, <1>3, <1>5 DEF TokensBelow
<1> HIDE DEF q
<1> QED BY Zenon, <1>1, <1>2, <1>5, <1>6, <1>7, HandlerKeeps

(* A lookup by application yields the one task it finds. *)
LEMMA TaskFound ==
    ASSUME NEW r \in Registry, NEW app, ByApp(r.tasks, app) # {}
    PROVE  /\ TheIndex(ByApp(r.tasks, app)) \in 1 .. Len(r.tasks)
           /\ ByApp(r.tasks, app) = {TheIndex(ByApp(r.tasks, app))}
           /\ r.tasks[TheIndex(ByApp(r.tasks, app))].app_id = app
           /\ r.tasks[TheIndex(ByApp(r.tasks, app))] \in TaskRecord
<1>1. TheIndex(ByApp(r.tasks, app)) \in ByApp(r.tasks, app)
  BY DEF TheIndex
<1>2. /\ ByApp(r.tasks, app) \subseteq {i \in 1 .. Len(r.tasks) : r.tasks[i].app_id = app}
      /\ \A i, j \in ByApp(r.tasks, app) : i = j
  BY Zenon, LookupByApp
<1> QED BY <1>1, <1>2, RegistryParts

LEMMA PlanKeepsTypes ==
    ASSUME TypedStable, NEW t \in Threads, Plan(t)
    PROVE  TypedStable'
<1> DEFINE r == thread[t]
           I == ByApp(reg.tasks, r.app)
           oldest == reg.tasks[1]
           full == I = {} /\ Len(reg.tasks) = Capacity
           q1 == [r EXCEPT !.pc = "activate", !.id = reg.tasks[TheIndex(I)].task_id,
                           !.token = reg.tasks[TheIndex(I)].runtime]
           q2 == [r EXCEPT !.version = installed[r.app],
                           !.id = IF full THEN oldest.task_id ELSE 0,
                           !.victim = IF full THEN oldest.app_id ELSE "none",
                           !.pc = IF ~full THEN "launch"
                                  ELSE IF oldest.state \in Resident THEN "evict_mark"
                                  ELSE "evict"]
<1>1. /\ reg \in Registry /\ TokensBelow(reg, runtime_sequence)
      /\ installed \in [Apps -> Versions \cup {NoVersion}]
  BY DEF TypedStable, Typed, TypeOK, WellFormed
<1>2. r \in ThreadRecord /\ r.app \in Apps /\ r.token < runtime_sequence /\ runtime_sequence \in Nat \ {0}
  BY CarriedParts DEF TypedStable, Plan, At, CarriedTypes
<1>3. UNCHANGED <<reg, runtime_sequence, sessions, foreground, monitor, unit, packageVars>>
  BY DEF Plan, runtimeVars
<1>4. \/ Goto(t, Idle)
      \/ installed[r.app] # NoVersion /\ \E i \in I : reg.tasks[i].state \in Resident /\ Goto(t, q1)
      \/ installed[r.app] # NoVersion /\ Goto(t, q2)
  BY Zenon DEF Plan, Return
<1>5. CASE Goto(t, Idle)
  <2>1. Idle.token < runtime_sequence
    BY <1>2, IdleTyped
  <2> QED BY Zenon, <1>3, <1>5, <2>1, IdleTyped, HandlerKeeps
<1>6. CASE I # {} /\ Goto(t, q1)
  <2>1. /\ reg.tasks[TheIndex(I)] \in TaskRecord
        /\ TheIndex(I) \in 1 .. Len(reg.tasks)
    BY Zenon, <1>1, <1>6, TaskFound
  <2>2. /\ reg.tasks[TheIndex(I)].task_id \in Nat /\ reg.tasks[TheIndex(I)].runtime \in Nat
        /\ reg.tasks[TheIndex(I)].runtime < runtime_sequence
    BY Zenon, <1>1, <2>1 DEF TaskRecord, TokensBelow
  <2>3. CarriedTypes(q1) /\ q1.token < runtime_sequence
    BY Zenon, <1>2, <2>2 DEF CarriedTypes, ThreadRecord, Evicting
  <2> HIDE DEF q1
  <2> QED BY Zenon, <1>3, <1>6, <2>3, HandlerKeeps
<1>7. CASE installed[r.app] # NoVersion /\ Goto(t, q2)
  <2>1. full => oldest.task_id \in Nat /\ oldest.app_id \in Apps
    <3>1. full => oldest \in TaskRecord
      BY <1>1, CapacityAssumption, RegistryParts
    <3> QED BY <3>1 DEF TaskRecord
  <2>2. installed[r.app] \in Versions
    BY <1>1, <1>2, <1>7
  <2> HIDE DEF oldest, full
  <2>3. CarriedTypes(q2) /\ q2.token < runtime_sequence
    <3>1. CASE full
      BY Zenon, <1>2, <2>1, <2>2, <3>1 DEF CarriedTypes, ThreadRecord, Evicting
    <3>2. CASE ~full
      BY ZenonT(40), <1>2, <2>2, <3>2 DEF CarriedTypes, ThreadRecord, Evicting
    <3> QED BY <3>1, <3>2
  <2> HIDE DEF q2
  <2> QED BY Zenon, <1>3, <1>7, <2>3, HandlerKeeps
<1> QED BY <1>4, <1>5, <1>6, <1>7

(* A step that removes or demotes tasks and stops units. *)
LEMMA RegistryKeeps ==
    ASSUME TypedStable, HandlersTyped', WellFormed(reg', runtime_sequence), TaskApps(reg') \subseteq TaskApps(reg),
           unit' \in [Apps -> [token : Nat, version : Versions \cup {NoVersion}]],
           \A a \in Apps : unit'[a] \in {unit[a], NoUnit},
           UNCHANGED <<runtime_sequence, sessions, foreground, packageVars>>,
           \A k \in DOMAIN monitor' : k \in DOMAIN monitor /\ monitor'[k] = monitor[k]
    PROVE  TypedStable'
<1>1. TypeOK'
  BY DEF TypedStable, Typed, TypeOK, WellFormed, packageVars
<1>2. \A a \in Apps : Running(a)' => unit'[a].version = installed'[a] /\ installed'[a] # NoVersion
  BY DEF TypedStable, Stable, Running, NoUnit, packageVars
<1>3. \A i \in DOMAIN reg'.tasks : installed'[reg'.tasks[i].app_id] # NoVersion
  BY DEF TypedStable, Stable, TaskApps, packageVars
<1> QED BY <1>1, <1>2, <1>3 DEF TypedStable, Typed, Stable

LEMMA ActivateExistingKeepsTypes ==
    ASSUME TypedStable, NEW t \in Threads, ActivateExisting(t)
    PROVE  TypedStable'
<1> DEFINE r == thread[t]
           q == [r EXCEPT !.pc = "set_foreground"]
<1>1. /\ r \in ThreadRecord /\ r.app \in Apps /\ r.token < runtime_sequence
      /\ runtime_sequence \in Nat \ {0}
  BY CarriedParts DEF TypedStable, ActivateExisting, At, CarriedTypes
<1>2. UNCHANGED <<runtime_sequence, sessions, foreground, monitor, unit, packageVars>>
  BY DEF ActivateExisting, runtimeVars
<1>3. CASE CanActivate(reg, r.id)
  <2>1. reg' = Activate(reg, r.id) /\ Goto(t, q)
    BY <1>3 DEF ActivateExisting
  <2>2. WellFormed(reg', runtime_sequence) /\ TaskApps(reg') = TaskApps(reg)
    BY <1>1, <1>3, <2>1, ActivateKeeps DEF TypedStable, Typed
  <2>3. CarriedTypes(q) /\ q.token < runtime_sequence
    BY <1>1 DEF CarriedTypes, ThreadRecord, Evicting
  <2> HIDE DEF q
  <2>4. HandlersTyped'
    BY <1>1, <1>2, <2>1, <2>3, GotoTyped DEF TypedStable, Typed
  <2>5. unit' \in [Apps -> [token : Nat, version : Versions \cup {NoVersion}]] /\ unit' = unit /\ monitor' = monitor
    BY <1>2 DEF TypedStable, Typed, TypeOK
  <2> QED BY <1>2, <2>2, <2>4, <2>5, RegistryKeeps
<1>4. CASE ~CanActivate(reg, r.id)
  <2>1. reg' = reg /\ Goto(t, Idle)
    BY <1>4 DEF ActivateExisting, Return
  <2>2. Idle.token < runtime_sequence
    BY <1>1, IdleTyped
  <2> QED BY Zenon, <1>2, <2>1, <2>2, IdleTyped, HandlerKeeps
<1> QED BY <1>3, <1>4

LEMMA EvictKeepsTypes ==
    ASSUME TypedStable, NEW t \in Threads, Evict(t)
    PROVE  TypedStable'
<1> DEFINE r == thread[t]
           q == [r EXCEPT !.pc = "launch"]
<1>1. /\ r \in ThreadRecord /\ r.app \in Apps /\ r.token < runtime_sequence /\ r.version \in Versions
      /\ runtime_sequence \in Nat \ {0}
  BY CarriedParts DEF TypedStable, Evict, At, CarriedTypes, Evicting
<1>2. UNCHANGED <<runtime_sequence, sessions, foreground, monitor, unit, packageVars>>
  BY DEF Evict, runtimeVars
<1>3. CASE CanEvict(reg, r.id)
  <2>1. reg' = EvictCapacityVictim(reg, r.id) /\ Goto(t, q)
    BY <1>3 DEF Evict
  <2>2. Removes(reg, reg', 1)
    BY <1>3, <2>1, EvictRemoves DEF TypedStable, Typed, TypeOK
  <2>3. WellFormed(reg', runtime_sequence) /\ TaskApps(reg') \subseteq TaskApps(reg)
    BY <1>1, <2>2, RemovalKeeps DEF TypedStable, Typed
  <2>4. CarriedTypes(q) /\ q.token < runtime_sequence
    BY <1>1 DEF CarriedTypes, ThreadRecord, Evicting
  <2> HIDE DEF q
  <2>5. HandlersTyped'
    BY <1>1, <1>2, <2>1, <2>4, GotoTyped DEF TypedStable, Typed
  <2>6. unit' \in [Apps -> [token : Nat, version : Versions \cup {NoVersion}]] /\ unit' = unit /\ monitor' = monitor
    BY <1>2 DEF TypedStable, Typed, TypeOK
  <2> QED BY <1>2, <2>3, <2>5, <2>6, RegistryKeeps
<1>4. CASE ~CanEvict(reg, r.id)
  <2>1. reg' = reg /\ Goto(t, Idle)
    BY <1>4 DEF Evict, Return
  <2>2. Idle.token < runtime_sequence
    BY <1>1, IdleTyped
  <2> QED BY Zenon, <1>2, <2>1, <2>2, IdleTyped, HandlerKeeps
<1> QED BY <1>3, <1>4

(* A unit that is stopped, by a handler or by itself. *)
LEMMA UnitStopped ==
    ASSUME TypeOK, NEW app \in Apps, StopUnit(app)
    PROVE  /\ unit' \in [Apps -> [token : Nat, version : Versions \cup {NoVersion}]]
           /\ \A a \in Apps : unit'[a] \in {unit[a], NoUnit}
           /\ unit'[app] = NoUnit
           /\ \A a \in Apps \ {app} : unit'[a] = unit[a]
BY DEF TypeOK, StopUnit, NoUnit

LEMMA EvictStopKeepsTypes ==
    ASSUME TypedStable, NEW t \in Threads, EvictStop(t)
    PROVE  TypedStable'
<1> DEFINE r == thread[t]
           q1 == [r EXCEPT !.pc = "cancel"]
           q2 == [r EXCEPT !.pc = "evict_finish"]
<1>1. /\ r \in ThreadRecord /\ r.app \in Apps /\ r.token < runtime_sequence /\ r.version \in Versions
      /\ r.victim \in Apps /\ runtime_sequence \in Nat \ {0}
  BY CarriedParts DEF TypedStable, EvictStop, At, CarriedTypes, Evicting
<1>2. UNCHANGED <<reg, runtime_sequence, sessions, foreground, monitor, packageVars>>
  BY DEF EvictStop, runtimeVars
<1>3. /\ CarriedTypes(q1) /\ q1.token < runtime_sequence
      /\ CarriedTypes(q2) /\ q2.token < runtime_sequence
  BY <1>1 DEF CarriedTypes, ThreadRecord, Evicting
<1>4. \/ UNCHANGED unit /\ Goto(t, q1)
      \/ StopUnit(r.victim) /\ Goto(t, q2)
  BY DEF EvictStop
<1> HIDE DEF q1, q2
<1>5. CASE UNCHANGED unit /\ Goto(t, q1)
  BY Zenon, <1>2, <1>3, <1>5, HandlerKeeps
<1>6. CASE StopUnit(r.victim) /\ Goto(t, q2)
  <2>1. HandlersTyped'
    BY <1>1, <1>2, <1>3, <1>6, GotoTyped DEF TypedStable, Typed
  <2>2. WellFormed(reg', runtime_sequence) /\ TaskApps(reg') = TaskApps(reg) /\ monitor' = monitor /\ TypeOK
    BY <1>2 DEF TypedStable, Typed
  <2>3. /\ unit' \in [Apps -> [token : Nat, version : Versions \cup {NoVersion}]]
        /\ \A a \in Apps : unit'[a] \in {unit[a], NoUnit}
    BY <1>1, <1>6, <2>2, UnitStopped
  <2> QED BY <1>2, <2>1, <2>2, <2>3, RegistryKeeps
<1> QED BY <1>4, <1>5, <1>6

(* StopSection and CloseSection when the stop succeeds. *)
LEMMA ClosedKeepsTypes ==
    ASSUME TypedStable, Goto("control", [thread["control"] EXCEPT !.pc = "finish"]), ~At("control", "idle"),
           \/ UNCHANGED unit
           \/ StopUnit(thread["control"].app),
           \/ UNCHANGED reg
           \/ \E id : CanClose(reg, id) /\ reg' = Close(reg, id),
           UNCHANGED <<runtime_sequence, sessions, foreground, monitor, packageVars>>
    PROVE  TypedStable'
<1> DEFINE r == thread["control"]
           q == [r EXCEPT !.pc = "finish"]
<1>1. /\ r \in ThreadRecord /\ r.app \in Apps /\ r.token < runtime_sequence
      /\ runtime_sequence \in Nat \ {0} /\ "control" \in Threads /\ Typed /\ TypeOK
  BY CarriedParts DEF TypedStable, Typed, At, CarriedTypes, Threads
<1>2. CarriedTypes(q) /\ q.token < runtime_sequence
  BY <1>1 DEF CarriedTypes, ThreadRecord, Evicting
<1> HIDE DEF q
<1>3. HandlersTyped'
  <2>1. HandlersTyped /\ Goto("control", q) /\ runtime_sequence' = runtime_sequence
    BY <1>1 DEF Typed, q
  <2> QED BY <1>1, <1>2, <2>1, GotoTyped
<1>4. /\ unit' \in [Apps -> [token : Nat, version : Versions \cup {NoVersion}]]
      /\ \A a \in Apps : unit'[a] \in {unit[a], NoUnit}
  <2>1. CASE StopUnit(r.app)
    BY <1>1, <2>1, UnitStopped
  <2>2. CASE UNCHANGED unit
    BY <1>1, <2>2 DEF TypeOK
  <2> QED BY <2>1, <2>2
<1>5. WellFormed(reg', runtime_sequence) /\ TaskApps(reg') \subseteq TaskApps(reg)
  <2>1. CASE UNCHANGED reg
    BY <1>1, <2>1 DEF Typed
  <2>2. ASSUME NEW id, CanClose(reg, id), reg' = Close(reg, id)
        PROVE  WellFormed(reg', runtime_sequence) /\ TaskApps(reg') \subseteq TaskApps(reg)
    <3>1. PICK k \in 1 .. Len(reg.tasks) : Removes(reg, reg', k)
      BY <1>1, <2>2, CloseRemoves DEF TypeOK
    <3> QED BY <1>1, <3>1, RemovalKeeps DEF Typed
  <2> QED BY <2>1, <2>2
<1>6. monitor' = monitor
  OBVIOUS
<1> QED BY <1>3, <1>4, <1>5, <1>6, RegistryKeeps

LEMMA CancelledKeepsTypes ==
    ASSUME TypedStable, Goto("control", [thread["control"] EXCEPT !.pc = "cancel"]), ~At("control", "idle"),
           UNCHANGED <<reg, unit, runtime_sequence, sessions, foreground, monitor, packageVars>>
    PROVE  TypedStable'
<1> DEFINE r == thread["control"]
           q == [r EXCEPT !.pc = "cancel"]
<1>1. /\ r \in ThreadRecord /\ r.app \in Apps /\ r.token < runtime_sequence /\ "control" \in Threads
  BY CarriedParts DEF TypedStable, At, CarriedTypes, Threads
<1>2. CarriedTypes(q) /\ q.token < runtime_sequence
  BY <1>1 DEF CarriedTypes, ThreadRecord, Evicting
<1>3. Goto("control", q)
  OBVIOUS
<1> HIDE DEF q
<1> QED BY Zenon, <1>1, <1>2, <1>3, HandlerKeeps

LEMMA StopSectionKeepsTypes ==
    ASSUME TypedStable, StopSection
    PROVE  TypedStable'
<1> DEFINE r == thread["control"]
           I == ByApp(reg.tasks, r.app)
<1>1. ~At("control", "idle") /\ UNCHANGED <<runtime_sequence, sessions, foreground, monitor, packageVars>>
  BY DEF StopSection, At, runtimeVars
<1>2. CASE UNCHANGED <<reg, unit>> /\ Goto("control", [r EXCEPT !.pc = "cancel"])
  BY <1>1, <1>2, CancelledKeepsTypes
<1>3. CASE /\ StopUnit(r.app) /\ Goto("control", [r EXCEPT !.pc = "finish"])
           /\ reg' = IF I = {} THEN reg ELSE Close(reg, reg.tasks[TheIndex(I)].task_id)
  <2>1. I # {} => CanClose(reg, reg.tasks[TheIndex(I)].task_id)
    <3>1. reg \in Registry
      BY DEF TypedStable, Typed, TypeOK
    <3> QED BY ZenonT(40), <3>1, TaskFound, LookupById DEF CanClose
  <2>2. UNCHANGED reg \/ \E id : CanClose(reg, id) /\ reg' = Close(reg, id)
    BY <1>3, <2>1
  <2> QED BY Zenon, <1>1, <1>3, <2>2, ClosedKeepsTypes
<1> QED BY Zenon, <1>2, <1>3 DEF StopSection

LEMMA CloseSectionKeepsTypes ==
    ASSUME TypedStable, CloseSection
    PROVE  TypedStable'
<1> DEFINE r == thread["control"]
<1>1. ~At("control", "idle") /\ UNCHANGED <<runtime_sequence, sessions, foreground, monitor, packageVars>>
  BY DEF CloseSection, At, runtimeVars
<1>2. CASE UNCHANGED <<reg, unit>> /\ Goto("control", [r EXCEPT !.pc = "cancel"])
  BY <1>1, <1>2, CancelledKeepsTypes
<1>3. CASE /\ StopUnit(r.app) \/ UNCHANGED unit
           /\ Goto("control", [r EXCEPT !.pc = "finish"])
           /\ CanClose(reg, r.id) /\ reg' = Close(reg, r.id)
  BY Zenon, <1>1, <1>3, ClosedKeepsTypes
<1> QED BY Zenon, <1>2, <1>3 DEF CloseSection

LEMMA UnitExitsKeepsTypes ==
    ASSUME TypedStable, NEW app \in Apps, UnitExits(app)
    PROVE  TypedStable'
<1>1. /\ UNCHANGED <<reg, runtime_sequence, sessions, foreground, monitor, packageVars, thread>>
      /\ StopUnit(app)
  BY DEF UnitExits, runtimeVars
<1>2. HandlersTyped' /\ WellFormed(reg', runtime_sequence) /\ TaskApps(reg') \subseteq TaskApps(reg) /\ TypeOK
  BY <1>1 DEF TypedStable, Typed, HandlersTyped
<1>3. /\ unit' \in [Apps -> [token : Nat, version : Versions \cup {NoVersion}]]
      /\ \A a \in Apps : unit'[a] \in {unit[a], NoUnit}
  BY <1>1, <1>2, UnitStopped
<1> QED BY <1>1, <1>2, <1>3, RegistryKeeps

LEMMA LaunchKeepsTypes ==
    ASSUME TypedStable, NEW t \in Threads, Launch(t)
    PROVE  TypedStable'
<1> DEFINE r == thread[t]
           n == runtime_sequence
           q == [r EXCEPT !.pc = "monitor", !.token = n]
<1>1. /\ r \in ThreadRecord /\ r.app \in Apps /\ r.token < n /\ r.version \in Versions
      /\ n \in Nat \ {0} /\ Typed /\ TypeOK /\ Stable /\ WellFormed(reg, n) /\ HandlersTyped
  BY CarriedParts DEF TypedStable, Typed, Launch, At, CarriedTypes, Evicting
<1>2. n' = n + 1 /\ UNCHANGED <<sessions, foreground, monitor, packageVars>>
  BY DEF Launch, FetchAdd, runtimeVars
<1>3. CASE UNCHANGED <<reg, unit>> /\ Goto(t, Idle)
  <2>1. HandlersTyped'
    BY <1>1, <1>2, <1>3, IdleTyped, GotoTyped
  <2>2. WellFormed(reg, n)'
    <3>1. \A i \in 1 .. Len(reg.tasks) : reg.tasks[i].runtime \in Nat
      BY ZenonT(40), <1>1, RegistryParts DEF WellFormed, TaskRecord
    <3> QED BY <1>1, <1>2, <1>3, <3>1 DEF WellFormed, TokensBelow
  <2>3. TypeOK'
    BY <1>1, <1>2, <1>3 DEF TypeOK, packageVars
  <2>4. Stable'
    BY <1>1, <1>2, <1>3 DEF Stable, Running, packageVars
  <2> QED BY Zenon, <2>1, <2>2, <2>3, <2>4 DEF TypedStable, Typed
<1>4. CASE /\ CanStartUnit(r.app)
           /\ CanRelaunch(reg, r.app) \/ CanLaunchNew(reg, r.app, 0)
           /\ unit' = [unit EXCEPT ![r.app] = [token |-> n, version |-> installed[r.app]]]
           /\ reg' = IF CanRelaunch(reg, r.app) THEN Relaunch(reg, r.app, r.version, n)
                     ELSE LaunchNew(reg, r.app, r.version, n, 0)
           /\ Goto(t, q)
  <2>1. CarriedTypes(q) /\ q.token = n
    BY ZenonT(40), <1>1 DEF CarriedTypes, ThreadRecord, Evicting
  <2>2. HandlersTyped'
    <3> HIDE DEF q
    <3> QED BY <1>1, <1>2, <1>4, <2>1, GotoTyped
  <2>3. WellFormed(reg', n + 1) /\ TaskApps(reg') \subseteq TaskApps(reg) \cup {r.app}
    <3>1. CASE CanRelaunch(reg, r.app)
      BY <1>1, <1>4, <3>1, LaunchKeeps
    <3>2. CASE ~CanRelaunch(reg, r.app) /\ CanLaunchNew(reg, r.app, 0)
      BY <1>1, <1>4, <3>2, LaunchKeeps
    <3> QED BY <1>4, <3>1, <3>2
  <2>4. installed[r.app] # NoVersion /\ unit \in [Apps -> [token : Nat, version : Versions \cup {NoVersion}]]
        /\ installed \in [Apps -> Versions \cup {NoVersion}]
    BY <1>1, <1>4 DEF CanStartUnit, TypeOK
  <2>5. /\ unit' \in [Apps -> [token : Nat, version : Versions \cup {NoVersion}]]
        /\ unit'[r.app].version = installed[r.app]
        /\ \A a \in Apps \ {r.app} : unit'[a] = unit[a]
    BY <1>1, <1>4, <2>4
  <2>6. TypeOK'
    BY <1>1, <1>2, <2>3, <2>5 DEF TypeOK, WellFormed, packageVars
  <2>7. Stable'
    <3>1. ASSUME NEW a \in Apps, Running(a)' PROVE unit'[a].version = installed[a] /\ installed[a] # NoVersion
      BY <1>1, <2>4, <2>5, <3>1 DEF Stable, Running
    <3>2. ASSUME NEW i \in DOMAIN reg'.tasks PROVE installed[reg'.tasks[i].app_id] # NoVersion
      <4>1. reg'.tasks[i].app_id \in TaskApps(reg) \cup {r.app}
        BY <2>3 DEF TaskApps
      <4>2. \A a \in TaskApps(reg) : installed[a] # NoVersion
        BY <1>1 DEF Stable, TaskApps
      <4> QED BY <2>4, <4>1, <4>2
    <3>3. installed' = installed
      BY <1>2 DEF packageVars
    <3> QED BY <3>1, <3>2, <3>3 DEF Stable
  <2> QED BY <1>2, <2>2, <2>3, <2>6, <2>7 DEF TypedStable, Typed
<1> QED BY Zenon, <1>3, <1>4 DEF Launch, Return

-----------------------------------------------------------------------------
(* Steps that change the table of sessions or the packages.                *)

RuntimesTyped ==
    /\ DOMAIN sessions \cup DOMAIN monitor \subseteq 1 .. runtime_sequence - 1
    /\ \A k \in DOMAIN sessions : sessions[k] \in [app : Apps, explicit_stop : BOOLEAN]
    /\ foreground \in 0 .. runtime_sequence - 1
    /\ \A k \in DOMAIN monitor :
          monitor[k] \in [app : Apps, pc : {"wait", "take", "clean"}, crashed : BOOLEAN]

LEMMA RuntimesKeep ==
    ASSUME TypedStable, RuntimesTyped', HandlersTyped', UNCHANGED <<reg, runtime_sequence, unit, packageVars>>
    PROVE  TypedStable'
<1>1. TypeOK'
  BY DEF TypedStable, Typed, TypeOK, RuntimesTyped, packageVars
<1>2. WellFormed(reg, runtime_sequence)' /\ Stable'
  BY DEF TypedStable, Typed, Stable, Running, packageVars
<1> QED BY <1>1, <1>2 DEF TypedStable, Typed

LEMMA MarkTyped ==
    ASSUME TypeOK, NEW app, Mark(app)
    PROVE  /\ DOMAIN sessions' = DOMAIN sessions
           /\ \A k \in DOMAIN sessions :
                 /\ sessions'[k] \in [app : Apps, explicit_stop : BOOLEAN]
                 /\ sessions'[k].app = sessions[k].app
                 /\ sessions'[k].explicit_stop =
                       IF k = Marked(app) THEN TRUE ELSE sessions[k].explicit_stop
           /\ Marked(app) \in 0 .. runtime_sequence - 1
           /\ SessionsOf(app) # {} => Marked(app) \in SessionsOf(app)
<1>1. DOMAIN sessions' = DOMAIN sessions
  BY DEF Mark
<1>2. ASSUME NEW k \in DOMAIN sessions
      PROVE  /\ sessions'[k] \in [app : Apps, explicit_stop : BOOLEAN]
             /\ sessions'[k].app = sessions[k].app
             /\ sessions'[k].explicit_stop =
                   IF k = Marked(app) THEN TRUE ELSE sessions[k].explicit_stop
  <2>1. sessions[k] \in [app : Apps, explicit_stop : BOOLEAN]
    BY DEF TypeOK
  <2>2. sessions'[k] = IF k = Marked(app) THEN [sessions[k] EXCEPT !.explicit_stop = TRUE] ELSE sessions[k]
    BY DEF Mark
  <2>3. CASE k = Marked(app)
    BY Zenon, <2>1, <2>2, <2>3
  <2>4. CASE k # Marked(app)
    BY <2>1, <2>2, <2>4
  <2> QED BY Zenon, <2>3, <2>4
<1>3. SessionsOf(app) # {} => Marked(app) \in SessionsOf(app)
  BY DEF Marked
<1>4. SessionsOf(app) \subseteq 1 .. runtime_sequence - 1 /\ runtime_sequence \in Nat \ {0}
  BY DEF SessionsOf, TypeOK
<1>5. Marked(app) \in 0 .. runtime_sequence - 1
  BY <1>3, <1>4 DEF Marked
<1> QED BY Zenon, <1>1, <1>2, <1>3, <1>5

LEMMA MarkKeepsRuntimes ==
    ASSUME TypeOK, NEW app, Mark(app), UNCHANGED <<runtime_sequence, foreground, monitor>>
    PROVE  RuntimesTyped' /\ Marked(app) \in Nat /\ Marked(app) < runtime_sequence
<1>1. /\ DOMAIN sessions' = DOMAIN sessions
      /\ \A k \in DOMAIN sessions : sessions'[k] \in [app : Apps, explicit_stop : BOOLEAN]
      /\ Marked(app) \in 0 .. runtime_sequence - 1
  BY Zenon, MarkTyped
<1>2. RuntimesTyped'
  BY <1>1 DEF TypeOK, RuntimesTyped
<1> QED BY <1>1, <1>2 DEF TypeOK

LEMMA EvictMarkKeepsTypes ==
    ASSUME TypedStable, NEW t \in Threads, EvictMark(t)
    PROVE  TypedStable'
<1> DEFINE r == thread[t]
           q == [r EXCEPT !.pc = "evict_stop", !.token = Marked(r.victim)]
<1>1. /\ r \in ThreadRecord /\ r.app \in Apps /\ r.version \in Versions /\ r.victim \in Apps
      /\ runtime_sequence \in Nat \ {0} /\ TypeOK /\ HandlersTyped
  BY CarriedParts DEF TypedStable, Typed, EvictMark, At, CarriedTypes, Evicting
<1>2. /\ Mark(r.victim) /\ Goto(t, q)
      /\ UNCHANGED <<reg, runtime_sequence, foreground, monitor, unit, packageVars>>
  BY DEF EvictMark
<1>3. RuntimesTyped' /\ Marked(r.victim) \in Nat /\ Marked(r.victim) < runtime_sequence
  BY Zenon, <1>1, <1>2, MarkKeepsRuntimes
<1>4. CarriedTypes(q) /\ q.token = Marked(r.victim)
  BY ZenonT(40), <1>1, <1>3 DEF CarriedTypes, ThreadRecord, Evicting
<1> HIDE DEF q
<1>5. HandlersTyped'
  BY <1>1, <1>2, <1>3, <1>4, GotoTyped
<1> QED BY <1>2, <1>3, <1>5, RuntimesKeep

LEMMA StopAppKeepsTypes ==
    ASSUME TypedStable, NEW app \in Apps, StopApp(app)
    PROVE  TypedStable'
<1> DEFINE q == [Idle EXCEPT !.pc = "stop", !.app = app, !.token = Marked(app)]
<1>1. runtime_sequence \in Nat \ {0} /\ TypeOK /\ HandlersTyped /\ "control" \in Threads
  BY DEF TypedStable, Typed, TypeOK, Threads
<1>2. /\ Mark(app) /\ Goto("control", q)
      /\ UNCHANGED <<reg, runtime_sequence, foreground, monitor, unit, packageVars>>
  BY DEF StopApp
<1>3. RuntimesTyped' /\ Marked(app) \in Nat /\ Marked(app) < runtime_sequence
  BY Zenon, <1>1, <1>2, MarkKeepsRuntimes
<1>4. CarriedTypes(q) /\ q.token = Marked(app)
  BY ZenonT(40), <1>1, <1>3 DEF Idle, CarriedTypes, ThreadRecord, Evicting
<1> HIDE DEF q
<1>5. HandlersTyped'
  BY <1>1, <1>2, <1>3, <1>4, GotoTyped
<1> QED BY <1>2, <1>3, <1>5, RuntimesKeep

LEMMA CloseMarkKeepsTypes ==
    ASSUME TypedStable, CloseMark
    PROVE  TypedStable'
<1> DEFINE r == thread["control"]
           q == [r EXCEPT !.pc = "close"]
<1>1. /\ r \in ThreadRecord /\ r.app \in Apps /\ r.token < runtime_sequence
      /\ runtime_sequence \in Nat \ {0} /\ TypeOK /\ HandlersTyped /\ "control" \in Threads
  BY CarriedParts DEF TypedStable, Typed, CloseMark, At, CarriedTypes, Threads
<1>2. /\ Mark(r.app) /\ Goto("control", q)
      /\ UNCHANGED <<reg, runtime_sequence, foreground, monitor, unit, packageVars>>
  BY DEF CloseMark
<1>3. RuntimesTyped'
  BY Zenon, <1>1, <1>2, MarkKeepsRuntimes
<1>4. CarriedTypes(q) /\ q.token < runtime_sequence
  BY <1>1 DEF CarriedTypes, ThreadRecord, Evicting
<1> HIDE DEF q
<1>5. HandlersTyped'
  BY <1>1, <1>2, <1>4, GotoTyped
<1> QED BY <1>2, <1>3, <1>5, RuntimesKeep

(* take_runtime_end: the session goes, and the foreground with it. *)
LEMMA TakeTyped ==
    ASSUME TypeOK, NEW k, TakeRuntimeEnd(k)
    PROVE  /\ DOMAIN sessions' = DOMAIN sessions \ {k}
           /\ \A j \in DOMAIN sessions \ {k} : sessions'[j] = sessions[j]
           /\ foreground' \in {0, foreground}
           /\ foreground' # 0 => foreground' # k
<1>1. /\ sessions' = [j \in DOMAIN sessions \ {k} |-> sessions[j]]
      /\ foreground' = IF foreground = k THEN 0 ELSE foreground
  BY DEF TakeRuntimeEnd, Without
<1> QED BY <1>1

LEMMA TakeKeepsRuntimes ==
    ASSUME TypeOK, NEW k, TakeRuntimeEnd(k), UNCHANGED <<runtime_sequence, monitor>>
    PROVE  RuntimesTyped'
<1>1. /\ DOMAIN sessions' = DOMAIN sessions \ {k}
      /\ \A j \in DOMAIN sessions \ {k} : sessions'[j] = sessions[j]
      /\ foreground' \in {0, foreground}
  BY ZenonT(40), TakeTyped
<1>2. DOMAIN sessions' \subseteq DOMAIN sessions /\ \A j \in DOMAIN sessions' : sessions'[j] = sessions[j]
  BY <1>1
<1>3. \A j \in DOMAIN sessions' : sessions'[j] \in [app : Apps, explicit_stop : BOOLEAN]
  BY Zenon, <1>2 DEF TypeOK
<1>4. /\ DOMAIN sessions' \cup DOMAIN monitor' \subseteq 1 .. runtime_sequence - 1
      /\ foreground' \in 0 .. runtime_sequence - 1
  BY <1>1, <1>2 DEF TypeOK
<1>5. \A j \in DOMAIN monitor' : monitor'[j] \in [app : Apps, pc : {"wait", "take", "clean"}, crashed : BOOLEAN]
  BY DEF TypeOK
<1> QED BY <1>3, <1>4, <1>5 DEF RuntimesTyped

LEMMA FinishKeepsTypes ==
    ASSUME TypedStable, NEW t \in Threads, EvictFinish(t) \/ (t = "control" /\ FinishExplicitStop)
    PROVE  TypedStable'
<1> DEFINE r == thread[t]
<1>1. /\ r \in ThreadRecord /\ CarriedTypes(r) /\ r.token < runtime_sequence
      /\ runtime_sequence \in Nat \ {0} /\ TypeOK /\ HandlersTyped
  BY CarriedParts DEF TypedStable, Typed
<1>2. TakeRuntimeEnd(r.token) /\ UNCHANGED <<reg, runtime_sequence, monitor, unit, packageVars>>
  BY Zenon DEF EvictFinish, FinishExplicitStop
<1>3. RuntimesTyped'
  BY <1>1, <1>2, TakeKeepsRuntimes
<1>4. HandlersTyped'
  <2>1. CASE EvictFinish(t)
    <3> DEFINE q == [r EXCEPT !.pc = "evict"]
    <3>1. Goto(t, q) /\ r.pc = "evict_finish"
      BY <2>1 DEF EvictFinish, At
    <3>2. CarriedTypes(q) /\ q.token < runtime_sequence
      BY <1>1, <3>1 DEF CarriedTypes, ThreadRecord, Evicting
    <3> HIDE DEF q
    <3> QED BY <1>1, <1>2, <3>1, <3>2, GotoTyped
  <2>2. CASE t = "control" /\ FinishExplicitStop
    <3>1. Goto(t, Idle)
      BY <2>2 DEF FinishExplicitStop, Return
    <3> QED BY <1>1, <1>2, <3>1, IdleTyped, GotoTyped
  <2> QED BY <2>1, <2>2
<1> QED BY <1>2, <1>3, <1>4, RuntimesKeep

LEMMA CancelKeepsTypes ==
    ASSUME TypedStable, NEW t \in Threads, CancelExplicitStop(t)
    PROVE  TypedStable'
<1>1. TypeOK /\ HandlersTyped /\ runtime_sequence \in Nat \ {0}
  BY DEF TypedStable, Typed, TypeOK
<1>2. Goto(t, Idle) /\ UNCHANGED <<reg, runtime_sequence, foreground, monitor, unit, packageVars>>
  BY DEF CancelExplicitStop, Return
<1>3. HandlersTyped'
  BY <1>1, <1>2, IdleTyped, GotoTyped
<1>4. DOMAIN sessions' = DOMAIN sessions
  BY DEF CancelExplicitStop
<1>5. ASSUME NEW k \in DOMAIN sessions PROVE sessions'[k] \in [app : Apps, explicit_stop : BOOLEAN]
  <2>1. sessions'[k] \in {sessions[k], [sessions[k] EXCEPT !.explicit_stop = FALSE]}
    BY DEF CancelExplicitStop
  <2>2. sessions[k] \in [app : Apps, explicit_stop : BOOLEAN]
    BY <1>1 DEF TypeOK
  <2> QED BY ZenonT(40), <2>1, <2>2
<1>6. RuntimesTyped'
  BY <1>1, <1>2, <1>4, <1>5 DEF TypeOK, RuntimesTyped
<1> QED BY <1>2, <1>3, <1>6, RuntimesKeep

LEMMA SetForegroundKeepsTypes ==
    ASSUME TypedStable, NEW t \in Threads, SetForegroundRuntime(t)
    PROVE  TypedStable'
<1>1. TypeOK /\ HandlersTyped /\ runtime_sequence \in Nat \ {0}
  BY DEF TypedStable, Typed, TypeOK
<1>2. Goto(t, Idle) /\ UNCHANGED <<reg, runtime_sequence, sessions, monitor, unit, packageVars>>
  BY DEF SetForegroundRuntime, Return
<1>3. HandlersTyped'
  BY <1>1, <1>2, IdleTyped, GotoTyped
<1>4. foreground' \in 0 .. runtime_sequence - 1
  <2>1. foreground' = foreground \/ foreground' \in DOMAIN sessions
    BY DEF SetForegroundRuntime
  <2> QED BY <1>1, <2>1 DEF TypeOK
<1>5. RuntimesTyped'
  BY <1>1, <1>2, <1>4 DEF TypeOK, RuntimesTyped
<1> QED BY <1>2, <1>3, <1>5, RuntimesKeep

LEMMA StartMonitorKeepsTypes ==
    ASSUME TypedStable, NEW t \in Threads, StartRuntimeMonitor(t)
    PROVE  TypedStable'
<1> DEFINE r == thread[t]
<1>1. /\ r \in ThreadRecord /\ r.app \in Apps /\ r.token < runtime_sequence /\ r.token \in Nat \ {0}
      /\ runtime_sequence \in Nat \ {0} /\ TypeOK /\ HandlersTyped
  BY Zenon, CarriedParts DEF TypedStable, Typed, StartRuntimeMonitor, At, CarriedTypes
<1>2. Goto(t, Idle) /\ UNCHANGED <<reg, runtime_sequence, unit, packageVars>>
  BY DEF StartRuntimeMonitor, Return
<1>3. HandlersTyped'
  BY <1>1, <1>2, IdleTyped, GotoTyped
<1>4. CASE foreground' = 0 /\ UNCHANGED <<sessions, monitor>>
  <2>1. RuntimesTyped'
    BY <1>1, <1>2, <1>4 DEF TypeOK, RuntimesTyped
  <2> QED BY Zenon, <1>2, <1>3, <2>1, RuntimesKeep
<1>5. CASE /\ sessions' = With(sessions, r.token, [app |-> r.app, explicit_stop |-> FALSE])
           /\ foreground' = r.token
           /\ monitor' = With(monitor, r.token, [app |-> r.app, pc |-> "wait", crashed |-> FALSE])
  <2>1. /\ DOMAIN sessions' = DOMAIN sessions \cup {r.token}
        /\ sessions'[r.token] = [app |-> r.app, explicit_stop |-> FALSE]
        /\ \A k \in DOMAIN sessions \ {r.token} : sessions'[k] = sessions[k]
    BY Zenon, <1>5 DEF With
  <2>2. /\ DOMAIN monitor' = DOMAIN monitor \cup {r.token}
        /\ monitor'[r.token] = [app |-> r.app, pc |-> "wait", crashed |-> FALSE]
        /\ \A k \in DOMAIN monitor \ {r.token} : monitor'[k] = monitor[k]
    BY <1>5 DEF With
  <2>3. RuntimesTyped'
    <3>1. \A k \in DOMAIN sessions' : sessions'[k] \in [app : Apps, explicit_stop : BOOLEAN]
      <4>1. ASSUME NEW k \in DOMAIN sessions' PROVE sessions'[k] \in [app : Apps, explicit_stop : BOOLEAN]
        <5>1. CASE k = r.token
          <6>1. [app |-> r.app, explicit_stop |-> FALSE] \in [app : Apps, explicit_stop : BOOLEAN]
            BY <1>1
          <6> QED BY Zenon, <2>1, <5>1, <6>1
        <5>2. CASE k # r.token
          BY Zenon, <1>1, <2>1, <5>2 DEF TypeOK
        <5> QED BY <5>1, <5>2
      <4> QED BY <4>1
    <3>2. \A k \in DOMAIN monitor' :
             monitor'[k] \in [app : Apps, pc : {"wait", "take", "clean"}, crashed : BOOLEAN]
      <4>1. ASSUME NEW k \in DOMAIN monitor'
            PROVE  monitor'[k] \in [app : Apps, pc : {"wait", "take", "clean"}, crashed : BOOLEAN]
        <5>1. CASE k = r.token
          <6>1. [app |-> r.app, pc |-> "wait", crashed |-> FALSE]
                   \in [app : Apps, pc : {"wait", "take", "clean"}, crashed : BOOLEAN]
            BY <1>1
          <6> QED BY Zenon, <2>2, <5>1, <6>1
        <5>2. CASE k # r.token
          BY Zenon, <1>1, <2>2, <5>2 DEF TypeOK
        <5> QED BY <5>1, <5>2
      <4> QED BY <4>1
    <3>3. /\ DOMAIN sessions' \cup DOMAIN monitor' \subseteq 1 .. runtime_sequence' - 1
          /\ foreground' \in 0 .. runtime_sequence' - 1
      <4>1. DOMAIN sessions \cup DOMAIN monitor \subseteq 1 .. runtime_sequence - 1
        BY <1>1 DEF TypeOK
      <4>2. r.token \in 1 .. runtime_sequence - 1 /\ runtime_sequence' = runtime_sequence
        BY <1>1, <1>2
      <4> HIDE DEF r
      <4> QED BY <1>5, <2>1, <2>2, <4>1, <4>2
    <3> QED BY <3>1, <3>2, <3>3 DEF RuntimesTyped
  <2> QED BY Zenon, <1>2, <1>3, <2>3, RuntimesKeep
<1> QED BY Zenon, <1>4, <1>5 DEF StartRuntimeMonitor

LEMMA ForegroundAppKeepsTypes ==
    ASSUME TypedStable, NEW app \in Apps, SetForegroundApp(app)
    PROVE  TypedStable'
<1>1. TypeOK /\ HandlersTyped /\ WellFormed(reg, runtime_sequence) /\ Stable
  BY DEF TypedStable, Typed
<1>2. /\ UNCHANGED <<runtime_sequence, sessions, monitor, unit, packageVars, thread>>
      /\ runtime_sequence \in Nat \ {0}
  BY <1>1 DEF SetForegroundApp, TypeOK
<1>3. HandlersTyped'
  BY Zenon, <1>1, <1>2 DEF HandlersTyped
<1>4. PICK i \in ByApp(reg.tasks, app) :
         /\ reg.tasks[i].runtime \in DOMAIN sessions
         /\ \/ reg' = reg
            \/ CanActivate(reg, reg.tasks[i].task_id) /\ reg' = Activate(reg, reg.tasks[i].task_id)
         /\ foreground' = reg.tasks[i].runtime
  BY Zenon DEF SetForegroundApp
<1>5. WellFormed(reg', runtime_sequence) /\ TaskApps(reg') = TaskApps(reg)
  <2>1. CASE reg' = reg
    BY <1>1, <2>1
  <2>2. CASE CanActivate(reg, reg.tasks[i].task_id) /\ reg' = Activate(reg, reg.tasks[i].task_id)
    BY Zenon, <1>1, <1>2, <2>2, ActivateKeeps
  <2> QED BY <1>4, <2>1, <2>2
<1>6. TypeOK'
  <2>1. foreground' \in 0 .. runtime_sequence - 1
    BY <1>1, <1>4 DEF TypeOK
  <2> QED BY Zenon, <1>1, <1>2, <1>5, <2>1 DEF TypeOK, WellFormed, packageVars
<1>7. Stable'
  BY <1>1, <1>2, <1>5 DEF Stable, Running, TaskApps, packageVars
<1> QED BY <1>2, <1>3, <1>5, <1>6, <1>7 DEF TypedStable, Typed

(* An application without task has no task record. *)
LEMMA NoTask ==
    ASSUME TypeOK, NEW app, ~HasTask(app), NEW i \in DOMAIN reg.tasks
    PROVE  reg.tasks[i].app_id # app
<1>1. reg \in Registry /\ i \in 1 .. Len(reg.tasks) /\ ByApp(reg.tasks, app) = {}
  BY RegistryParts DEF TypeOK, HasTask
<1> QED BY <1>1, LookupByApp

LEMMA PackageKeepsTypes ==
    ASSUME TypedStable, NEW app \in Apps,
           Rollback(app) \/ Uninstall(app) \/ (\E v \in Versions : Install(app, v))
    PROVE  TypedStable'
<1>1. TypeOK /\ HandlersTyped /\ WellFormed(reg, runtime_sequence) /\ Stable
  BY DEF TypedStable, Typed
<1>2. UNCHANGED <<reg, runtime_sequence, sessions, foreground, monitor, unit, thread>>
  BY DEF Rollback, Uninstall, Install, runtimeVars
<1>3. /\ installed' \in [Apps -> Versions \cup {NoVersion}] /\ previous' \in [Apps -> Versions \cup {NoVersion}]
      /\ \A a \in Apps \ {app} : installed'[a] = installed[a]
      /\ PackageFree(app) \/ (installed[app] = NoVersion /\ installed'[app] # NoVersion)
  <2>1. CASE Rollback(app)
    BY Zenon, <1>1, <2>1 DEF TypeOK, Rollback
  <2>2. CASE Uninstall(app)
    BY Zenon, <1>1, <2>2 DEF TypeOK, Uninstall
  <2>3. ASSUME NEW v \in Versions, Install(app, v)
        PROVE  /\ installed' \in [Apps -> Versions \cup {NoVersion}]
               /\ previous' \in [Apps -> Versions \cup {NoVersion}]
               /\ \A a \in Apps \ {app} : installed'[a] = installed[a]
               /\ PackageFree(app) \/ (installed[app] = NoVersion /\ installed'[app] # NoVersion)
    BY Zenon, <1>1, <2>3, ConstantsAssumption DEF TypeOK, Install, ConstantsSound
  <2> QED BY Zenon, <2>1, <2>2, <2>3
<1>4. HandlersTyped' /\ WellFormed(reg, runtime_sequence)'
  BY Zenon, <1>1, <1>2 DEF HandlersTyped
<1>5. TypeOK'
  BY Zenon, <1>1, <1>2, <1>3 DEF TypeOK
<1>6. ASSUME NEW a \in Apps, Running(a)' PROVE unit'[a].version = installed'[a] /\ installed'[a] # NoVersion
  BY Zenon, <1>1, <1>2, <1>3, <1>6 DEF Stable, Running, PackageFree
<1>7. ASSUME NEW i \in DOMAIN reg'.tasks PROVE installed'[reg'.tasks[i].app_id] # NoVersion
  <2>1. reg.tasks[i].app_id \in Apps /\ installed[reg.tasks[i].app_id] # NoVersion
    BY Zenon, <1>1, <1>2, RegistryParts DEF TypeOK, Stable, TaskRecord
  <2>2. reg.tasks[i].app_id # app
    BY Zenon, <1>1, <1>2, <1>3, <2>1, NoTask DEF PackageFree
  <2> QED BY Zenon, <1>2, <1>3, <2>1, <2>2
<1> QED BY <1>4, <1>5, <1>6, <1>7 DEF TypedStable, Typed, Stable

LEMMA MonitorKeepsTypes ==
    ASSUME TypedStable, NEW k \in DOMAIN monitor, MonitorStep(k)
    PROVE  TypedStable'
<1>1. /\ TypeOK /\ HandlersTyped /\ WellFormed(reg, runtime_sequence) /\ runtime_sequence \in Nat \ {0}
      /\ monitor[k] \in [app : Apps, pc : {"wait", "take", "clean"}, crashed : BOOLEAN]
  BY Zenon DEF TypedStable, Typed, TypeOK
<1>2. UNCHANGED <<runtime_sequence, unit, packageVars, thread>> /\ HandlersTyped'
  BY <1>1 DEF MonitorStep, MonitorWait, MonitorTake, MonitorClean, HandlersTyped
<1>3. /\ DOMAIN monitor' \subseteq DOMAIN monitor
      /\ \A j \in DOMAIN monitor' : monitor'[j] \in [app : Apps, pc : {"wait", "take", "clean"}, crashed : BOOLEAN]
  <2>1. CASE monitor' = Without(monitor, k)
    BY <1>1, <2>1 DEF Without, TypeOK
  <2>2. CASE monitor' = [monitor EXCEPT ![k].pc = "take"]
    BY <1>1, <2>2 DEF TypeOK
  <2>3. CASE k \in DOMAIN sessions /\ monitor' = [monitor EXCEPT ![k].pc = "clean", ![k].crashed = ~sessions[k].explicit_stop]
    BY <1>1, <2>3 DEF TypeOK
  <2> QED BY ZenonT(40), <2>1, <2>2, <2>3 DEF MonitorStep, MonitorWait, MonitorTake, MonitorClean
<1>4. CASE MonitorWait(k) \/ MonitorTake(k)
  <2>1. UNCHANGED <<sessions, foreground>> \/ TakeRuntimeEnd(k)
    BY <1>4 DEF MonitorWait, MonitorTake, runtimeVars
  <2>2. /\ \A j \in DOMAIN sessions' : j \in DOMAIN sessions /\ sessions'[j] = sessions[j]
        /\ foreground' \in {0, foreground}
    BY Zenon, <1>1, <2>1, TakeTyped
  <2>3. RuntimesTyped'
    BY <1>1, <1>2, <1>3, <2>2 DEF TypeOK, RuntimesTyped
  <2>4. reg' = reg
    BY Zenon, <1>4 DEF MonitorWait, MonitorTake
  <2> QED BY <1>2, <2>3, <2>4, RuntimesKeep
<1>5. CASE MonitorClean(k)
  <2>1. /\ UNCHANGED <<sessions, foreground>>
        /\ \A j \in DOMAIN monitor' : j \in DOMAIN monitor /\ monitor'[j] = monitor[j]
        /\ reg' = reg \/ reg' = RuntimeExited(reg, k)
    BY Zenon, <1>5 DEF MonitorClean, Without, CrashedTask, runtimeVars
  <2>2. WellFormed(reg', runtime_sequence) /\ TaskApps(reg') \subseteq TaskApps(reg)
    BY <1>1, <2>1, ExitKeeps
  <2>3. unit' = unit /\ unit' \in [Apps -> [token : Nat, version : Versions \cup {NoVersion}]]
    BY <1>1, <1>2 DEF TypeOK
  <2> QED BY Zenon, <1>2, <2>1, <2>2, <2>3, RegistryKeeps
<1> QED BY Zenon, <1>4, <1>5 DEF MonitorStep

-----------------------------------------------------------------------------
(* The first result: packages are stable under what runs.                  *)

LEMMA InitTyped == Init => TypedStable
<1> SUFFICES ASSUME Init PROVE TypedStable
  OBVIOUS
<1>1. EmptyRegistry \in Registry /\ Len(EmptyRegistry.tasks) = 0 /\ DOMAIN EmptyRegistry.tasks = {}
  BY DEF EmptyRegistry, Registry
<1>2. TypeOK
  BY <1>1 DEF Init, TypeOK, NoUnit
<1>3. WellFormed(reg, runtime_sequence)
  <2>1. reg.next_task_id = 1 /\ reg.next_sequence = 1
    BY DEF Init, EmptyRegistry
  <2> QED BY <1>1, <2>1, U64MaxAssumption DEF Init, WellFormed, CountersInRange, TokensBelow
<1>4. HandlersTyped
  BY IdleTyped DEF Init, HandlersTyped, CarriedTypes
<1>5. Stable
  BY <1>1 DEF Init, Stable, Running, NoUnit
<1> QED BY <1>2, <1>3, <1>4, <1>5 DEF TypedStable, Typed

LEMMA StepTyped == TypedStable /\ [Next]_vars => TypedStable'
<1> SUFFICES ASSUME TypedStable, [Next]_vars PROVE TypedStable'
  OBVIOUS
<1>1. CASE UNCHANGED vars
  BY <1>1 DEF vars, TypedStable, Typed, TypeOK, HandlersTyped, Stable, Running
<1>2. ASSUME NEW t \in Threads, StepOf(t) PROVE TypedStable'
  BY Zenon, <1>2, PlanKeepsTypes, ActivateExistingKeepsTypes, SetForegroundKeepsTypes,
     EvictMarkKeepsTypes, EvictStopKeepsTypes, FinishKeepsTypes, EvictKeepsTypes,
     LaunchKeepsTypes, StartMonitorKeepsTypes, CancelKeepsTypes DEF StepOf
<1>3. ASSUME NEW t \in Threads, NEW app \in Apps, StartApp(t, app) PROVE TypedStable'
  BY Zenon, <1>3, StartKeepsTypes
<1>4. ASSUME NEW id, ActivateTask(id) \/ CloseTask(id) PROVE TypedStable'
  BY <1>4, ActivateTaskKeepsTypes, CloseTaskKeepsTypes
<1>5. ASSUME NEW app \in Apps, \/ StopApp(app) \/ SetForegroundApp(app) \/ UnitExits(app)
                               \/ Rollback(app) \/ Uninstall(app) \/ \E v \in Versions : Install(app, v)
      PROVE TypedStable'
  BY Zenon, <1>5, StopAppKeepsTypes, ForegroundAppKeepsTypes, UnitExitsKeepsTypes, PackageKeepsTypes
<1>6. CASE ClearForegroundApp
  <2>1. UNCHANGED <<reg, runtime_sequence, unit, packageVars>> /\ HandlersTyped' /\ RuntimesTyped'
    BY <1>6 DEF ClearForegroundApp, TypedStable, Typed, TypeOK, HandlersTyped, RuntimesTyped
  <2> QED BY <2>1, RuntimesKeep
<1>7. CASE ControlStep
  <2>1. "control" \in Threads
    BY DEF Threads
  <2> QED BY Zenon, <1>7, <2>1, StopSectionKeepsTypes, CloseMarkKeepsTypes, CloseSectionKeepsTypes, FinishKeepsTypes
         DEF ControlStep
<1>8. ASSUME NEW k \in DOMAIN monitor, MonitorStep(k) PROVE TypedStable'
  BY <1>8, MonitorKeepsTypes
<1> QED BY Zenon, <1>1, <1>2, <1>3, <1>4, <1>5, <1>6, <1>7, <1>8 DEF Next

(* Install, rollback and uninstall do not take the lifecycle mutex; yet an  *)
(* active unit always runs the installed version, and a task always has a   *)
(* package, for any number of launches and of package changes.              *)
THEOREM PackagesStay == Spec => []PackageStableWhileRunning
<1>1. TypedStable => PackageStableWhileRunning
  BY DEF TypedStable, Stable, PackageStableWhileRunning
<1> QED BY <1>1, InitTyped, StepTyped, PTL DEF Spec

-----------------------------------------------------------------------------
(* Units, tasks and runtime sessions: the invariant.                       *)

(* 2^64 - 2 launches or activations are still to come.  A task identifier  *)
(* that is handed out a second time would let close_task_control stop one  *)
(* application and close the card of another.                              *)
CountersLeft == reg.next_task_id < U64Max /\ reg.next_sequence < U64Max

-----------------------------------------------------------------------------
(* The invariant.                                                          *)

(* Which application is bound to which runtime. *)
BoundTo(r, a, k) == \E i \in 1 .. Len(r.tasks) : r.tasks[i].app_id = a /\ r.tasks[i].runtime = k

(* The lifecycle mutex. *)
OneHandler == \A t, u \in Threads : ~At(t, "idle") /\ ~At(u, "idle") => t = u

(* What a handler carries from one critical section to the next still      *)
(* holds of the shared state when it uses it.                              *)
CarriedOver(t) ==
    LET r == thread[t]
    IN  /\ r.pc \in Evicting =>
              /\ Len(reg.tasks) = Capacity
              /\ reg.tasks[1].task_id = r.id /\ reg.tasks[1].app_id = r.victim
        /\ r.pc \in {"evict_stop", "evict_finish"} => SessionsOf(r.victim) \subseteq {r.token}
        /\ r.pc \in {"evict_finish", "evict"} => ~Running(r.victim)
        /\ r.pc = "evict" => SessionsOf(r.victim) = {}
        /\ r.pc \in {"stop", "close_mark", "close", "finish"} => SessionsOf(r.app) \subseteq {r.token}
        /\ r.pc \in {"close_mark", "close"} =>
              /\ \A i \in 1 .. Len(reg.tasks) : reg.tasks[i].task_id = r.id => reg.tasks[i].app_id = r.app
              /\ r.token = 0 => ~Running(r.app)
        /\ r.pc = "monitor" =>
              /\ r.token \notin DOMAIN sessions \cup DOMAIN monitor
              /\ BoundTo(reg, r.app, r.token)
              /\ \A a \in Apps : unit[a].token = r.token => a = r.app

(* A session is that of its application's task, until the handler that     *)
(* closed the task has taken the session.                                  *)
Finishing(k) ==
    \E t \in Threads : thread[t].pc = "finish" /\ thread[t].app = sessions[k].app /\ thread[t].token = k

SessionHasTask == \A k \in DOMAIN sessions : BoundTo(reg, sessions[k].app, k) \/ Finishing(k)

(* A marked session has the handler that marked it, which takes the        *)
(* session or the mark before it lets go of the lifecycle mutex.           *)
Marking == {"evict_stop", "evict_finish", "stop", "close", "finish", "cancel"}

MarkedBy(k) == \E t \in Threads : thread[t].pc \in Marking /\ thread[t].token = k

MarkHasHandler == \A k \in DOMAIN sessions : sessions[k].explicit_stop => MarkedBy(k)

(* A monitor that has seen its unit stop never sees that runtime again. *)
MonitorsSound ==
    \A k \in DOMAIN monitor :
        /\ \A a \in Apps : unit[a].token = k => a = monitor[k].app /\ monitor[k].pc = "wait"
        /\ monitor[k].pc = "clean" => k \notin DOMAIN sessions

UnitsSound ==
    \A a \in Apps : /\ unit[a].token < runtime_sequence
                    /\ Running(a) => BoundTo(reg, a, unit[a].token)

SInv ==
    /\ Restorable(reg) /\ OneHandler /\ (\A t \in Threads : CarriedOver(t))
    /\ SessionHasTask /\ MarkHasHandler /\ MonitorsSound /\ UnitsSound /\ ForegroundHasSession

-----------------------------------------------------------------------------
(* The cards of the registry after each operation.                         *)

SameCards(r, s) ==
    /\ Len(s.tasks) = Len(r.tasks)
    /\ \A i \in 1 .. Len(r.tasks) :
          /\ s.tasks[i].task_id = r.tasks[i].task_id
          /\ s.tasks[i].app_id = r.tasks[i].app_id
          /\ s.tasks[i].runtime = r.tasks[i].runtime

Left(r) == r.next_task_id < U64Max /\ r.next_sequence < U64Max

LEMMA LeftIncrements ==
    ASSUME NEW r \in Registry, Left(r)
    PROVE  /\ NextU64(r.next_task_id) = r.next_task_id + 1
           /\ NextU64(r.next_sequence) = r.next_sequence + 1
           /\ r.next_task_id <= U64Max /\ r.next_sequence <= U64Max
BY RegistryParts, U64MaxAssumption DEF Left, NextU64

LEMMA BoundUnique ==
    ASSUME NEW r \in Registry, Restorable(r), NEW a, NEW j, NEW k, BoundTo(r, a, j), BoundTo(r, a, k)
    PROVE  j = k
<1>1. \A i, m \in 1 .. Len(r.tasks) : r.tasks[i].app_id = r.tasks[m].app_id => i = m
  BY RegistryParts DEF Restorable, UniqueApps
<1> QED BY <1>1 DEF BoundTo

LEMMA ActivateCards ==
    ASSUME NEW r \in Registry, Restorable(r), Left(r), NEW id, CanActivate(r, id)
    PROVE  Restorable(Activate(r, id)) /\ SameCards(r, Activate(r, id))
<1> DEFINE s == Activate(r, id)
<1>1. NextU64(r.next_sequence) = r.next_sequence + 1 /\ r.next_sequence <= U64Max
  BY LeftIncrements
<1>2. PICK k \in 1 .. Len(r.tasks) :
         r.tasks[k].state \in Resident /\ Promotes(r, s, k, r.tasks[k].runtime)
  BY <1>1, ActivatePromotes
<1> HIDE DEF s
<1>3. DOMAIN r.tasks = 1 .. Len(r.tasks)
  BY RegistryParts
<1>4. r.tasks[k].runtime # 0 /\ \A i \in 1 .. Len(r.tasks) : i # k => r.tasks[i].runtime # r.tasks[k].runtime
  BY <1>2, <1>3 DEF Restorable, ResidentIffBound, UniqueTokens
<1>5. Restorable(s)
  BY <1>1, <1>2, <1>4, PromotesRestorable
<1>6. SameCards(r, s)
  BY Zenon, <1>2 DEF Promotes, SameButState, SameCards
<1> QED BY <1>5, <1>6 DEF s

LEMMA ExitCards ==
    ASSUME NEW r \in Registry, Restorable(r), NEW k
    PROVE  /\ Restorable(RuntimeExited(r, k))
           /\ Len(RuntimeExited(r, k).tasks) = Len(r.tasks)
           /\ \A i \in 1 .. Len(r.tasks) :
                 /\ RuntimeExited(r, k).tasks[i].task_id = r.tasks[i].task_id
                 /\ RuntimeExited(r, k).tasks[i].app_id = r.tasks[i].app_id
                 /\ r.tasks[i].runtime # k => RuntimeExited(r, k).tasks[i].runtime = r.tasks[i].runtime
<1> DEFINE s == RuntimeExited(r, k)
<1>1. Demotes(r, s)
  BY RuntimeExitedDemotes
<1>2. \A i \in 1 .. Len(r.tasks) : r.tasks[i].runtime # k => s.tasks[i].runtime = r.tasks[i].runtime
  BY RuntimeExitedUnbindsOne
<1> HIDE DEF s
<1>3. Restorable(s)
  BY <1>1, DemotesRestorable
<1>4. Len(s.tasks) = Len(r.tasks)
      /\ \A i \in 1 .. Len(r.tasks) : s.tasks[i].task_id = r.tasks[i].task_id /\ s.tasks[i].app_id = r.tasks[i].app_id
  BY <1>1 DEF Demotes, SameHistory
<1> QED BY Zenon, <1>2, <1>3, <1>4 DEF s

LEMMA RemovalCards ==
    ASSUME NEW r \in Registry, Restorable(r), NEW s, NEW k, Removes(r, s, k)
    PROVE  /\ Restorable(s)
           /\ \A a, j : BoundTo(r, a, j) /\ a # r.tasks[k].app_id => BoundTo(s, a, j)
<1>1. Restorable(s)
  BY RemovesRestorable
<1>2. PICK f \in [1 .. (Len(r.tasks) - 1) -> 1 .. Len(r.tasks)] :
         /\ \A j \in 1 .. (Len(r.tasks) - 1) : s.tasks[j] = r.tasks[f[j]]
         /\ \A i \in 1 .. Len(r.tasks) : i # k => \E j \in 1 .. (Len(r.tasks) - 1) : f[j] = i
  BY RemovesIndex
<1>3. Len(s.tasks) = Len(r.tasks) - 1
  BY DEF Removes
<1>4. ASSUME NEW a, NEW j, BoundTo(r, a, j), a # r.tasks[k].app_id PROVE BoundTo(s, a, j)
  <2>1. PICK i \in 1 .. Len(r.tasks) : r.tasks[i].app_id = a /\ r.tasks[i].runtime = j
    BY <1>4 DEF BoundTo
  <2>2. PICK m \in 1 .. (Len(r.tasks) - 1) : f[m] = i
    BY <1>2, <1>4, <2>1
  <2> QED BY <1>2, <1>3, <2>1, <2>2 DEF BoundTo
<1> QED BY <1>1, <1>4

(* A launch binds the application, which was bound to no runtime before. *)
LaunchedCards(r, s, app, n) ==
    /\ Restorable(s)
    /\ BoundTo(s, app, n)
    /\ \A a, j : BoundTo(r, a, j) /\ a # app => BoundTo(s, a, j)
    /\ \A j : BoundTo(r, app, j) => j = 0

LEMMA RelaunchCards ==
    ASSUME NEW r \in Registry, Restorable(r), Left(r), NEW n \in Nat \ {0}, TokensBelow(r, n),
           NEW app \in Apps, NEW version \in Versions, CanRelaunch(r, app)
    PROVE  LaunchedCards(r, Relaunch(r, app, version, n), app, n)
<1> DEFINE s == Relaunch(r, app, version, n)
<1>1. NextU64(r.next_sequence) = r.next_sequence + 1 /\ r.next_sequence <= U64Max
  BY LeftIncrements
<1>2. PICK k \in 1 .. Len(r.tasks) :
         r.tasks[k].app_id = app /\ r.tasks[k].state \notin Resident /\ Promotes(r, s, k, n)
  BY <1>1, RelaunchPromotes
<1> HIDE DEF s
<1>3. DOMAIN r.tasks = 1 .. Len(r.tasks)
  BY RegistryParts
<1>4. \A i \in 1 .. Len(r.tasks) : r.tasks[i].runtime # n
  BY NewToken
<1>5. Restorable(s)
  BY Zenon, <1>1, <1>2, <1>4, PromotesRestorable
<1>6. /\ Len(s.tasks) = Len(r.tasks) /\ s.tasks[k].app_id = app /\ s.tasks[k].runtime = n
      /\ \A i \in 1 .. Len(r.tasks) : i # k => s.tasks[i].app_id = r.tasks[i].app_id /\ s.tasks[i].runtime = r.tasks[i].runtime
  BY Zenon, <1>2 DEF Promotes, SameButState
<1>7. BoundTo(s, app, n) /\ \A a, j : BoundTo(r, a, j) /\ a # app => BoundTo(s, a, j)
  BY Zenon, <1>2, <1>6 DEF BoundTo
<1>8. r.tasks[k].runtime = 0
  BY <1>2, <1>3 DEF Restorable, ResidentIffBound
<1>9. \A j : BoundTo(r, app, j) => j = 0
  <2>1. BoundTo(r, app, 0)
    BY <1>2, <1>8 DEF BoundTo
  <2> QED BY <2>1, BoundUnique
<1> QED BY <1>5, <1>7, <1>9 DEF LaunchedCards, s

LEMMA LaunchNewCards ==
    ASSUME NEW r \in Registry, Restorable(r), Left(r), NEW n \in Nat \ {0}, TokensBelow(r, n),
           NEW app \in Apps, NEW version \in Versions, CanLaunchNew(r, app, 0)
    PROVE  LaunchedCards(r, LaunchNew(r, app, version, n, 0), app, n)
<1> DEFINE s == LaunchNew(r, app, version, n, 0)
<1>1. /\ NextU64(r.next_sequence) = r.next_sequence + 1 /\ NextU64(r.next_task_id) = r.next_task_id + 1
      /\ CountersInRange(r)
  BY LeftIncrements DEF CountersInRange
<1>2. Len(r.tasks) # Capacity /\ Adds(r, s, app, n)
  BY <1>1, LaunchNewWithRoom
<1> HIDE DEF s
<1>3. Len(r.tasks) < Capacity /\ Len(r.tasks) \in Nat
  BY <1>2, RegistryParts, CapacityAssumption DEF Restorable, WithinCapacity
<1>4. \A i \in 1 .. Len(r.tasks) : r.tasks[i].app_id # app
  BY LookupByApp DEF CanLaunchNew
<1>5. \A i \in 1 .. Len(r.tasks) : r.tasks[i].app_id # app /\ r.tasks[i].runtime # n
  BY <1>4, NewToken
<1>6. Restorable(s)
  BY Zenon, <1>1, <1>2, <1>3, <1>5, AddsRestorable
<1>7. /\ Len(s.tasks) = Len(r.tasks) + 1
      /\ s.tasks[Len(r.tasks) + 1].app_id = app /\ s.tasks[Len(r.tasks) + 1].runtime = n
      /\ \A i \in 1 .. Len(r.tasks) : s.tasks[i].app_id = r.tasks[i].app_id /\ s.tasks[i].runtime = r.tasks[i].runtime
  BY Zenon, <1>2 DEF Adds, SameButState
<1>8. BoundTo(s, app, n) /\ \A a, j : BoundTo(r, a, j) /\ a # app => BoundTo(s, a, j)
  BY <1>3, <1>7 DEF BoundTo
<1>9. \A j : BoundTo(r, app, j) => j = 0
  BY Zenon, <1>4 DEF BoundTo
<1> QED BY <1>6, <1>8, <1>9 DEF LaunchedCards, s

-----------------------------------------------------------------------------
(* The steps of a handler.                                                 *)

(* Only thread t is inside a handler. *)
Alone(t) == \A u \in Threads \ {t} : thread[u].pc = "idle" /\ thread'[u] = thread[u]

LEMMA HandlerAlone ==
    ASSUME TypedStable, OneHandler, NEW t \in Threads, Unlocked \/ ~At(t, "idle"), NEW q, Goto(t, q)
    PROVE  Alone(t) /\ thread'[t] = q /\ OneHandler'
<1>1. thread' = [thread EXCEPT ![t] = q] /\ thread \in [Threads -> ThreadRecord]
  BY DEF Goto, TypedStable, Typed, HandlersTyped
<1>2. \A u \in Threads \ {t} : thread[u].pc = "idle"
  BY DEF OneHandler, Unlocked, At
<1>3. thread'[t] = q /\ \A u \in Threads \ {t} : thread'[u] = thread[u]
  BY <1>1
<1>4. OneHandler'
  BY <1>2, <1>3 DEF OneHandler, At
<1> QED BY <1>2, <1>3, <1>4 DEF Alone

LEMMA CarriedByAll ==
    ASSUME NEW t \in Threads, Alone(t), CarriedOver(t)'
    PROVE  \A u \in Threads : CarriedOver(u)'
<1>1. ASSUME NEW u \in Threads, u # t PROVE CarriedOver(u)'
  <2>1. thread'[u].pc = "idle"
    BY Zenon, <1>1 DEF Alone
  <2> QED BY Zenon, <2>1 DEF CarriedOver, Evicting
<1> QED BY Zenon, <1>1

(* Outside the last section of a stop, every session has its task. *)
LEMMA SessionsBound ==
    ASSUME SInv, NEW t \in Threads, \A u \in Threads \ {t} : thread[u].pc = "idle", thread[t].pc # "finish"
    PROVE  \A k \in DOMAIN sessions : BoundTo(reg, sessions[k].app, k)
BY Zenon DEF SInv, SessionHasTask, Finishing

(* Only the handler that is under way has marked a session. *)
LEMMA MarksAreMine ==
    ASSUME SInv, NEW t \in Threads, \A u \in Threads \ {t} : thread[u].pc = "idle",
           NEW k \in DOMAIN sessions, sessions[k].explicit_stop
    PROVE  thread[t].pc \in Marking /\ thread[t].token = k
BY DEF SInv, MarkHasHandler, MarkedBy, Marking

(* The runtime of an application's card is the only one it can have. *)
LEMMA OnlyRuntime ==
    ASSUME TypedStable, SInv, NEW t \in Threads, \A u \in Threads \ {t} : thread[u].pc = "idle",
           thread[t].pc # "finish", NEW a \in Apps, NEW j, BoundTo(reg, a, j)
    PROVE  /\ SessionsOf(a) \subseteq {j} \ {0}
           /\ j = 0 => ~Running(a)
           /\ Running(a) => unit[a].token = j
<1>1. reg \in Registry /\ Restorable(reg) /\ UnitsSound /\ DOMAIN sessions \subseteq 1 .. runtime_sequence - 1
  BY DEF TypedStable, Typed, TypeOK, SInv
<1>2. ASSUME NEW k \in SessionsOf(a) PROVE k = j /\ k # 0
  <2>1. k \in DOMAIN sessions /\ sessions[k].app = a /\ k # 0
    BY <1>1 DEF SessionsOf
  <2>2. BoundTo(reg, a, k)
    BY <2>1, SessionsBound
  <2> QED BY <1>1, <2>1, <2>2, BoundUnique
<1>3. Running(a) => unit[a].token = j /\ j # 0
  BY <1>1, BoundUnique DEF UnitsSound, Running
<1> QED BY <1>2, <1>3

(* An application has at most one session. *)
LEMMA OneSession ==
    ASSUME TypedStable, SInv, NEW t \in Threads, \A u \in Threads \ {t} : thread[u].pc = "idle",
           thread[t].pc # "finish", NEW a
    PROVE  SessionsOf(a) \subseteq {Marked(a)}
<1>1. reg \in Registry /\ Restorable(reg)
  BY DEF TypedStable, Typed, TypeOK, SInv
<1>2. \A j, k \in SessionsOf(a) : j = k
  <2>1. SUFFICES ASSUME NEW j \in SessionsOf(a), NEW k \in SessionsOf(a) PROVE j = k
    OBVIOUS
  <2>2. /\ j \in DOMAIN sessions /\ sessions[j].app = a
        /\ k \in DOMAIN sessions /\ sessions[k].app = a
    BY DEF SessionsOf
  <2>3. BoundTo(reg, a, j) /\ BoundTo(reg, a, k)
    BY <2>2, SessionsBound
  <2> QED BY <1>1, <2>3, BoundUnique
<1>3. SessionsOf(a) # {} => Marked(a) \in SessionsOf(a)
  BY DEF Marked
<1> QED BY <1>2, <1>3

(* Monitors are not disturbed when units only stop and sessions only go. *)
LEMMA MonitorsKept ==
    ASSUME TypeOK, MonitorsSound, DOMAIN sessions' \subseteq DOMAIN sessions,
           \A k \in DOMAIN monitor' : k \in DOMAIN monitor /\ monitor'[k] = monitor[k],
           \A a \in Apps : unit'[a] \in {unit[a], NoUnit}
    PROVE  MonitorsSound'
<1>1. \A k \in DOMAIN monitor : k # 0
  BY DEF TypeOK
<1>2. ASSUME NEW k \in DOMAIN monitor'
      PROVE  /\ \A a \in Apps : unit'[a].token = k => a = monitor'[k].app /\ monitor'[k].pc = "wait"
             /\ monitor'[k].pc = "clean" => k \notin DOMAIN sessions'
  BY <1>1 DEF MonitorsSound, NoUnit
<1> QED BY <1>2 DEF MonitorsSound

(* Nor are units whose cards stay bound. *)
LEMMA UnitsKept ==
    ASSUME UnitsSound, runtime_sequence \in Nat \ {0}, runtime_sequence' \in Nat,
           runtime_sequence <= runtime_sequence', unit \in [Apps -> [token : Nat, version : Versions \cup {NoVersion}]],
           \A a \in Apps : \/ unit'[a] = NoUnit
                           \/ /\ unit'[a] = unit[a]
                              /\ Running(a) => BoundTo(reg', a, unit[a].token)
    PROVE  UnitsSound'
<1>1. ASSUME NEW a \in Apps
      PROVE  unit'[a].token < runtime_sequence' /\ (unit'[a].token # 0 => BoundTo(reg', a, unit'[a].token))
  <2>1. CASE unit'[a] = NoUnit
    BY <2>1 DEF NoUnit
  <2>2. CASE unit'[a] = unit[a] /\ (Running(a) => BoundTo(reg', a, unit[a].token))
    <3>1. unit[a].token < runtime_sequence /\ unit[a].token \in Nat
      BY DEF UnitsSound
    <3> QED BY <2>2, <3>1 DEF Running
  <2> QED BY <2>1, <2>2
<1> QED BY <1>1 DEF UnitsSound, Running

(* A step that only moves the thread on. *)
LEMMA QuietStep ==
    ASSUME TypedStable, SInv, NEW t \in Threads, Alone(t), OneHandler', CarriedOver(t)',
           UNCHANGED <<reg, sessions, foreground, monitor, unit>>,
           runtime_sequence' \in Nat, runtime_sequence <= runtime_sequence',
           thread[t].pc # "finish",
           thread[t].pc \in Marking => thread'[t].pc \in Marking /\ thread'[t].token = thread[t].token
    PROVE  SInv'
<1>1. TypeOK /\ Restorable(reg)' /\ UnitsSound /\ MonitorsSound /\ \A u \in Threads \ {t} : thread[u].pc = "idle"
  BY Zenon DEF TypedStable, Typed, SInv, Alone
<1>2. \A u \in Threads : CarriedOver(u)'
  BY CarriedByAll
<1>3. SessionHasTask'
  BY <1>1, SessionsBound DEF SessionHasTask
<1>4. MarkHasHandler'
  <2>1. ASSUME NEW k \in DOMAIN sessions', sessions'[k].explicit_stop PROVE MarkedBy(k)'
    <3>1. thread[t].pc \in Marking /\ thread[t].token = k
      BY Zenon, <1>1, <2>1, MarksAreMine
    <3> QED BY Zenon, <3>1 DEF MarkedBy
  <2> QED BY <2>1 DEF MarkHasHandler
<1>5. MonitorsSound'
  BY Zenon, <1>1, MonitorsKept
<1>6. UnitsSound'
  BY Zenon, <1>1, UnitsKept DEF TypeOK, UnitsSound
<1>7. ForegroundHasSession'
  BY DEF SInv, ForegroundHasSession
<1> QED BY Zenon, <1>1, <1>2, <1>3, <1>4, <1>5, <1>6, <1>7 DEF SInv

-----------------------------------------------------------------------------
(* One lemma per handler step.                                             *)

LEMMA SequenceType == TypedStable => runtime_sequence \in Nat \ {0} /\ runtime_sequence <= runtime_sequence
BY DEF TypedStable, Typed, TypeOK

(* A step that begins a handler, or ends one without having changed any    *)
(* shared state.                                                           *)
LEMMA PlainStep ==
    ASSUME TypedStable, SInv, NEW t \in Threads, Unlocked \/ ~At(t, "idle"), NEW q, Goto(t, q),
           q.pc \in {"idle", "plan", "activate", "launch", "cancel"},
           thread[t].pc \in {"idle", "plan", "activate", "evict", "launch"} \/
              (q.pc = "cancel" /\ thread[t].pc # "finish" /\ q.token = thread[t].token),
           UNCHANGED <<reg, sessions, foreground, monitor, unit>>,
           runtime_sequence' \in Nat, runtime_sequence <= runtime_sequence'
    PROVE  SInv'
<1>1. Alone(t) /\ thread'[t] = q /\ OneHandler'
  BY HandlerAlone DEF SInv
<1>2. CarriedOver(t)'
  BY <1>1 DEF CarriedOver, Evicting
<1>3. /\ thread[t].pc # "finish"
      /\ thread[t].pc \in Marking => thread'[t].pc \in Marking /\ thread'[t].token = thread[t].token
  BY <1>1 DEF Marking
<1> QED BY <1>1, <1>2, <1>3, QuietStep

LEMMA StartKeeps ==
    ASSUME TypedStable, SInv, NEW t \in Threads, NEW app \in Apps, StartApp(t, app)
    PROVE  SInv'
<1> DEFINE q == [Idle EXCEPT !.pc = "plan", !.app = app]
<1>1. /\ Unlocked /\ Goto(t, q) /\ thread[t].pc = "idle"
      /\ UNCHANGED <<reg, runtime_sequence, sessions, foreground, monitor, unit>>
  BY DEF StartApp, runtimeVars, At
<1>2. q.pc = "plan"
  BY DEF Idle
<1> HIDE DEF q
<1> QED BY <1>1, <1>2, PlainStep, SequenceType

LEMMA ActivateTaskKeeps ==
    ASSUME TypedStable, SInv, NEW id, ActivateTask(id)
    PROVE  SInv'
<1>1. PICK i \in ById(reg.tasks, id) : Goto("control", [Idle EXCEPT !.pc = "plan", !.app = reg.tasks[i].app_id])
  BY Zenon DEF ActivateTask
<1> DEFINE q == [Idle EXCEPT !.pc = "plan", !.app = reg.tasks[i].app_id]
<1>2. /\ Unlocked /\ thread["control"].pc = "idle" /\ "control" \in Threads
      /\ UNCHANGED <<reg, runtime_sequence, sessions, foreground, monitor, unit>>
  BY DEF ActivateTask, runtimeVars, At, Threads
<1>3. q.pc = "plan" /\ Goto("control", q)
  BY <1>1 DEF Idle
<1> HIDE DEF q
<1> QED BY Zenon, <1>2, <1>3, PlainStep, SequenceType

LEMMA CloseTaskKeeps ==
    ASSUME TypedStable, SInv, NEW id, CloseTask(id)
    PROVE  SInv'
<1> DEFINE q(i) == [Idle EXCEPT !.pc = IF reg.tasks[i].runtime # 0 THEN "close_mark" ELSE "close",
                                !.app = reg.tasks[i].app_id, !.id = id,
                                !.token = reg.tasks[i].runtime]
           t == "control"
<1>1. PICK i \in ById(reg.tasks, id) : Goto(t, q(i))
  BY Zenon DEF CloseTask
<1>2. /\ Unlocked /\ thread[t].pc = "idle" /\ t \in Threads
      /\ UNCHANGED <<reg, runtime_sequence, sessions, foreground, monitor, unit>>
  BY DEF CloseTask, runtimeVars, At, Threads
<1>3. /\ q(i).pc \in {"close_mark", "close"} /\ q(i).id = id
      /\ q(i).app = reg.tasks[i].app_id /\ q(i).token = reg.tasks[i].runtime
  BY DEF Idle
<1> HIDE DEF q
<1>4. Alone(t) /\ thread'[t] = q(i) /\ OneHandler'
  BY <1>1, <1>2, HandlerAlone DEF SInv
<1>5. reg \in Registry /\ DOMAIN reg.tasks = 1 .. Len(reg.tasks) /\ i \in 1 .. Len(reg.tasks)
      /\ reg.tasks[i].task_id = id /\ reg.tasks[i].app_id \in Apps
  <2>1. reg \in Registry
    BY DEF TypedStable, Typed, TypeOK
  <2>2. DOMAIN reg.tasks = 1 .. Len(reg.tasks) /\ i \in 1 .. Len(reg.tasks) /\ reg.tasks[i].task_id = id
    BY Zenon, <2>1, LookupById, RegistryParts
  <2> QED BY Zenon, <2>1, <2>2, RegistryParts DEF TaskRecord
<1>6. BoundTo(reg, reg.tasks[i].app_id, reg.tasks[i].runtime)
  BY <1>5 DEF BoundTo
<1>7. /\ SessionsOf(reg.tasks[i].app_id) \subseteq {reg.tasks[i].runtime}
      /\ reg.tasks[i].runtime = 0 => ~Running(reg.tasks[i].app_id)
  BY <1>2, <1>4, <1>5, <1>6, OnlyRuntime DEF Alone
<1>8. \A j \in 1 .. Len(reg.tasks) : reg.tasks[j].task_id = id => reg.tasks[j].app_id = reg.tasks[i].app_id
  BY <1>5 DEF SInv, Restorable, UniqueIds
<1>9. CarriedOver(t)'
  <2>1. /\ SessionsOf(thread[t].app)' \subseteq {thread'[t].token}
        /\ thread'[t].token = 0 => ~Running(thread[t].app)'
    BY <1>2, <1>3, <1>4, <1>7 DEF SessionsOf, Running
  <2>2. \A j \in 1 .. Len(reg'.tasks) : reg'.tasks[j].task_id = thread'[t].id => reg'.tasks[j].app_id = thread'[t].app
    BY <1>2, <1>3, <1>4, <1>8
  <2>3. thread'[t].pc \in {"close_mark", "close"}
    BY <1>3, <1>4
  <2> QED BY <2>1, <2>2, <2>3 DEF CarriedOver, Evicting
<1>10. thread[t].pc \notin Marking /\ thread[t].pc # "finish"
  BY <1>2 DEF Marking
<1> QED BY Zenon, <1>2, <1>4, <1>9, <1>10, QuietStep, SequenceType

LEMMA PlanKeeps ==
    ASSUME TypedStable, SInv, NEW t \in Threads, Plan(t)
    PROVE  SInv'
<1> DEFINE r == thread[t]
           I == ByApp(reg.tasks, r.app)
           oldest == reg.tasks[1]
           full == I = {} /\ Len(reg.tasks) = Capacity
           q1 == [r EXCEPT !.pc = "activate", !.id = reg.tasks[TheIndex(I)].task_id,
                           !.token = reg.tasks[TheIndex(I)].runtime]
           q2 == [r EXCEPT !.version = installed[r.app],
                           !.id = IF full THEN oldest.task_id ELSE 0,
                           !.victim = IF full THEN oldest.app_id ELSE "none",
                           !.pc = IF ~full THEN "launch"
                                  ELSE IF oldest.state \in Resident THEN "evict_mark"
                                  ELSE "evict"]
<1>1. /\ reg \in Registry /\ r \in ThreadRecord /\ r.pc = "plan" /\ ~At(t, "idle")
      /\ UNCHANGED <<reg, runtime_sequence, sessions, foreground, monitor, unit>>
  BY CarriedParts DEF TypedStable, Typed, TypeOK, Plan, At, runtimeVars
<1>2. Goto(t, Idle) \/ Goto(t, q1) \/ Goto(t, q2)
  BY Zenon DEF Plan, Return
<1>3. Idle.pc = "idle" /\ q1.pc = "activate"
  BY <1>1 DEF Idle, ThreadRecord
<1>4. /\ q2.pc = IF ~full THEN "launch" ELSE IF oldest.state \in Resident THEN "evict_mark" ELSE "evict"
      /\ full => q2.id = oldest.task_id /\ q2.victim = oldest.app_id
  BY <1>1 DEF ThreadRecord
<1> HIDE DEF q1, q2
<1>5. CASE Goto(t, Idle) \/ Goto(t, q1) \/ (Goto(t, q2) /\ ~full)
  BY <1>1, <1>3, <1>4, <1>5, PlainStep, SequenceType
<1>6. CASE Goto(t, q2) /\ full
  <2>1. Alone(t) /\ thread'[t] = q2 /\ OneHandler'
    BY Zenon, <1>1, <1>6, HandlerAlone DEF SInv
  <2>2. 1 \in 1 .. Len(reg.tasks) /\ 1 \in DOMAIN reg.tasks /\ oldest.app_id \in Apps /\ Len(reg.tasks) = Capacity
    <3>1. 1 \in 1 .. Len(reg.tasks)
      BY <1>6, CapacityAssumption
    <3> QED BY <1>1, <1>6, <3>1, RegistryParts DEF TaskRecord
  <2>3. oldest.state \notin Resident => SessionsOf(oldest.app_id) = {} /\ ~Running(oldest.app_id)
    <3>1. oldest.state \notin Resident => oldest.runtime = 0
      BY <2>2 DEF SInv, Restorable, ResidentIffBound
    <3>2. oldest.runtime = 0 => BoundTo(reg, oldest.app_id, 0)
      BY <2>2 DEF BoundTo
    <3> HIDE DEF oldest
    <3>3. oldest.runtime = 0 => SessionsOf(oldest.app_id) = {} /\ ~Running(oldest.app_id)
      BY <1>1, <2>1, <2>2, <3>2, OnlyRuntime DEF Alone
    <3> QED BY <3>1, <3>3
  <2> HIDE DEF full
  <2>4. CarriedOver(t)'
    <3>1. reg' = reg /\ thread'[t].id = oldest.task_id /\ thread'[t].victim = oldest.app_id
          /\ thread'[t].pc = IF oldest.state \in Resident THEN "evict_mark" ELSE "evict"
      BY <1>1, <1>4, <1>6, <2>1
    <3>2. thread'[t].pc = "evict" => SessionsOf(thread[t].victim)' = {} /\ ~Running(thread[t].victim)'
      BY <1>1, <2>3, <3>1 DEF SessionsOf, Running
    <3>3. Len(reg'.tasks) = Capacity /\ reg'.tasks[1].task_id = thread'[t].id /\ reg'.tasks[1].app_id = thread'[t].victim
      BY <2>2, <3>1
    <3>4. thread'[t].pc \in {"evict_mark", "evict"}
      BY <3>1
    <3> QED BY <3>2, <3>3, <3>4 DEF CarriedOver, Evicting
  <2>5. thread[t].pc \notin Marking /\ thread[t].pc # "finish"
    BY <1>1 DEF Marking
  <2> QED BY Zenon, <1>1, <2>1, <2>4, <2>5, QuietStep, SequenceType
<1> QED BY <1>2, <1>5, <1>6

(* An activation changes no card. *)
LEMMA SameCardsBound ==
    ASSUME NEW r, NEW s, SameCards(r, s), NEW a, NEW k, BoundTo(r, a, k)
    PROVE  BoundTo(s, a, k)
BY DEF SameCards, BoundTo

LEMMA ActivateExistingKeeps ==
    ASSUME TypedStable, SInv, CountersLeft, NEW t \in Threads, ActivateExisting(t)
    PROVE  SInv'
<1> DEFINE r == thread[t]
           q == [r EXCEPT !.pc = "set_foreground"]
<1>1. /\ reg \in Registry /\ Restorable(reg) /\ Left(reg) /\ r \in ThreadRecord
      /\ r.pc = "activate" /\ ~At(t, "idle") /\ TypeOK /\ UnitsSound /\ MonitorsSound
      /\ UNCHANGED <<runtime_sequence, sessions, foreground, monitor, unit>>
  BY CarriedParts DEF TypedStable, Typed, TypeOK, ActivateExisting, At, runtimeVars, SInv, CountersLeft, Left
<1>2. CASE ~CanActivate(reg, r.id)
  <2>1. reg' = reg /\ Goto(t, Idle) /\ Idle.pc = "idle"
    BY <1>2 DEF ActivateExisting, Return, Idle
  <2> QED BY <1>1, <2>1, PlainStep, SequenceType
<1>3. CASE CanActivate(reg, r.id)
  <2>1. reg' = Activate(reg, r.id) /\ Goto(t, q)
    BY Zenon, <1>3 DEF ActivateExisting
  <2>2. q.pc = "set_foreground"
    BY <1>1 DEF ThreadRecord
  <2> HIDE DEF q
  <2>3. Restorable(reg') /\ SameCards(reg, reg')
    BY <1>1, <1>3, <2>1, ActivateCards
  <2>4. Alone(t) /\ thread'[t] = q /\ OneHandler'
    BY <1>1, <2>1, HandlerAlone DEF SInv
  <2>5. \A u \in Threads : CarriedOver(u)'
    <3>1. CarriedOver(t)'
      BY <2>2, <2>4 DEF CarriedOver, Evicting
    <3> QED BY <2>4, <3>1, CarriedByAll
  <2>6. SessionHasTask'
    <3>1. \A k \in DOMAIN sessions : BoundTo(reg, sessions[k].app, k)
      BY <1>1, <2>4, SessionsBound DEF Alone
    <3> QED BY <1>1, <2>3, <3>1, SameCardsBound DEF SessionHasTask
  <2>7. MarkHasHandler'
    <3>1. \A k \in DOMAIN sessions : ~sessions[k].explicit_stop
      BY <1>1, <2>4, MarksAreMine DEF Alone, Marking
    <3> QED BY <1>1, <3>1 DEF MarkHasHandler
  <2>8. MonitorsSound'
    BY <1>1, MonitorsKept
  <2>9. UnitsSound'
    <3>1. \A a \in Apps : Running(a) => BoundTo(reg', a, unit[a].token)
      BY Zenon, <1>1, <2>3, SameCardsBound DEF UnitsSound
    <3> QED BY Zenon, <1>1, <3>1, UnitsKept, SequenceType DEF TypeOK
  <2>10. ForegroundHasSession'
    BY <1>1 DEF SInv, ForegroundHasSession
  <2> QED BY Zenon, <2>3, <2>4, <2>5, <2>6, <2>7, <2>8, <2>9, <2>10 DEF SInv
<1> QED BY <1>2, <1>3

LEMMA SetForegroundKeeps ==
    ASSUME TypedStable, SInv, NEW t \in Threads, SetForegroundRuntime(t)
    PROVE  SInv'
<1>1. /\ thread[t].pc = "set_foreground" /\ ~At(t, "idle") /\ TypeOK /\ UnitsSound /\ MonitorsSound
      /\ UNCHANGED <<reg, runtime_sequence, sessions, monitor, unit>> /\ Goto(t, Idle)
  BY Zenon DEF TypedStable, Typed, SetForegroundRuntime, At, SInv, Return
<1>2. Alone(t) /\ thread'[t] = Idle /\ OneHandler'
  BY <1>1, HandlerAlone DEF SInv
<1>3. \A u \in Threads : CarriedOver(u)'
  <2>1. CarriedOver(t)'
    BY <1>2 DEF CarriedOver, Evicting, Idle
  <2> QED BY <1>2, <2>1, CarriedByAll
<1>4. SessionHasTask'
  <2>1. \A k \in DOMAIN sessions : BoundTo(reg, sessions[k].app, k)
    BY <1>1, <1>2, SessionsBound DEF Alone
  <2> QED BY <1>1, <2>1 DEF SessionHasTask
<1>5. MarkHasHandler'
  <2>1. \A k \in DOMAIN sessions : ~sessions[k].explicit_stop
    BY <1>1, <1>2, MarksAreMine DEF Alone, Marking
  <2> QED BY <1>1, <2>1 DEF MarkHasHandler
<1>6. MonitorsSound'
  BY <1>1, MonitorsKept
<1>7. UnitsSound'
  BY <1>1, UnitsKept, SequenceType DEF TypeOK, UnitsSound
<1>8. ForegroundHasSession'
  <2>1. foreground' = foreground \/ foreground' \in DOMAIN sessions
    BY DEF SetForegroundRuntime
  <2> QED BY <1>1, <2>1 DEF SInv, ForegroundHasSession
<1>9. Restorable(reg')
  BY <1>1 DEF SInv
<1> QED BY Zenon, <1>2, <1>3, <1>4, <1>5, <1>6, <1>7, <1>8, <1>9 DEF SInv

(* mark_explicit_stop: the one session of the application is marked, by    *)
(* thread t, which carries its token.                                      *)
LEMMA MarkStep ==
    ASSUME TypedStable, SInv, NEW t \in Threads, Alone(t), OneHandler', CarriedOver(t)',
           thread[t].pc \notin Marking, NEW app, Mark(app),
           SessionsOf(app) # {} => thread'[t].token = Marked(app), thread'[t].pc \in Marking,
           UNCHANGED <<reg, runtime_sequence, foreground, monitor, unit>>
    PROVE  SInv'
<1>1. TypeOK /\ UnitsSound /\ MonitorsSound /\ Restorable(reg)' /\ runtime_sequence \in Nat \ {0}
      /\ \A u \in Threads \ {t} : thread[u].pc = "idle"
  BY Zenon DEF TypedStable, Typed, TypeOK, SInv, Alone
<1>2. /\ DOMAIN sessions' = DOMAIN sessions
      /\ \A k \in DOMAIN sessions :
            /\ sessions'[k].app = sessions[k].app
            /\ sessions'[k].explicit_stop = IF k = Marked(app) THEN TRUE ELSE sessions[k].explicit_stop
      /\ SessionsOf(app) # {} => Marked(app) \in SessionsOf(app)
  BY Zenon, <1>1, MarkTyped
<1>3. \A u \in Threads : CarriedOver(u)'
  BY CarriedByAll
<1>4. SessionHasTask'
  <2>1. \A k \in DOMAIN sessions : BoundTo(reg, sessions[k].app, k)
    BY <1>1, SessionsBound DEF Marking
  <2> QED BY Zenon, <1>2, <2>1 DEF SessionHasTask
<1>5. MarkHasHandler'
  <2>1. \A k \in DOMAIN sessions : ~sessions[k].explicit_stop
    BY <1>1, MarksAreMine
  <2>2. ASSUME NEW k \in DOMAIN sessions', sessions'[k].explicit_stop PROVE MarkedBy(k)'
    <3>1. k = Marked(app)
      BY Zenon, <1>2, <2>1, <2>2
    <3>2. SessionsOf(app) # {}
      BY <1>1, <1>2, <2>2, <3>1 DEF Marked, TypeOK
    <3> QED BY <3>1, <3>2 DEF MarkedBy
  <2> QED BY <2>2 DEF MarkHasHandler
<1>6. MonitorsSound'
  BY <1>1, <1>2, MonitorsKept
<1>7. UnitsSound'
  BY <1>1, UnitsKept DEF TypeOK, UnitsSound
<1>8. ForegroundHasSession'
  BY <1>2 DEF SInv, ForegroundHasSession
<1> QED BY Zenon, <1>1, <1>3, <1>4, <1>5, <1>6, <1>7, <1>8 DEF SInv

LEMMA EvictMarkKeeps ==
    ASSUME TypedStable, SInv, NEW t \in Threads, EvictMark(t)
    PROVE  SInv'
<1> DEFINE r == thread[t]
           q == [r EXCEPT !.pc = "evict_stop", !.token = Marked(r.victim)]
<1>1. /\ r \in ThreadRecord /\ r.pc = "evict_mark" /\ ~At(t, "idle") /\ TypeOK
      /\ Mark(r.victim) /\ Goto(t, q) /\ UNCHANGED <<reg, runtime_sequence, foreground, monitor, unit>>
  BY CarriedParts DEF TypedStable, Typed, EvictMark, At
<1>2. q.pc = "evict_stop" /\ q.token = Marked(r.victim) /\ q.victim = r.victim /\ q.id = r.id
  BY <1>1 DEF ThreadRecord
<1> HIDE DEF q
<1>3. Alone(t) /\ thread'[t] = q /\ OneHandler'
  BY Zenon, <1>1, HandlerAlone DEF SInv
<1>4. CarriedOver(t)'
  <2>1. SessionsOf(r.victim) \subseteq {Marked(r.victim)}
    BY Zenon, <1>1, <1>3, OneSession DEF Alone
  <2>2. DOMAIN sessions' = DOMAIN sessions /\ \A k \in DOMAIN sessions : sessions'[k].app = sessions[k].app
    BY Zenon, <1>1, MarkTyped
  <2>3. SessionsOf(thread[t].victim)' \subseteq {thread'[t].token}
    BY Zenon, <1>2, <1>3, <2>1, <2>2 DEF SessionsOf
  <2>4. Len(reg.tasks) = Capacity /\ reg.tasks[1].task_id = r.id /\ reg.tasks[1].app_id = r.victim
    BY Zenon, <1>1 DEF SInv, CarriedOver, Evicting
  <2> QED BY Zenon, <1>1, <1>2, <1>3, <2>3, <2>4 DEF CarriedOver, Evicting
<1>5. thread[t].pc \notin Marking /\ thread'[t].pc \in Marking /\ thread'[t].token = Marked(r.victim)
  BY <1>1, <1>2, <1>3 DEF Marking
<1> QED BY <1>1, <1>3, <1>4, <1>5, MarkStep

LEMMA StopAppKeeps ==
    ASSUME TypedStable, SInv, NEW app \in Apps, StopApp(app)
    PROVE  SInv'
<1> DEFINE q == [Idle EXCEPT !.pc = "stop", !.app = app, !.token = Marked(app)]
           t == "control"
<1>1. /\ thread[t].pc = "idle" /\ Unlocked /\ TypeOK /\ t \in Threads
      /\ Mark(app) /\ Goto(t, q) /\ UNCHANGED <<reg, runtime_sequence, foreground, monitor, unit>>
  BY Zenon DEF TypedStable, Typed, StopApp, At, Threads
<1>2. q.pc = "stop" /\ q.token = Marked(app) /\ q.app = app
  BY DEF Idle
<1> HIDE DEF q
<1>3. Alone(t) /\ thread'[t] = q /\ OneHandler'
  BY <1>1, HandlerAlone DEF SInv
<1>4. CarriedOver(t)'
  <2>1. SessionsOf(app) \subseteq {Marked(app)}
    BY Zenon, <1>1, <1>3, OneSession DEF Alone
  <2>2. DOMAIN sessions' = DOMAIN sessions /\ \A k \in DOMAIN sessions : sessions'[k].app = sessions[k].app
    BY Zenon, <1>1, MarkTyped
  <2>3. SessionsOf(thread[t].app)' \subseteq {thread'[t].token}
    BY <1>2, <1>3, <2>1, <2>2 DEF SessionsOf
  <2> QED BY Zenon, <1>2, <1>3, <2>3 DEF CarriedOver, Evicting
<1>5. thread[t].pc \notin Marking /\ thread'[t].pc \in Marking /\ thread'[t].token = Marked(app)
  BY <1>1, <1>2, <1>3 DEF Marking
<1> QED BY Zenon, <1>1, <1>3, <1>4, <1>5, MarkStep

LEMMA CloseMarkKeeps ==
    ASSUME TypedStable, SInv, CloseMark
    PROVE  SInv'
<1> DEFINE t == "control"
           r == thread[t]
           q == [r EXCEPT !.pc = "close"]
<1>1. /\ t \in Threads /\ r \in ThreadRecord /\ r.pc = "close_mark" /\ ~At(t, "idle") /\ TypeOK
      /\ Mark(r.app) /\ Goto(t, q) /\ UNCHANGED <<reg, runtime_sequence, foreground, monitor, unit>>
  BY Zenon, CarriedParts DEF TypedStable, Typed, CloseMark, At, Threads
<1>2. q.pc = "close" /\ q.token = r.token /\ q.app = r.app /\ q.id = r.id
  BY <1>1 DEF ThreadRecord
<1> HIDE DEF q
<1>3. Alone(t) /\ thread'[t] = q /\ OneHandler'
  BY Zenon, <1>1, HandlerAlone DEF SInv
<1>4. /\ SessionsOf(r.app) \subseteq {r.token}
      /\ r.token = 0 => ~Running(r.app)
      /\ \A i \in 1 .. Len(reg.tasks) : reg.tasks[i].task_id = r.id => reg.tasks[i].app_id = r.app
  BY Zenon, <1>1 DEF SInv, CarriedOver
<1>5. /\ DOMAIN sessions' = DOMAIN sessions /\ \A k \in DOMAIN sessions : sessions'[k].app = sessions[k].app
      /\ SessionsOf(r.app) # {} => Marked(r.app) \in SessionsOf(r.app)
  BY Zenon, <1>1, MarkTyped
<1>6. CarriedOver(t)'
  <2>1. SessionsOf(thread[t].app)' \subseteq {thread'[t].token}
    BY Zenon, <1>2, <1>3, <1>4, <1>5 DEF SessionsOf
  <2>2. thread'[t].token = 0 => ~Running(thread[t].app)'
    BY Zenon, <1>1, <1>2, <1>3, <1>4 DEF Running
  <2>3. \A i \in 1 .. Len(reg'.tasks) : reg'.tasks[i].task_id = thread'[t].id => reg'.tasks[i].app_id = thread'[t].app
    BY Zenon, <1>1, <1>2, <1>3, <1>4
  <2> QED BY Zenon, <1>2, <1>3, <2>1, <2>2, <2>3 DEF CarriedOver, Evicting
<1>7. thread[t].pc \notin Marking /\ thread'[t].pc \in Marking
  BY Zenon, <1>1, <1>2, <1>3 DEF Marking
<1>8. SessionsOf(r.app) # {} => thread'[t].token = Marked(r.app)
  BY Zenon, <1>2, <1>3, <1>4, <1>5
<1> QED BY Zenon, <1>1, <1>3, <1>6, <1>7, <1>8, MarkStep

LEMMA EvictStopKeeps ==
    ASSUME TypedStable, SInv, NEW t \in Threads, EvictStop(t)
    PROVE  SInv'
<1> DEFINE r == thread[t]
           q1 == [r EXCEPT !.pc = "cancel"]
           q2 == [r EXCEPT !.pc = "evict_finish"]
<1>1. /\ r \in ThreadRecord /\ r.victim \in Apps /\ r.pc = "evict_stop" /\ ~At(t, "idle")
      /\ TypeOK /\ UnitsSound /\ MonitorsSound
      /\ UNCHANGED <<reg, runtime_sequence, sessions, foreground, monitor>>
  BY CarriedParts DEF TypedStable, Typed, EvictStop, At, runtimeVars, SInv, CarriedTypes, Evicting
<1>2. /\ q1.pc = "cancel" /\ q1.token = r.token
      /\ q2.pc = "evict_finish" /\ q2.token = r.token /\ q2.victim = r.victim /\ q2.id = r.id
  BY <1>1 DEF ThreadRecord
<1>3. \/ UNCHANGED unit /\ Goto(t, q1)
      \/ StopUnit(r.victim) /\ Goto(t, q2)
  BY DEF EvictStop
<1> HIDE DEF q1, q2
<1>4. CASE UNCHANGED unit /\ Goto(t, q1)
  BY <1>1, <1>2, <1>4, PlainStep, SequenceType
<1>5. CASE StopUnit(r.victim) /\ Goto(t, q2)
  <2>1. Alone(t) /\ thread'[t] = q2 /\ OneHandler'
    BY Zenon, <1>1, <1>5, HandlerAlone DEF SInv
  <2>2. /\ \A a \in Apps : unit'[a] \in {unit[a], NoUnit}
        /\ unit'[r.victim] = NoUnit
    BY Zenon, <1>1, <1>5, UnitStopped
  <2>3. CarriedOver(t)'
    <3>1. /\ Len(reg.tasks) = Capacity /\ reg.tasks[1].task_id = r.id /\ reg.tasks[1].app_id = r.victim
          /\ SessionsOf(r.victim) \subseteq {r.token}
      BY Zenon, <1>1 DEF SInv, CarriedOver, Evicting
    <3>2. ~Running(thread[t].victim)'
      BY <1>2, <2>1, <2>2 DEF Running, NoUnit
    <3>3. SessionsOf(thread[t].victim)' \subseteq {thread'[t].token}
      BY <1>1, <1>2, <2>1, <3>1 DEF SessionsOf
    <3> QED BY Zenon, <1>1, <1>2, <2>1, <3>1, <3>2, <3>3 DEF CarriedOver, Evicting
  <2>4. \A u \in Threads : CarriedOver(u)'
    BY <2>1, <2>3, CarriedByAll
  <2>5. SessionHasTask'
    <3>1. \A k \in DOMAIN sessions : BoundTo(reg, sessions[k].app, k)
      BY <1>1, <2>1, SessionsBound DEF Alone
    <3> QED BY <1>1, <3>1 DEF SessionHasTask
  <2>6. MarkHasHandler'
    <3>1. ASSUME NEW k \in DOMAIN sessions', sessions'[k].explicit_stop PROVE MarkedBy(k)'
      <4>1. thread[t].token = k
        BY <1>1, <2>1, <3>1, MarksAreMine DEF Alone
      <4> QED BY <1>2, <2>1, <4>1 DEF MarkedBy, Marking
    <3> QED BY <3>1 DEF MarkHasHandler
  <2>7. MonitorsSound'
    BY Zenon, <1>1, <2>2, MonitorsKept
  <2>8. UnitsSound'
    BY Zenon, <1>1, <2>2, UnitsKept, SequenceType DEF TypeOK, UnitsSound
  <2>9. ForegroundHasSession' /\ Restorable(reg')
    BY Zenon, <1>1 DEF SInv, ForegroundHasSession
  <2> QED BY Zenon, <2>1, <2>4, <2>5, <2>6, <2>7, <2>8, <2>9 DEF SInv
<1> QED BY <1>3, <1>4, <1>5

(* take_runtime_end, at the end of an eviction or of a stop: the session   *)
(* the handler marked, and no other, goes.                                 *)
LEMMA TakeStep ==
    ASSUME TypedStable, SInv, NEW t \in Threads, Alone(t), OneHandler', CarriedOver(t)',
           thread[t].pc \in {"evict_finish", "finish"}, TakeRuntimeEnd(thread[t].token),
           UNCHANGED <<reg, runtime_sequence, monitor, unit>>
    PROVE  SInv'
<1>1. TypeOK /\ UnitsSound /\ MonitorsSound /\ Restorable(reg)' /\ runtime_sequence \in Nat \ {0}
      /\ ForegroundHasSession /\ \A u \in Threads \ {t} : thread[u].pc = "idle"
  BY Zenon DEF TypedStable, Typed, TypeOK, SInv, Alone
<1>2. /\ DOMAIN sessions' = DOMAIN sessions \ {thread[t].token}
      /\ \A j \in DOMAIN sessions \ {thread[t].token} : sessions'[j] = sessions[j]
      /\ foreground' \in {0, foreground}
      /\ foreground' # 0 => foreground' # thread[t].token
  BY Zenon, <1>1, TakeTyped
<1>3. \A u \in Threads : CarriedOver(u)'
  BY CarriedByAll
<1>4. SessionHasTask'
  <2>1. ASSUME NEW k \in DOMAIN sessions, k # thread[t].token PROVE BoundTo(reg, sessions[k].app, k)
    <3>1. ~Finishing(k)
      BY <1>1, <2>1 DEF Finishing
    <3> QED BY <3>1 DEF SInv, SessionHasTask
  <2> QED BY <1>2, <2>1 DEF SessionHasTask
<1>5. MarkHasHandler'
  <2>1. ASSUME NEW k \in DOMAIN sessions, k # thread[t].token PROVE ~sessions[k].explicit_stop
    BY <1>1, <2>1, MarksAreMine
  <2> QED BY <1>2, <2>1 DEF MarkHasHandler
<1>6. MonitorsSound'
  BY Zenon, <1>1, <1>2, MonitorsKept
<1>7. UnitsSound'
  BY <1>1, UnitsKept DEF TypeOK, UnitsSound
<1>8. ForegroundHasSession'
  BY Zenon, <1>1, <1>2 DEF ForegroundHasSession
<1> QED BY Zenon, <1>1, <1>3, <1>4, <1>5, <1>6, <1>7, <1>8 DEF SInv

LEMMA EvictFinishKeeps ==
    ASSUME TypedStable, SInv, NEW t \in Threads, EvictFinish(t)
    PROVE  SInv'
<1> DEFINE r == thread[t]
           q == [r EXCEPT !.pc = "evict"]
<1>1. /\ r \in ThreadRecord /\ r.pc = "evict_finish" /\ ~At(t, "idle") /\ TypeOK /\ TakeRuntimeEnd(r.token)
      /\ UNCHANGED <<reg, runtime_sequence, monitor, unit>> /\ Goto(t, q)
  BY CarriedParts DEF TypedStable, Typed, EvictFinish, At
<1>2. q.pc = "evict" /\ q.victim = r.victim /\ q.id = r.id
  BY <1>1 DEF ThreadRecord
<1> HIDE DEF q
<1>3. Alone(t) /\ thread'[t] = q /\ OneHandler'
  BY Zenon, <1>1, HandlerAlone DEF SInv
<1>4. CarriedOver(t)'
  <2>1. /\ Len(reg.tasks) = Capacity /\ reg.tasks[1].task_id = r.id /\ reg.tasks[1].app_id = r.victim
        /\ SessionsOf(r.victim) \subseteq {r.token} /\ ~Running(r.victim)
    BY Zenon, <1>1 DEF SInv, CarriedOver, Evicting
  <2>2. /\ DOMAIN sessions' = DOMAIN sessions \ {r.token}
        /\ \A j \in DOMAIN sessions \ {r.token} : sessions'[j] = sessions[j]
    BY Zenon, <1>1, TakeTyped
  <2>3. SessionsOf(thread[t].victim)' = {}
    BY <1>2, <1>3, <2>1, <2>2 DEF SessionsOf
  <2>4. ~Running(thread[t].victim)'
    BY Zenon, <1>1, <1>2, <1>3, <2>1 DEF Running
  <2> QED BY Zenon, <1>1, <1>2, <1>3, <2>1, <2>3, <2>4 DEF CarriedOver, Evicting
<1> QED BY <1>1, <1>3, <1>4, TakeStep

LEMMA FinishKeeps ==
    ASSUME TypedStable, SInv, FinishExplicitStop
    PROVE  SInv'
<1> DEFINE t == "control"
<1>1. /\ t \in Threads /\ thread[t].pc = "finish" /\ ~At(t, "idle") /\ TakeRuntimeEnd(thread[t].token)
      /\ UNCHANGED <<reg, runtime_sequence, monitor, unit>> /\ Goto(t, Idle)
  BY DEF FinishExplicitStop, At, Threads, Return
<1>2. Alone(t) /\ thread'[t] = Idle /\ OneHandler'
  BY <1>1, HandlerAlone DEF SInv
<1>3. CarriedOver(t)'
  BY <1>2 DEF CarriedOver, Evicting, Idle
<1> QED BY Zenon, <1>1, <1>2, <1>3, TakeStep

LEMMA CancelKeeps ==
    ASSUME TypedStable, SInv, NEW t \in Threads, CancelExplicitStop(t)
    PROVE  SInv'
<1>1. /\ thread[t].pc = "cancel" /\ ~At(t, "idle") /\ TypeOK /\ UnitsSound /\ MonitorsSound
      /\ UNCHANGED <<reg, runtime_sequence, foreground, monitor, unit>> /\ Goto(t, Idle)
  BY Zenon DEF TypedStable, Typed, CancelExplicitStop, At, SInv, Return
<1>2. Alone(t) /\ thread'[t] = Idle /\ OneHandler'
  BY <1>1, HandlerAlone DEF SInv
<1>3. \A u \in Threads : CarriedOver(u)'
  <2>1. CarriedOver(t)'
    BY <1>2 DEF CarriedOver, Evicting, Idle
  <2> QED BY <1>2, <2>1, CarriedByAll
<1>4. /\ DOMAIN sessions' = DOMAIN sessions
      /\ \A k \in DOMAIN sessions : /\ sessions'[k].app = sessions[k].app
                                    /\ k = thread[t].token => ~sessions'[k].explicit_stop
                                    /\ k # thread[t].token => sessions'[k] = sessions[k]
  <2>1. sessions' = [k \in DOMAIN sessions |->
                        IF k = thread[t].token THEN [sessions[k] EXCEPT !.explicit_stop = FALSE] ELSE sessions[k]]
    BY DEF CancelExplicitStop
  <2>2. \A k \in DOMAIN sessions : sessions[k] \in [app : Apps, explicit_stop : BOOLEAN]
    BY Zenon, <1>1 DEF TypeOK
  <2> QED BY <2>1, <2>2
<1>5. SessionHasTask'
  <2>1. \A k \in DOMAIN sessions : BoundTo(reg, sessions[k].app, k)
    BY <1>1, <1>2, SessionsBound DEF Alone
  <2> QED BY Zenon, <1>1, <1>4, <2>1 DEF SessionHasTask
<1>6. MarkHasHandler'
  <2>1. ASSUME NEW k \in DOMAIN sessions, k # thread[t].token PROVE ~sessions[k].explicit_stop
    BY <1>2, <2>1, MarksAreMine DEF Alone
  <2> QED BY <1>4, <2>1 DEF MarkHasHandler
<1>7. MonitorsSound'
  BY Zenon, <1>1, <1>4, MonitorsKept
<1>8. UnitsSound'
  BY Zenon, <1>1, UnitsKept, SequenceType DEF TypeOK, UnitsSound
<1>9. ForegroundHasSession' /\ Restorable(reg')
  BY Zenon, <1>1, <1>4 DEF SInv, ForegroundHasSession
<1> QED BY Zenon, <1>2, <1>3, <1>5, <1>6, <1>7, <1>8, <1>9 DEF SInv

-----------------------------------------------------------------------------
(* The steps of a handler that change the cards of the registry.           *)

LEMMA EvictKeeps ==
    ASSUME TypedStable, SInv, NEW t \in Threads, Evict(t)
    PROVE  SInv'
<1> DEFINE r == thread[t]
           q == [r EXCEPT !.pc = "launch"]
<1>1. /\ r \in ThreadRecord /\ r.pc = "evict" /\ ~At(t, "idle") /\ TypeOK /\ reg \in Registry
      /\ Restorable(reg) /\ UnitsSound /\ MonitorsSound
      /\ UNCHANGED <<runtime_sequence, sessions, foreground, monitor, unit>>
  BY Zenon, CarriedParts DEF TypedStable, Typed, TypeOK, Evict, At, runtimeVars, SInv
<1>2. CASE ~CanEvict(reg, r.id)
  <2>1. reg' = reg /\ Goto(t, Idle) /\ Idle.pc = "idle"
    BY <1>2 DEF Evict, Return, Idle
  <2> QED BY Zenon, <1>1, <2>1, PlainStep, SequenceType
<1>3. CASE CanEvict(reg, r.id)
  <2>1. reg' = EvictCapacityVictim(reg, r.id) /\ Goto(t, q)
    BY Zenon, <1>3 DEF Evict
  <2>2. q.pc = "launch"
    BY <1>1 DEF ThreadRecord
  <2> HIDE DEF q
  <2>3. Removes(reg, reg', 1)
    BY Zenon, <1>1, <1>3, <2>1, EvictRemoves
  <2>4. reg.tasks[1].app_id = r.victim /\ SessionsOf(r.victim) = {} /\ ~Running(r.victim)
    BY Zenon, <1>1 DEF SInv, CarriedOver, Evicting
  <2>5. Restorable(reg') /\ \A a, j : BoundTo(reg, a, j) /\ a # r.victim => BoundTo(reg', a, j)
    BY Zenon, <1>1, <2>3, <2>4, RemovalCards
  <2>6. Alone(t) /\ thread'[t] = q /\ OneHandler'
    BY Zenon, <1>1, <2>1, HandlerAlone DEF SInv
  <2>7. \A u \in Threads : CarriedOver(u)'
    <3>1. CarriedOver(t)'
      BY Zenon, <2>2, <2>6 DEF CarriedOver, Evicting
    <3> QED BY <2>6, <3>1, CarriedByAll
  <2>8. SessionHasTask'
    <3>1. \A k \in DOMAIN sessions : BoundTo(reg, sessions[k].app, k)
      BY Zenon, <1>1, <2>6, SessionsBound DEF Alone
    <3>2. \A k \in DOMAIN sessions : sessions[k].app # r.victim
      BY <2>4 DEF SessionsOf
    <3> QED BY Zenon, <1>1, <2>5, <3>1, <3>2 DEF SessionHasTask
  <2>9. MarkHasHandler'
    <3>1. \A k \in DOMAIN sessions : ~sessions[k].explicit_stop
      BY <1>1, <2>6, MarksAreMine DEF Alone, Marking
    <3> QED BY <1>1, <3>1 DEF MarkHasHandler
  <2>10. MonitorsSound'
    BY <1>1, MonitorsKept
  <2>11. UnitsSound'
    <3>1. \A a \in Apps : Running(a) => BoundTo(reg', a, unit[a].token)
      BY Zenon, <1>1, <2>4, <2>5 DEF UnitsSound
    <3> QED BY Zenon, <1>1, <3>1, UnitsKept, SequenceType DEF TypeOK
  <2>12. ForegroundHasSession'
    BY <1>1 DEF SInv, ForegroundHasSession
  <2> QED BY Zenon, <2>5, <2>6, <2>7, <2>8, <2>9, <2>10, <2>11, <2>12 DEF SInv
<1> QED BY <1>2, <1>3

LEMMA LaunchKeepsSessions ==
    ASSUME TypedStable, SInv, CountersLeft, NEW t \in Threads, Launch(t)
    PROVE  SInv'
<1> DEFINE r == thread[t]
           n == runtime_sequence
           q == [r EXCEPT !.pc = "monitor", !.token = n]
<1>1. /\ r \in ThreadRecord /\ r.app \in Apps /\ r.version \in Versions /\ r.pc = "launch"
      /\ ~At(t, "idle") /\ TypeOK /\ UnitsSound /\ MonitorsSound
  BY CarriedParts DEF TypedStable, Typed, Launch, At, SInv, CarriedTypes, Evicting
<1>2. /\ reg \in Registry /\ TokensBelow(reg, n) /\ Restorable(reg) /\ Left(reg)
      /\ n \in Nat \ {0} /\ n' = n + 1 /\ UNCHANGED <<sessions, foreground, monitor>>
      /\ unit \in [Apps -> [token : Nat, version : Versions \cup {NoVersion}]]
      /\ DOMAIN sessions \cup DOMAIN monitor \subseteq 1 .. n - 1
  BY DEF TypedStable, Typed, TypeOK, WellFormed, Launch, FetchAdd, runtimeVars, SInv, CountersLeft, Left
<1>3. CASE UNCHANGED <<reg, unit>> /\ Goto(t, Idle)
  <2>1. Idle.pc = "idle" /\ n' \in Nat /\ n <= n'
    BY <1>2 DEF Idle
  <2> QED BY Zenon, <1>1, <1>2, <1>3, <2>1, PlainStep
<1>4. CASE /\ CanRelaunch(reg, r.app) \/ CanLaunchNew(reg, r.app, 0)
           /\ unit' = [unit EXCEPT ![r.app] = [token |-> n, version |-> installed[r.app]]]
           /\ reg' = IF CanRelaunch(reg, r.app) THEN Relaunch(reg, r.app, r.version, n)
                     ELSE LaunchNew(reg, r.app, r.version, n, 0)
           /\ Goto(t, q)
  <2>1. q.pc = "monitor" /\ q.token = n /\ q.app = r.app
    BY Zenon, <1>1 DEF ThreadRecord
  <2> HIDE DEF q
  <2>2. Alone(t) /\ thread'[t] = q /\ OneHandler'
    BY Zenon, <1>1, <1>4, HandlerAlone DEF SInv
  <2>3. LaunchedCards(reg, reg', r.app, n)
    <3>1. CASE CanRelaunch(reg, r.app)
      BY Zenon, <1>1, <1>2, <1>4, <3>1, RelaunchCards
    <3>2. CASE ~CanRelaunch(reg, r.app) /\ CanLaunchNew(reg, r.app, 0)
      BY Zenon, <1>1, <1>2, <1>4, <3>2, LaunchNewCards
    <3> QED BY Zenon, <1>4, <3>1, <3>2
  <2>4. /\ Restorable(reg') /\ BoundTo(reg', r.app, n)
        /\ \A a, j : BoundTo(reg, a, j) /\ a # r.app => BoundTo(reg', a, j)
        /\ \A j : BoundTo(reg, r.app, j) => j = 0
    BY Zenon, <2>3 DEF LaunchedCards
  <2>5. unit'[r.app].token = n /\ \A a \in Apps \ {r.app} : unit'[a] = unit[a]
    BY Zenon, <1>1, <1>2, <1>4
  <2>6. n \notin DOMAIN sessions \cup DOMAIN monitor
    BY <1>2
  <2>7. \A a \in Apps \ {r.app} : unit[a].token < n /\ unit[a].token \in Nat
    BY Zenon, <1>1, <1>2 DEF UnitsSound
  <2>8. CarriedOver(t)'
    <3>1. \A a \in Apps : unit'[a].token = n => a = r.app
      BY <1>2, <2>5, <2>7
    <3> QED BY Zenon, <1>2, <2>1, <2>2, <2>4, <2>6, <3>1 DEF CarriedOver, Evicting
  <2>9. \A u \in Threads : CarriedOver(u)'
    BY Zenon, <2>2, <2>8, CarriedByAll
  <2>10. SessionHasTask'
    <3>1. \A k \in DOMAIN sessions : BoundTo(reg, sessions[k].app, k)
      BY Zenon, <1>1, <2>2, SessionsBound DEF Alone
    <3>2. \A k \in DOMAIN sessions : k # 0
      BY <1>2
    <3>3. \A k \in DOMAIN sessions : BoundTo(reg', sessions[k].app, k)
      BY <2>4, <3>1, <3>2
    <3> QED BY Zenon, <1>2, <3>3 DEF SessionHasTask
  <2>11. MarkHasHandler'
    <3>1. \A k \in DOMAIN sessions : ~sessions[k].explicit_stop
      BY Zenon, <1>1, <2>2, MarksAreMine DEF Alone, Marking
    <3> QED BY <1>2, <3>1 DEF MarkHasHandler
  <2>12. MonitorsSound'
    <3>1. ASSUME NEW k \in DOMAIN monitor
          PROVE  /\ \A a \in Apps : unit'[a].token = k => a = monitor[k].app /\ monitor[k].pc = "wait"
                 /\ monitor[k].pc = "clean" => k \notin DOMAIN sessions
      BY Zenon, <1>1, <2>5, <2>6 DEF MonitorsSound
    <3> QED BY Zenon, <1>2, <3>1 DEF MonitorsSound
  <2>13. UnitsSound'
    <3>1. ASSUME NEW a \in Apps
          PROVE  unit'[a].token < n + 1 /\ (unit'[a].token # 0 => BoundTo(reg', a, unit'[a].token))
      <4>1. CASE a = r.app
        BY <1>2, <2>4, <2>5, <4>1
      <4>2. CASE a # r.app
        <5>1. unit'[a] = unit[a] /\ unit[a].token < n /\ unit[a].token \in Nat
          BY <2>5, <2>7, <4>2
        <5>2. unit[a].token # 0 => BoundTo(reg', a, unit[a].token)
          BY <1>1, <2>4, <4>2 DEF UnitsSound, Running
        <5> QED BY <1>2, <5>1, <5>2
      <4> QED BY Zenon, <4>1, <4>2
    <3> QED BY <1>2, <3>1 DEF UnitsSound, Running
  <2>14. ForegroundHasSession'
    BY <1>2 DEF SInv, ForegroundHasSession
  <2> QED BY Zenon, <2>2, <2>4, <2>9, <2>10, <2>11, <2>12, <2>13, <2>14 DEF SInv
<1> QED BY Zenon, <1>3, <1>4 DEF Launch, Return

LEMMA StartMonitorKeeps ==
    ASSUME TypedStable, SInv, NEW t \in Threads, StartRuntimeMonitor(t)
    PROVE  SInv'
<1> DEFINE r == thread[t]
<1>1. /\ r.pc = "monitor" /\ ~At(t, "idle") /\ TypeOK /\ UnitsSound /\ MonitorsSound
      /\ UNCHANGED <<reg, runtime_sequence, unit>> /\ Goto(t, Idle)
  BY Zenon DEF TypedStable, Typed, StartRuntimeMonitor, At, SInv, Return
<1>2. Alone(t) /\ thread'[t] = Idle /\ OneHandler'
  BY <1>1, HandlerAlone DEF SInv
<1>3. \A u \in Threads : CarriedOver(u)'
  <2>1. CarriedOver(t)'
    BY <1>2 DEF CarriedOver, Evicting, Idle
  <2> QED BY <1>2, <2>1, CarriedByAll
<1>4. /\ \A k \in DOMAIN sessions : BoundTo(reg, sessions[k].app, k)
      /\ \A k \in DOMAIN sessions : ~sessions[k].explicit_stop
  BY <1>1, <1>2, SessionsBound, MarksAreMine DEF Alone, Marking
<1>5. UnitsSound' /\ Restorable(reg')
  <2>1. UnitsSound'
    BY Zenon, <1>1, UnitsKept, SequenceType DEF TypeOK, UnitsSound
  <2> QED BY Zenon, <1>1, <2>1 DEF SInv
<1>6. CASE foreground' = 0 /\ UNCHANGED <<sessions, monitor>>
  <2>1. SessionHasTask' /\ MarkHasHandler'
    BY Zenon, <1>1, <1>4, <1>6 DEF SessionHasTask, MarkHasHandler
  <2>2. MonitorsSound'
    BY <1>1, <1>6, MonitorsKept
  <2>3. ForegroundHasSession'
    BY <1>6 DEF ForegroundHasSession
  <2> QED BY Zenon, <1>2, <1>3, <1>5, <2>1, <2>2, <2>3 DEF SInv
<1>7. CASE /\ sessions' = With(sessions, r.token, [app |-> r.app, explicit_stop |-> FALSE])
           /\ foreground' = r.token
           /\ monitor' = With(monitor, r.token, [app |-> r.app, pc |-> "wait", crashed |-> FALSE])
  <2>1. /\ DOMAIN sessions' = DOMAIN sessions \cup {r.token}
        /\ sessions'[r.token] = [app |-> r.app, explicit_stop |-> FALSE]
        /\ \A k \in DOMAIN sessions \ {r.token} : sessions'[k] = sessions[k]
        /\ DOMAIN monitor' = DOMAIN monitor \cup {r.token}
        /\ monitor'[r.token] = [app |-> r.app, pc |-> "wait", crashed |-> FALSE]
        /\ \A k \in DOMAIN monitor \ {r.token} : monitor'[k] = monitor[k]
    BY Zenon, <1>7 DEF With
  <2>2. /\ r.token \notin DOMAIN sessions \cup DOMAIN monitor
        /\ BoundTo(reg, r.app, r.token)
        /\ \A a \in Apps : unit[a].token = r.token => a = r.app
    BY Zenon, <1>1 DEF SInv, CarriedOver
  <2>3. SessionHasTask'
    <3>1. ASSUME NEW k \in DOMAIN sessions' PROVE BoundTo(reg, sessions'[k].app, k)
      <4>1. CASE k = r.token
        BY <2>1, <2>2, <4>1
      <4>2. CASE k # r.token
        BY Zenon, <1>4, <2>1, <4>2
      <4> QED BY <4>1, <4>2
    <3> QED BY <1>1, <3>1 DEF SessionHasTask
  <2>4. MarkHasHandler'
    <3>1. ASSUME NEW k \in DOMAIN sessions' PROVE ~sessions'[k].explicit_stop
      <4>1. CASE k = r.token
        BY <2>1, <4>1
      <4>2. CASE k # r.token
        BY <1>4, <2>1, <4>2
      <4> QED BY Zenon, <4>1, <4>2
    <3> QED BY <3>1 DEF MarkHasHandler
  <2>5. MonitorsSound'
    <3>1. ASSUME NEW k \in DOMAIN monitor'
          PROVE  /\ \A a \in Apps : unit[a].token = k => a = monitor'[k].app /\ monitor'[k].pc = "wait"
                 /\ monitor'[k].pc = "clean" => k \notin DOMAIN sessions'
      <4>1. CASE k = r.token
        BY <2>1, <2>2, <4>1
      <4>2. CASE k # r.token
        BY <1>1, <2>1, <2>2, <4>2 DEF MonitorsSound
      <4> QED BY Zenon, <4>1, <4>2
    <3> QED BY <1>1, <3>1 DEF MonitorsSound
  <2>6. ForegroundHasSession'
    BY Zenon, <1>7, <2>1 DEF ForegroundHasSession
  <2> QED BY Zenon, <1>2, <1>3, <1>5, <2>3, <2>4, <2>5, <2>6 DEF SInv
<1> QED BY Zenon, <1>6, <1>7 DEF StartRuntimeMonitor

(* A stop or a close that has stopped the unit and closed the card leaves   *)
(* the session to its last section.                                        *)
LEMMA ClosedStep ==
    ASSUME TypedStable, SInv, NEW t \in Threads, thread[t].pc \in {"stop", "close"},
           Goto(t, [thread[t] EXCEPT !.pc = "finish"]),
           UNCHANGED <<runtime_sequence, sessions, foreground, monitor>>,
           \A a \in Apps : unit'[a] \in {unit[a], NoUnit}, unit'[thread[t].app].token = 0,
           Restorable(reg'),
           \A a, j : BoundTo(reg, a, j) /\ a # thread[t].app => BoundTo(reg', a, j)
    PROVE  SInv'
<1> DEFINE r == thread[t]
           q == [r EXCEPT !.pc = "finish"]
<1>1. r \in ThreadRecord /\ ~At(t, "idle") /\ TypeOK /\ UnitsSound /\ MonitorsSound /\ Goto(t, q)
  BY Zenon, CarriedParts DEF TypedStable, Typed, At, SInv
<1>2. q.pc = "finish" /\ q.app = r.app /\ q.token = r.token
  BY <1>1 DEF ThreadRecord
<1> HIDE DEF q
<1>3. Alone(t) /\ thread'[t] = q /\ OneHandler'
  BY <1>1, HandlerAlone DEF SInv
<1>4. SessionsOf(r.app) \subseteq {r.token}
  BY DEF SInv, CarriedOver
<1>5. \A u \in Threads : CarriedOver(u)'
  <2>1. SessionsOf(thread[t].app)' \subseteq {thread'[t].token}
    BY <1>2, <1>3, <1>4 DEF SessionsOf
  <2>2. CarriedOver(t)'
    BY <1>2, <1>3, <2>1 DEF CarriedOver, Evicting
  <2> QED BY <1>3, <2>2, CarriedByAll
<1>6. SessionHasTask'
  <2>1. ASSUME NEW k \in DOMAIN sessions PROVE BoundTo(reg', sessions[k].app, k) \/ Finishing(k)'
    <3>1. BoundTo(reg, sessions[k].app, k)
      BY <1>3, SessionsBound DEF Alone
    <3>2. CASE sessions[k].app # r.app
      BY <3>1, <3>2
    <3>3. CASE sessions[k].app = r.app
      <4>1. k = r.token
        BY <1>4, <3>3 DEF SessionsOf
      <4> QED BY <1>2, <1>3, <3>3, <4>1 DEF Finishing
    <3> QED BY <3>2, <3>3
  <2> QED BY <2>1 DEF SessionHasTask
<1>7. MarkHasHandler'
  <2>1. ASSUME NEW k \in DOMAIN sessions', sessions'[k].explicit_stop PROVE MarkedBy(k)'
    <3>1. r.token = k
      BY <1>3, <2>1, MarksAreMine DEF Alone
    <3> QED BY <1>2, <1>3, <3>1 DEF MarkedBy, Marking
  <2> QED BY <2>1 DEF MarkHasHandler
<1>8. MonitorsSound'
  BY <1>1, MonitorsKept
<1>9. UnitsSound'
  <2>1. ASSUME NEW a \in Apps, unit'[a] # NoUnit
        PROVE  unit'[a] = unit[a] /\ (Running(a) => BoundTo(reg', a, unit[a].token))
    BY <1>1, <2>1 DEF UnitsSound, Running
  <2> QED BY <1>1, <2>1, UnitsKept, SequenceType DEF TypeOK
<1>10. ForegroundHasSession'
  BY DEF SInv, ForegroundHasSession
<1> QED BY Zenon, <1>3, <1>5, <1>6, <1>7, <1>8, <1>9, <1>10 DEF SInv

LEMMA CancelledKeeps ==
    ASSUME TypedStable, SInv, NEW t \in Threads, thread[t].pc \in {"stop", "close"},
           Goto(t, [thread[t] EXCEPT !.pc = "cancel"]),
           UNCHANGED <<reg, runtime_sequence, sessions, foreground, monitor, unit>>
    PROVE  SInv'
<1> DEFINE q == [thread[t] EXCEPT !.pc = "cancel"]
<1>1. thread[t] \in ThreadRecord /\ ~At(t, "idle") /\ Goto(t, q)
  BY CarriedParts DEF TypedStable, At
<1>2. q.pc = "cancel" /\ q.token = thread[t].token
  BY <1>1 DEF ThreadRecord
<1> HIDE DEF q
<1> QED BY <1>1, <1>2, PlainStep, SequenceType

LEMMA StopSectionKeeps ==
    ASSUME TypedStable, SInv, StopSection
    PROVE  SInv'
<1> DEFINE t == "control"
           r == thread[t]
           I == ByApp(reg.tasks, r.app)
           id == reg.tasks[TheIndex(I)].task_id
<1>1. /\ t \in Threads /\ r.pc = "stop" /\ r.app \in Apps /\ TypeOK /\ reg \in Registry /\ Restorable(reg)
      /\ UNCHANGED <<runtime_sequence, sessions, foreground, monitor>>
  BY CarriedParts DEF TypedStable, Typed, TypeOK, StopSection, At, Threads, runtimeVars, SInv, CarriedTypes
<1>2. CASE UNCHANGED <<reg, unit>> /\ Goto(t, [r EXCEPT !.pc = "cancel"])
  BY Zenon, <1>1, <1>2, CancelledKeeps
<1>3. CASE /\ StopUnit(r.app) /\ Goto(t, [r EXCEPT !.pc = "finish"])
           /\ reg' = IF I = {} THEN reg ELSE Close(reg, id)
  <2>1. /\ \A a \in Apps : unit'[a] \in {unit[a], NoUnit}
        /\ unit'[r.app].token = 0
    <3>1. /\ \A a \in Apps : unit'[a] \in {unit[a], NoUnit}
          /\ unit'[r.app] = NoUnit
      BY <1>1, <1>3, UnitStopped
    <3> QED BY <3>1 DEF NoUnit
  <2>2. Restorable(reg') /\ \A a, j : BoundTo(reg, a, j) /\ a # r.app => BoundTo(reg', a, j)
    <3>1. CASE I = {}
      BY Zenon, <1>1, <1>3, <3>1
    <3>2. CASE I # {}
      <4>1. TheIndex(I) \in 1 .. Len(reg.tasks) /\ reg.tasks[TheIndex(I)].app_id = r.app
        BY Zenon, <1>1, <3>2, TaskFound
      <4>2. CanClose(reg, id)
        BY Zenon, <1>1, <4>1, LookupById DEF CanClose
      <4>3. PICK k \in 1 .. Len(reg.tasks) : ById(reg.tasks, id) = {k} /\ Removes(reg, Close(reg, id), k)
        BY Zenon, <1>1, <4>2, CloseRemoves
      <4>4. reg.tasks[k].task_id = id
        BY Zenon, <1>1, <4>3, LookupById
      <4>5. k = TheIndex(I)
        BY Zenon, <1>1, <4>1, <4>4, RegistryParts DEF Restorable, UniqueIds
      <4> QED BY <1>1, <1>3, <3>2, <4>1, <4>3, <4>5, RemovalCards
    <3> QED BY <3>1, <3>2
  <2> QED BY Zenon, <1>1, <1>3, <2>1, <2>2, ClosedStep
<1> QED BY Zenon, <1>2, <1>3 DEF StopSection

LEMMA CloseSectionKeeps ==
    ASSUME TypedStable, SInv, CloseSection
    PROVE  SInv'
<1> DEFINE t == "control"
           r == thread[t]
<1>1. /\ t \in Threads /\ r.pc = "close" /\ r.app \in Apps /\ TypeOK /\ reg \in Registry /\ Restorable(reg)
      /\ UNCHANGED <<runtime_sequence, sessions, foreground, monitor>>
  BY CarriedParts DEF TypedStable, Typed, TypeOK, CloseSection, At, Threads, runtimeVars, SInv, CarriedTypes
<1>2. CASE UNCHANGED <<reg, unit>> /\ Goto(t, [r EXCEPT !.pc = "cancel"])
  BY <1>1, <1>2, CancelledKeeps
<1>3. CASE /\ CanClose(reg, r.id) /\ reg' = Close(reg, r.id) /\ Goto(t, [r EXCEPT !.pc = "finish"])
           /\ IF r.token # 0 THEN StopUnit(r.app) ELSE UNCHANGED unit
  <2>1. /\ \A i \in 1 .. Len(reg.tasks) : reg.tasks[i].task_id = r.id => reg.tasks[i].app_id = r.app
        /\ r.token = 0 => ~Running(r.app)
    BY Zenon, <1>1 DEF SInv, CarriedOver
  <2>2. /\ \A a \in Apps : unit'[a] \in {unit[a], NoUnit}
        /\ unit'[r.app].token = 0
    <3>1. CASE r.token = 0
      BY <1>3, <2>1, <3>1 DEF Running
    <3>2. CASE r.token # 0
      <4>1. /\ \A a \in Apps : unit'[a] \in {unit[a], NoUnit}
            /\ unit'[r.app] = NoUnit
        BY <1>1, <1>3, <3>2, UnitStopped
      <4> QED BY <4>1 DEF NoUnit
    <3> QED BY <3>1, <3>2
  <2>3. PICK k \in 1 .. Len(reg.tasks) : ById(reg.tasks, r.id) = {k} /\ Removes(reg, Close(reg, r.id), k)
    BY Zenon, <1>1, <1>3, CloseRemoves
  <2>4. reg.tasks[k].app_id = r.app
    BY Zenon, <1>1, <2>1, <2>3, LookupById
  <2>5. Restorable(reg') /\ \A a, j : BoundTo(reg, a, j) /\ a # r.app => BoundTo(reg', a, j)
    BY <1>1, <1>3, <2>3, <2>4, RemovalCards
  <2> QED BY Zenon, <1>1, <1>3, <2>2, <2>5, ClosedStep
<1> QED BY Zenon, <1>2, <1>3 DEF CloseSection

-----------------------------------------------------------------------------
(* Steps beside the handlers: units that exit, monitors, the foreground.   *)

(* Such a step, between any two sections of a handler, leaves what the      *)
(* handler carries: it may stop units, take sessions, and unbind the cards *)
(* of runtimes K that have neither unit nor session.                       *)
LEMMA AmbientStep ==
    ASSUME TypedStable, SInv, UNCHANGED <<runtime_sequence, thread>>,
           Restorable(reg'), Len(reg'.tasks) = Len(reg.tasks),
           \A i \in 1 .. Len(reg.tasks) : /\ reg'.tasks[i].task_id = reg.tasks[i].task_id
                                         /\ reg'.tasks[i].app_id = reg.tasks[i].app_id,
           NEW K, K \subseteq DOMAIN monitor \ DOMAIN sessions, \A a \in Apps : unit[a].token \notin K,
           \A a, j : BoundTo(reg, a, j) /\ j \notin K => BoundTo(reg', a, j),
           \A k \in DOMAIN sessions' : k \in DOMAIN sessions /\ sessions'[k] = sessions[k],
           DOMAIN monitor' \subseteq DOMAIN monitor,
           \A a \in Apps : unit'[a] \in {unit[a], NoUnit},
           MonitorsSound', ForegroundHasSession'
    PROVE  SInv'
<1>1. TypeOK /\ UnitsSound /\ HandlersTyped
  BY Zenon DEF TypedStable, Typed, SInv
<1>2. OneHandler'
  BY Zenon DEF SInv, OneHandler, At
<1>3. ASSUME NEW t \in Threads PROVE CarriedOver(t)'
  <2> DEFINE r == thread[t]
  <2>1. CarriedOver(t) /\ CarriedTypes(r) /\ thread'[t] = r
    BY Zenon, <1>1 DEF SInv, HandlersTyped
  <2>2. r.pc \in Evicting =>
           /\ Len(reg'.tasks) = Capacity
           /\ reg'.tasks[1].task_id = r.id /\ reg'.tasks[1].app_id = r.victim
    <3>1. Len(reg.tasks) = Capacity => 1 \in 1 .. Len(reg.tasks)
      BY CapacityAssumption
    <3> QED BY Zenon, <2>1, <3>1 DEF CarriedOver
  <2>3. SessionsOf(r.victim)' \subseteq SessionsOf(r.victim) /\ SessionsOf(r.app)' \subseteq SessionsOf(r.app)
    BY DEF SessionsOf
  <2>4. r.pc \in Evicting => (~Running(r.victim) => ~Running(r.victim)')
    BY <2>1 DEF CarriedTypes, Running, NoUnit
  <2>5. r.pc # "idle" => (~Running(r.app) => ~Running(r.app)')
    BY <2>1 DEF CarriedTypes, Running, NoUnit
  <2>6. r.pc \in {"close_mark", "close"} =>
           \A i \in 1 .. Len(reg'.tasks) : reg'.tasks[i].task_id = r.id => reg'.tasks[i].app_id = r.app
    BY Zenon, <2>1 DEF CarriedOver
  <2>7. r.pc = "monitor" =>
           /\ r.token \notin DOMAIN sessions' \cup DOMAIN monitor'
           /\ BoundTo(reg', r.app, r.token)
           /\ \A a \in Apps : unit'[a].token = r.token => a = r.app
    <3>1. r.pc = "monitor" => r.token # 0 /\ r.token \notin K
      BY Zenon, <2>1 DEF CarriedTypes, CarriedOver
    <3> QED BY <2>1, <3>1 DEF CarriedOver, NoUnit
  <2> QED BY Zenon, <2>1, <2>2, <2>3, <2>4, <2>5, <2>6, <2>7 DEF CarriedOver, Evicting
<1>4. SessionHasTask'
  <2>1. ASSUME NEW k \in DOMAIN sessions' PROVE BoundTo(reg', sessions'[k].app, k) \/ Finishing(k)'
    <3>1. k \in DOMAIN sessions /\ k \notin K /\ sessions'[k] = sessions[k]
      OBVIOUS
    <3>2. BoundTo(reg, sessions[k].app, k) \/ Finishing(k)
      BY <3>1 DEF SInv, SessionHasTask
    <3> QED BY Zenon, <3>1, <3>2 DEF Finishing
  <2> QED BY Zenon, <2>1 DEF SessionHasTask
<1>5. MarkHasHandler'
  <2>1. ASSUME NEW k \in DOMAIN sessions', sessions'[k].explicit_stop PROVE MarkedBy(k)'
    <3>1. MarkedBy(k)
      BY Zenon, <2>1 DEF SInv, MarkHasHandler
    <3> QED BY Zenon, <3>1 DEF MarkedBy
  <2> QED BY <2>1 DEF MarkHasHandler
<1>6. UnitsSound'
  <2>1. \A a \in Apps : Running(a) => BoundTo(reg', a, unit[a].token)
    BY Zenon, <1>1 DEF UnitsSound
  <2> QED BY Zenon, <1>1, <2>1, UnitsKept, SequenceType DEF TypeOK
<1> QED BY Zenon, <1>2, <1>3, <1>4, <1>5, <1>6 DEF SInv

(* The registry is not changed at all. *)
LEMMA AmbientQuiet ==
    ASSUME TypedStable, SInv, UNCHANGED <<reg, runtime_sequence, thread>>,
           \A k \in DOMAIN sessions' : k \in DOMAIN sessions /\ sessions'[k] = sessions[k],
           DOMAIN monitor' \subseteq DOMAIN monitor,
           \A a \in Apps : unit'[a] \in {unit[a], NoUnit},
           MonitorsSound', ForegroundHasSession'
    PROVE  SInv'
<1>1. Restorable(reg')
  BY DEF SInv
<1>2. \A a, j : BoundTo(reg, a, j) => BoundTo(reg', a, j)
  OBVIOUS
<1>3. PICK K : K = {}
  BY Zenon
<1>4. K \subseteq DOMAIN monitor \ DOMAIN sessions /\ \A a \in Apps : unit[a].token \notin K
  BY <1>3
<1> QED BY <1>1, <1>2, <1>4, AmbientStep

LEMMA ForegroundAppKeeps ==
    ASSUME TypedStable, SInv, CountersLeft, NEW app \in Apps, SetForegroundApp(app)
    PROVE  SInv'
<1>1. /\ UNCHANGED <<runtime_sequence, sessions, monitor, unit, thread>>
      /\ TypeOK /\ reg \in Registry /\ Restorable(reg) /\ Left(reg) /\ MonitorsSound
  BY Zenon DEF SetForegroundApp, TypedStable, Typed, TypeOK, SInv, CountersLeft, Left
<1>2. PICK i \in ByApp(reg.tasks, app) :
         /\ reg.tasks[i].runtime \in DOMAIN sessions
         /\ \/ reg' = reg
            \/ CanActivate(reg, reg.tasks[i].task_id) /\ reg' = Activate(reg, reg.tasks[i].task_id)
         /\ foreground' = reg.tasks[i].runtime
  BY Zenon DEF SetForegroundApp
<1>3. Restorable(reg') /\ SameCards(reg, reg')
  <2>1. CASE reg' = reg
    BY Zenon, <1>1, <2>1 DEF SameCards
  <2>2. CASE CanActivate(reg, reg.tasks[i].task_id) /\ reg' = Activate(reg, reg.tasks[i].task_id)
    BY <1>1, <2>2, ActivateCards
  <2> QED BY Zenon, <1>2, <2>1, <2>2
<1>4. \A a, j : BoundTo(reg, a, j) => BoundTo(reg', a, j)
  BY Zenon, <1>3, SameCardsBound
<1>5. MonitorsSound' /\ ForegroundHasSession'
  <2>1. MonitorsSound'
    BY <1>1, MonitorsKept
  <2> QED BY Zenon, <1>1, <1>2, <2>1 DEF ForegroundHasSession
<1>6. PICK K : K = {}
  BY Zenon
<1>7. K \subseteq DOMAIN monitor \ DOMAIN sessions /\ \A a \in Apps : unit[a].token \notin K
  BY <1>6
<1>8. /\ Len(reg'.tasks) = Len(reg.tasks)
      /\ \A j \in 1 .. Len(reg.tasks) : /\ reg'.tasks[j].task_id = reg.tasks[j].task_id
                                         /\ reg'.tasks[j].app_id = reg.tasks[j].app_id
  BY <1>3 DEF SameCards
<1> QED BY Zenon, <1>1, <1>3, <1>4, <1>5, <1>7, <1>8, AmbientStep

LEMMA ClearForegroundKeeps ==
    ASSUME TypedStable, SInv, ClearForegroundApp
    PROVE  SInv'
<1>1. /\ UNCHANGED <<reg, runtime_sequence, sessions, monitor, unit, thread>> /\ foreground' = 0
      /\ TypeOK /\ MonitorsSound
  BY DEF ClearForegroundApp, TypedStable, Typed, SInv
<1>2. MonitorsSound'
  BY <1>1, MonitorsKept
<1> QED BY <1>1, <1>2, AmbientQuiet DEF ForegroundHasSession

LEMMA PackageKeeps ==
    ASSUME TypedStable, SInv, UNCHANGED <<reg, runtime_sequence, sessions, foreground, monitor, unit, thread>>
    PROVE  SInv'
<1>1. TypeOK /\ MonitorsSound /\ ForegroundHasSession'
  BY DEF TypedStable, Typed, SInv, ForegroundHasSession
<1>2. MonitorsSound'
  BY <1>1, MonitorsKept
<1> QED BY <1>1, <1>2, AmbientQuiet

LEMMA UnitExitsKeeps ==
    ASSUME TypedStable, SInv, NEW app \in Apps, UnitExits(app)
    PROVE  SInv'
<1>1. /\ UNCHANGED <<reg, runtime_sequence, sessions, foreground, monitor, thread>> /\ StopUnit(app)
      /\ TypeOK /\ MonitorsSound
  BY DEF UnitExits, runtimeVars, TypedStable, Typed, SInv
<1>2. \A a \in Apps : unit'[a] \in {unit[a], NoUnit}
  BY <1>1, UnitStopped
<1>3. MonitorsSound' /\ ForegroundHasSession'
  <2>1. MonitorsSound'
    BY <1>1, <1>2, MonitorsKept
  <2> QED BY <1>1, <2>1 DEF SInv, ForegroundHasSession
<1> QED BY <1>1, <1>2, <1>3, AmbientQuiet

LEMMA MonitorWaitKeeps ==
    ASSUME TypedStable, SInv, NEW k \in DOMAIN monitor, MonitorWait(k)
    PROVE  SInv'
<1>1. /\ UNCHANGED <<reg, runtime_sequence, sessions, foreground, unit, thread>>
      /\ TypeOK /\ MonitorsSound /\ k # 0
      /\ \A j \in DOMAIN monitor :
            monitor[j] \in [app : Apps, pc : {"wait", "take", "clean"}, crashed : BOOLEAN]
  BY DEF MonitorWait, runtimeVars, TypedStable, Typed, TypeOK, SInv
<1>2. CASE monitor' = Without(monitor, k)
  <2>1. \A j \in DOMAIN monitor' : j \in DOMAIN monitor /\ monitor'[j] = monitor[j]
    BY <1>2 DEF Without
  <2>2. MonitorsSound'
    BY Zenon, <1>1, <2>1, MonitorsKept
  <2> QED BY <1>1, <2>1, <2>2, AmbientQuiet DEF SInv, ForegroundHasSession
<1>3. CASE ~Running(monitor[k].app) /\ monitor' = [monitor EXCEPT ![k].pc = "take"]
  <2>1. /\ DOMAIN monitor' = DOMAIN monitor /\ monitor'[k].pc = "take"
        /\ \A j \in DOMAIN monitor \ {k} : monitor'[j] = monitor[j]
    BY <1>1, <1>3
  <2>2. \A a \in Apps : unit[a].token # k
    BY <1>1, <1>3 DEF MonitorsSound, Running
  <2>3. MonitorsSound'
    <3>1. ASSUME NEW j \in DOMAIN monitor
          PROVE  /\ \A a \in Apps : unit[a].token = j => a = monitor'[j].app /\ monitor'[j].pc = "wait"
                 /\ monitor'[j].pc = "clean" => j \notin DOMAIN sessions
      <4>1. CASE j = k
        BY Zenon, <2>1, <2>2, <4>1
      <4>2. CASE j # k
        BY <1>1, <2>1, <4>2 DEF MonitorsSound
      <4> QED BY Zenon, <4>1, <4>2
    <3> QED BY Zenon, <1>1, <2>1, <3>1 DEF MonitorsSound
  <2> QED BY Zenon, <1>1, <2>1, <2>3, AmbientQuiet DEF SInv, ForegroundHasSession
<1> QED BY <1>2, <1>3 DEF MonitorWait

LEMMA MonitorTakeKeeps ==
    ASSUME TypedStable, SInv, NEW k \in DOMAIN monitor, MonitorTake(k)
    PROVE  SInv'
<1>1. /\ UNCHANGED <<reg, runtime_sequence, unit, thread>>
      /\ TypeOK /\ MonitorsSound /\ ForegroundHasSession /\ monitor[k].pc = "take"
      /\ \A j \in DOMAIN monitor :
            monitor[j] \in [app : Apps, pc : {"wait", "take", "clean"}, crashed : BOOLEAN]
  BY DEF MonitorTake, TypedStable, Typed, TypeOK, SInv
<1>2. CASE k \notin DOMAIN sessions
  <2>1. /\ \A j \in DOMAIN monitor' : j \in DOMAIN monitor /\ monitor'[j] = monitor[j]
        /\ UNCHANGED <<sessions, foreground>>
    BY <1>2 DEF MonitorTake, Without, runtimeVars
  <2>2. MonitorsSound'
    BY Zenon, <1>1, <2>1, MonitorsKept
  <2> QED BY <1>1, <2>1, <2>2, AmbientQuiet DEF ForegroundHasSession
<1>3. CASE k \in DOMAIN sessions
  <2>1. /\ TakeRuntimeEnd(k)
        /\ monitor' = [monitor EXCEPT ![k].pc = "clean", ![k].crashed = ~sessions[k].explicit_stop]
    BY Zenon, <1>3 DEF MonitorTake
  <2>2. /\ DOMAIN sessions' = DOMAIN sessions \ {k}
        /\ \A j \in DOMAIN sessions \ {k} : sessions'[j] = sessions[j]
        /\ foreground' \in {0, foreground}
        /\ foreground' # 0 => foreground' # k
    BY Zenon, <1>1, <2>1, TakeTyped
  <2>3. /\ DOMAIN monitor' = DOMAIN monitor
        /\ \A j \in DOMAIN monitor \ {k} : monitor'[j] = monitor[j]
    BY <2>1
  <2>4. \A a \in Apps : unit[a].token # k
    BY <1>1 DEF MonitorsSound
  <2>5. MonitorsSound'
    <3>1. ASSUME NEW j \in DOMAIN monitor
          PROVE  /\ \A a \in Apps : unit[a].token = j => a = monitor'[j].app /\ monitor'[j].pc = "wait"
                 /\ monitor'[j].pc = "clean" => j \notin DOMAIN sessions'
      <4>1. CASE j = k
        BY Zenon, <2>2, <2>4, <4>1
      <4>2. CASE j # k
        BY <1>1, <2>2, <2>3, <4>2 DEF MonitorsSound
      <4> QED BY <4>1, <4>2
    <3> QED BY <1>1, <2>3, <3>1 DEF MonitorsSound
  <2>6. ForegroundHasSession'
    BY Zenon, <1>1, <2>2 DEF ForegroundHasSession
  <2>7. \A j \in DOMAIN sessions' : j \in DOMAIN sessions /\ sessions'[j] = sessions[j]
    BY Zenon, <2>2
  <2> QED BY Zenon, <1>1, <2>3, <2>5, <2>6, <2>7, AmbientQuiet
<1> QED BY <1>2, <1>3

(* A monitor marks the task of its own runtime crashed, however late: no    *)
(* unit runs under that token any more, and a new launch has another.      *)
LEMMA MonitorCleanKeeps ==
    ASSUME TypedStable, SInv, NEW k \in DOMAIN monitor, MonitorClean(k)
    PROVE  SInv'
<1>1. /\ UNCHANGED <<runtime_sequence, sessions, foreground, unit, thread>>
      /\ TypeOK /\ MonitorsSound /\ monitor[k].pc = "clean" /\ reg \in Registry /\ Restorable(reg)
      /\ monitor' = Without(monitor, k) /\ reg' \in {reg, RuntimeExited(reg, k)}
  BY Zenon DEF MonitorClean, CrashedTask, runtimeVars, TypedStable, Typed, TypeOK, SInv
<1>2. \A j \in DOMAIN monitor' : j \in DOMAIN monitor /\ monitor'[j] = monitor[j]
  BY Zenon, <1>1 DEF Without
<1>3. k \notin DOMAIN sessions /\ \A a \in Apps : unit[a].token # k
  BY Zenon, <1>1 DEF MonitorsSound
<1>4. /\ Restorable(reg')
      /\ Len(reg'.tasks) = Len(reg.tasks)
      /\ \A i \in 1 .. Len(reg.tasks) :
            /\ reg'.tasks[i].task_id = reg.tasks[i].task_id
            /\ reg'.tasks[i].app_id = reg.tasks[i].app_id
            /\ reg.tasks[i].runtime # k => reg'.tasks[i].runtime = reg.tasks[i].runtime
  BY <1>1, ExitCards
<1>5. \A a, j : BoundTo(reg, a, j) /\ j # k => BoundTo(reg', a, j)
  BY Zenon, <1>4 DEF BoundTo
<1>6. MonitorsSound'
  BY <1>1, <1>2, MonitorsKept
<1>7. PICK K : K = {k}
  BY Zenon
<1>8. /\ K \subseteq DOMAIN monitor \ DOMAIN sessions /\ \A a \in Apps : unit[a].token \notin K
      /\ \A a, j : BoundTo(reg, a, j) /\ j \notin K => BoundTo(reg', a, j)
  BY <1>3, <1>5, <1>7
<1>9. ForegroundHasSession'
  BY Zenon, <1>1 DEF SInv, ForegroundHasSession
<1> QED BY Zenon, <1>1, <1>2, <1>4, <1>6, <1>8, <1>9, AmbientStep

-----------------------------------------------------------------------------
(* The second result.                                                      *)

LEMMA InitSessions == Init => SInv
<1> SUFFICES ASSUME Init PROVE SInv
  OBVIOUS
<1>1. EmptyRegistry \in Registry /\ Len(EmptyRegistry.tasks) = 0 /\ DOMAIN EmptyRegistry.tasks = {}
  BY DEF EmptyRegistry, Registry
<1>2. Restorable(reg)
  BY <1>1, CapacityAssumption, U64MaxAssumption
     DEF Init, Restorable, WithinCapacity, CreationOrdered, OneForeground, ResidentIffBound,
         UniqueIds, UniqueApps, UniqueTokens, FreshIdentifiers
<1>3. \A t \in Threads : thread[t].pc = "idle"
  BY Zenon DEF Init, Idle
<1>4. OneHandler /\ \A t \in Threads : CarriedOver(t)
  BY Zenon, <1>3 DEF OneHandler, At, CarriedOver, Evicting
<1>5. SessionHasTask /\ MarkHasHandler /\ MonitorsSound /\ ForegroundHasSession
  BY DEF Init, SessionHasTask, MarkHasHandler, MonitorsSound, ForegroundHasSession
<1>6. UnitsSound
  <2>1. \A a \in Apps : unit[a].token = 0
    BY Zenon DEF Init, NoUnit
  <2>2. runtime_sequence = 1
    BY DEF Init
  <2>3. ASSUME NEW a \in Apps PROVE unit[a].token < runtime_sequence /\ ~Running(a)
    <3>1. unit[a].token = 0
      BY <2>1
    <3> QED BY <2>2, <3>1 DEF Running
  <2> QED BY Zenon, <2>3 DEF UnitsSound
<1> QED BY Zenon, <1>2, <1>4, <1>5, <1>6 DEF SInv

LEMMA StepSessions == TypedStable /\ SInv /\ CountersLeft /\ [Next]_vars => SInv'
<1> SUFFICES ASSUME TypedStable, SInv, CountersLeft, [Next]_vars PROVE SInv'
  OBVIOUS
<1>1. CASE UNCHANGED vars
  BY <1>1, PackageKeeps DEF vars, runtimeVars
<1>2. ASSUME NEW t \in Threads, StepOf(t) PROVE SInv'
  BY Zenon, <1>2, PlanKeeps, ActivateExistingKeeps, SetForegroundKeeps, EvictMarkKeeps, EvictStopKeeps,
     EvictFinishKeeps, EvictKeeps, LaunchKeepsSessions, StartMonitorKeeps, CancelKeeps DEF StepOf
<1>3. ASSUME NEW t \in Threads, NEW app \in Apps, StartApp(t, app) PROVE SInv'
  BY Zenon, <1>3, StartKeeps
<1>4. ASSUME NEW id, ActivateTask(id) \/ CloseTask(id) PROVE SInv'
  BY Zenon, <1>4, ActivateTaskKeeps, CloseTaskKeeps
<1>5. ASSUME NEW app \in Apps, StopApp(app) \/ SetForegroundApp(app) \/ UnitExits(app) PROVE SInv'
  BY Zenon, <1>5, StopAppKeeps, ForegroundAppKeeps, UnitExitsKeeps
<1>6. ASSUME NEW app \in Apps, Rollback(app) \/ Uninstall(app) \/ \E v \in Versions : Install(app, v) PROVE SInv'
  <2>1. UNCHANGED <<reg, runtime_sequence, sessions, foreground, monitor, unit, thread>>
    BY <1>6 DEF Rollback, Uninstall, Install, runtimeVars
  <2> QED BY Zenon, <2>1, PackageKeeps
<1>7. CASE ClearForegroundApp
  BY <1>7, ClearForegroundKeeps
<1>8. CASE ControlStep
  BY Zenon, <1>8, StopSectionKeeps, CloseMarkKeeps, CloseSectionKeeps, FinishKeeps DEF ControlStep
<1>9. ASSUME NEW k \in DOMAIN monitor, MonitorStep(k) PROVE SInv'
  BY Zenon, <1>9, MonitorWaitKeeps, MonitorTakeKeeps, MonitorCleanKeeps DEF MonitorStep
<1> QED BY Zenon, <1>1, <1>2, <1>3, <1>4, <1>5, <1>6, <1>7, <1>8, <1>9 DEF Next

LEMMA SoundSessions == TypedStable /\ SInv => SessionsSound
<1> SUFFICES ASSUME TypedStable, SInv PROVE SessionsSound
  OBVIOUS
<1>1. TypeOK /\ reg \in Registry /\ Restorable(reg) /\ DOMAIN reg.tasks = 1 .. Len(reg.tasks) /\ ForegroundHasSession
  BY Zenon, RegistryParts DEF TypedStable, Typed, TypeOK, SInv
<1>2. RunningHasTask
  BY <1>1 DEF SInv, UnitsSound, RunningHasTask, BoundTo
<1>3. OneSessionPerApp
  <2>1. SUFFICES ASSUME NEW j \in DOMAIN sessions, NEW k \in DOMAIN sessions, sessions[j].app = sessions[k].app
                 PROVE  j = k
    BY Zenon DEF OneSessionPerApp
  <2>2. ASSUME NEW m \in DOMAIN sessions, Finishing(m) PROVE SessionsOf(sessions[m].app) \subseteq {m}
    BY Zenon, <2>2 DEF SInv, CarriedOver, Finishing
  <2>3. j \in SessionsOf(sessions[k].app) /\ k \in SessionsOf(sessions[j].app)
    BY Zenon, <2>1 DEF SessionsOf
  <2>4. CASE Finishing(j) \/ Finishing(k)
    BY <2>2, <2>3, <2>4
  <2>5. CASE BoundTo(reg, sessions[j].app, j) /\ BoundTo(reg, sessions[k].app, k)
    BY Zenon, <1>1, <2>1, <2>5, BoundUnique
  <2> QED BY <2>4, <2>5 DEF SInv, SessionHasTask
<1>4. MarkOnlyWhileStopping
  BY Zenon DEF SInv, MarkHasHandler, MarkedBy, Marking, MarkOnlyWhileStopping, Unlocked
<1> QED BY <1>1, <1>2, <1>3, <1>4 DEF SessionsSound

(* While no counter of the registry has wrapped, units, task cards and the *)
(* table of sessions agree whatever handlers, monitors and exiting units   *)
(* interleave: every active unit has the card that closes it, an           *)
(* application has one session, a mark is there only while the stop that   *)
(* made it runs, and the foreground runtime has a session.                 *)
THEOREM SessionsAgree == Spec /\ []CountersLeft => []SessionsSound
<1>1. Init => TypedStable /\ SInv
  BY Zenon, InitTyped, InitSessions
<1>2. (TypedStable /\ SInv) /\ CountersLeft /\ [Next]_vars => (TypedStable /\ SInv)'
  BY Zenon, StepTyped, StepSessions
<1> QED BY <1>1, <1>2, SoundSessions, PTL DEF Spec
=============================================================================
