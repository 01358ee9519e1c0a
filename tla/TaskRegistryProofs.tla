------------------------- MODULE TaskRegistryProofs -------------------------
(***************************************************************************)
(* The invariants of TaskRegistry, for every set of applications, capacity *)
(* and counter width: each action is one of the kinds of change of         *)
(* TaskOpsProofs, or leaves the registry alone.                            *)
(***************************************************************************)
EXTENDS TaskRegistry, TaskOpsProofs

-----------------------------------------------------------------------------
(* The type invariant and RegistrySound, across wraps of the counters.     *)

CoreInv ==
    /\ reg \in Registry
    /\ CountersInRange(reg)
    /\ Sound(reg)
    /\ runtime_sequence \in Nat \ {0}
    /\ live \subseteq Tokens
    /\ TokensBelow(reg, runtime_sequence)

LEMMA CoreInvIsTypedAndSound == CoreInv /\ wrapped \in BOOLEAN => TypeOK /\ RegistrySound
BY RegistryParts DEF CoreInv, CountersInRange, Sound, TokensBelow, TypeOK, RegistrySound

LEMMA CoreInit == Init => CoreInv
<1> SUFFICES ASSUME Init PROVE CoreInv
  OBVIOUS
<1>1. EmptyRegistry.tasks = <<>> /\ EmptyRegistry.next_task_id = 1 /\ EmptyRegistry.next_sequence = 1
  BY DEF EmptyRegistry
<1>2. EmptyRegistry \in Registry
  BY DEF EmptyRegistry, Registry
<1>3. Len(<<>>) = 0 /\ DOMAIN <<>> = {}
  OBVIOUS
<1>4. Sound(EmptyRegistry)
  BY <1>1, <1>3, CapacityAssumption DEF Sound, WithinCapacity, UniqueApps, ResidentIffBound
<1>5. CountersInRange(EmptyRegistry) /\ TokensBelow(EmptyRegistry, 1)
  BY <1>1, <1>3, U64MaxAssumption DEF CountersInRange, TokensBelow
<1> QED BY <1>2, <1>4, <1>5 DEF Init, CoreInv

(* One step of the specification keeps CoreInv: each action is one of the  *)
(* four kinds of change, or leaves the registry alone.                     *)
LEMMA CoreStep == CoreInv /\ [Next]_vars => CoreInv'
<1> SUFFICES ASSUME CoreInv, [Next]_vars PROVE CoreInv'
  OBVIOUS
<1>1. /\ reg \in Registry /\ CountersInRange(reg) /\ Sound(reg)
      /\ runtime_sequence \in Nat \ {0} /\ live \subseteq Tokens /\ TokensBelow(reg, runtime_sequence)
  BY SMTT(40) DEF CoreInv
<1>2. ASSUME NEW s, Demotes(reg, s) PROVE s \in Registry /\ CountersInRange(s) /\ Sound(s) /\ TokensBelow(s, runtime_sequence)
  BY SMTT(40), <1>1, <1>2, DemotesSound, TokensBelowPreserved DEF Demotes, CountersInRange
<1>3. ASSUME NEW s, NEW k, NEW token \in Nat \ {0}, Promotes(reg, s, k, token)
      PROVE  /\ s \in Registry /\ CountersInRange(s) /\ Sound(s)
             /\ token < runtime_sequence => TokensBelow(s, runtime_sequence)
             /\ token <= runtime_sequence => TokensBelow(s, runtime_sequence + 1)
  <2>1. s \in Registry /\ s.next_task_id = reg.next_task_id /\ s.next_sequence = NextU64(reg.next_sequence)
    BY <1>3 DEF Promotes
  <2>2. CountersInRange(s)
    BY SMTT(40), <1>1, <2>1, NextU64Type, RegistryParts DEF CountersInRange
  <2>3. Sound(s)
    BY SMTT(40), <1>1, <1>3, PromotesSound
  <2> QED BY SMTT(40), <1>1, <1>3, <2>1, <2>2, <2>3, TokensBelowPreserved
<1>4. ASSUME NEW s, NEW k, Removes(reg, s, k)
      PROVE  s \in Registry /\ CountersInRange(s) /\ Sound(s) /\ TokensBelow(s, runtime_sequence)
  BY ZenonT(40), <1>1, <1>4, RemovesSound, TokensBelowPreserved DEF Removes, CountersInRange
<1>5. ASSUME NEW r \in Registry, CountersInRange(r), Sound(r), TokensBelow(r, runtime_sequence), Len(r.tasks) < Capacity,
             NEW s, NEW app, \A i \in 1 .. Len(r.tasks) : r.tasks[i].app_id # app, Adds(r, s, app, runtime_sequence)
      PROVE  s \in Registry /\ CountersInRange(s) /\ Sound(s) /\ TokensBelow(s, runtime_sequence + 1)
  <2>1. s \in Registry /\ s.next_task_id = NextU64(r.next_task_id) /\ s.next_sequence = NextU64(r.next_sequence)
    BY <1>5 DEF Adds
  <2>2. CountersInRange(s)
    BY <1>5, <2>1, NextU64Type, RegistryParts DEF CountersInRange
  <2>3. Sound(s)
    BY SMTT(40), <1>1, <1>5, AddsSound
  <2>4. TokensBelow(s, runtime_sequence + 1)
    BY Zenon, <1>1, <1>5, TokensBelowPreserved
  <2> QED BY <2>1, <2>2, <2>3, <2>4
<1>6. ASSUME NEW app \in Apps, NEW version \in Versions, DoRelaunch(app, version) PROVE CoreInv'
  <2>1. PICK k \in 1 .. Len(reg.tasks) : Promotes(reg, reg', k, runtime_sequence)
    BY <1>1, <1>6, RelaunchPromotes DEF DoRelaunch, CountersInRange
  <2>2. runtime_sequence' = runtime_sequence + 1 /\ live' = live \cup {runtime_sequence}
    BY <1>6 DEF DoRelaunch
  <2>3. live' \subseteq Tokens'
    BY <1>1, <2>2 DEF Tokens
  <2> QED BY <1>1, <1>3, <2>1, <2>2, <2>3 DEF CoreInv
<1>7. ASSUME NEW app \in Apps, NEW version \in Versions, NEW victim, DoLaunch(app, version, victim) PROVE CoreInv'
  <2>1. /\ runtime_sequence' = runtime_sequence + 1 /\ live' \subseteq live \cup {runtime_sequence}
        /\ CanLaunchNew(reg, app, victim)
        /\ reg' = LaunchNew(reg, app, version, runtime_sequence, victim)
    BY <1>7 DEF DoLaunch
  <2>2. live' \subseteq Tokens'
    BY <1>1, <2>1 DEF Tokens
  <2>3. \A i \in 1 .. Len(reg.tasks) : reg.tasks[i].app_id # app
    <3>1. ByApp(reg.tasks, app) = {}
      BY <2>1 DEF CanLaunchNew
    <3> QED BY ZenonT(40), <1>1, <3>1, LookupByApp
  <2>4. \/ Len(reg.tasks) # Capacity /\ Adds(reg, reg', app, runtime_sequence)
        \/ \E old \in Registry : Removes(reg, old, 1) /\ Adds(old, reg', app, runtime_sequence)
    BY <1>1, <2>1, LaunchNewAdds DEF CountersInRange
  <2>5. CASE Len(reg.tasks) # Capacity /\ Adds(reg, reg', app, runtime_sequence)
    <3>1. Len(reg.tasks) < Capacity
      BY SMTT(40), <1>1, <2>5, RegistryParts, CapacityAssumption DEF Sound, WithinCapacity
    <3>2. reg' \in Registry /\ CountersInRange(reg') /\ Sound(reg') /\ TokensBelow(reg', runtime_sequence + 1)
      BY SMTT(40), <1>1, <1>5, <2>3, <2>5, <3>1
    <3> QED BY <1>1, <2>1, <2>2, <3>2 DEF CoreInv
  <2>6. ASSUME NEW old \in Registry, Removes(reg, old, 1), Adds(old, reg', app, runtime_sequence) PROVE CoreInv'
    <3>1. CountersInRange(old) /\ Sound(old) /\ TokensBelow(old, runtime_sequence)
      BY <1>4, <2>6
    <3>2. Len(old.tasks) < Capacity
      BY SMTT(40), <1>1, <2>6, RemovesSound
    <3>3. \A i \in 1 .. Len(old.tasks) : old.tasks[i].app_id # app
      <4>1. PICK f \in [1 .. (Len(reg.tasks) - 1) -> 1 .. Len(reg.tasks)] :
               \A j \in 1 .. (Len(reg.tasks) - 1) : old.tasks[j] = reg.tasks[f[j]]
        BY SMTT(40), <1>1, <2>6, RemovesIndex
      <4> QED BY SMTT(40), <2>3, <2>6, <4>1 DEF Removes
    <3>4. reg' \in Registry /\ CountersInRange(reg') /\ Sound(reg') /\ TokensBelow(reg', runtime_sequence + 1)
      BY SMTT(40), <1>5, <2>6, <3>1, <3>2, <3>3
    <3> QED BY SMTT(40), <1>1, <2>1, <2>2, <3>4 DEF CoreInv
  <2> QED BY <2>4, <2>5, <2>6
<1>8. ASSUME NEW victim, DoEvict(victim) PROVE CoreInv'
  <2>1. Removes(reg, reg', 1) /\ runtime_sequence' = runtime_sequence /\ live' \subseteq live
    BY <1>1, <1>8, EvictRemoves DEF DoEvict
  <2> QED BY SMTT(40), <1>1, <1>4, <2>1 DEF CoreInv, Tokens
<1>9. ASSUME NEW id, DoActivate(id) PROVE CoreInv'
  <2>1. PICK k \in 1 .. Len(reg.tasks) :
           reg.tasks[k].state \in Resident /\ Promotes(reg, reg', k, reg.tasks[k].runtime)
    BY SMTT(40), <1>1, <1>9, ActivatePromotes DEF DoActivate, CountersInRange
  <2>2. reg.tasks[k].runtime \in Nat \ {0} /\ reg.tasks[k].runtime < runtime_sequence
    BY ZenonT(40), <1>1, <2>1, RegistryParts DEF Sound, ResidentIffBound, TokensBelow, TaskRecord
  <2>3. runtime_sequence' = runtime_sequence /\ live' = live
    BY <1>9 DEF DoActivate
  <2>4. reg' \in Registry /\ CountersInRange(reg') /\ Sound(reg') /\ TokensBelow(reg', runtime_sequence)
    BY <1>3, <2>1, <2>2
  <2> QED BY SMTT(40), <1>1, <2>3, <2>4 DEF CoreInv, Tokens
<1>10. ASSUME Demotes(reg, reg'), runtime_sequence' = runtime_sequence, live' \subseteq live PROVE CoreInv'
  BY <1>1, <1>2, <1>10 DEF CoreInv, Tokens
<1>11. ASSUME NEW id, DoFreeze(id) PROVE CoreInv'
  BY <1>1, <1>10, <1>11, FreezeDemotes DEF DoFreeze
<1>12. ASSUME NEW id, NEW status \in CheckpointStatus, DoCheckpoint(id, status) PROVE CoreInv'
  BY SMTT(40), <1>1, <1>10, <1>12, CheckpointDemotes DEF DoCheckpoint
<1>13. ASSUME NEW id, NEW generation \in Thumbnails, DoUpdateThumbnail(id, generation) PROVE CoreInv'
  BY SMTT(40), <1>1, <1>10, <1>13, UpdateThumbnailDemotes, ThumbnailsAssumption DEF DoUpdateThumbnail
<1>14. ASSUME NEW id, DoClose(id) PROVE CoreInv'
  <2>1. PICK k \in 1 .. Len(reg.tasks) : Removes(reg, reg', k)
    BY <1>1, <1>14, CloseRemoves DEF DoClose
  <2>2. runtime_sequence' = runtime_sequence /\ live' \subseteq live
    BY <1>14 DEF DoClose
  <2> QED BY SMTT(40), <1>1, <1>4, <2>1, <2>2 DEF CoreInv, Tokens
<1>15. ASSUME NEW token, UnitExits(token) PROVE CoreInv'
  BY <1>1, <1>15 DEF UnitExits, CoreInv, Tokens
<1>16. ASSUME NEW token, DoRuntimeExited(token) PROVE CoreInv'
  BY SMTT(40), <1>1, <1>10, <1>16, RuntimeExitedDemotes DEF DoRuntimeExited
<1>17. CASE UNCHANGED vars
  BY <1>1, <1>17 DEF vars, CoreInv, Tokens
<1> QED BY SMTT(40), <1>6, <1>7, <1>8, <1>9, <1>11, <1>12, <1>13, <1>14, <1>15, <1>16, <1>17 DEF Next, Operation

(* The registry is well typed and sound in every reachable state: at most  *)
(* Capacity tasks, at most one per application, a runtime exactly where    *)
(* the state is resident; also after next_task_id or next_sequence wrapped *)
(* (tasks.rs, invariants_hold).                                            *)
THEOREM TypedAndSound == Spec => [](TypeOK /\ RegistrySound)
<1>1. Spec => []CoreInv
  BY CoreInit, CoreStep, PTL DEF Spec
<1>2. Spec => [](wrapped \in BOOLEAN)
  <2>1. Init => wrapped \in BOOLEAN
    BY Zenon DEF Init
  <2>2. wrapped \in BOOLEAN /\ [Next]_vars => (wrapped \in BOOLEAN)'
    BY Zenon DEF Next, vars
  <2> QED BY <2>1, <2>2, PTL DEF Spec
<1> QED BY <1>1, <1>2, CoreInvIsTypedAndSound, PTL

-----------------------------------------------------------------------------
(* Every process has a task.                                               *)

LEMMA BoundIsNoOrphan ==
    ASSUME reg \in Registry
    PROVE  Bound(reg, live) <=> NoOrphan
BY RegistryParts DEF Bound, NoOrphan

(* One step keeps every process bound, wrapped counters or not. *)
LEMMA BoundStep == CoreInv /\ NoOrphan /\ [Next]_vars => NoOrphan'
<1> SUFFICES ASSUME CoreInv, NoOrphan, [Next]_vars PROVE NoOrphan'
  OBVIOUS
<1>1. /\ reg \in Registry /\ CountersInRange(reg) /\ Sound(reg) /\ live \subseteq Tokens
      /\ runtime_sequence \in Nat \ {0}
  BY DEF CoreInv
<1>2. Bound(reg, live) /\ 0 \notin live
  BY <1>1, BoundIsNoOrphan DEF Tokens
<1>3. reg' \in Registry
  BY CoreStep DEF CoreInv
<1>4. SUFFICES Bound(reg', live')
  BY <1>3, RegistryParts DEF Bound, NoOrphan
<1>5. ASSUME NEW app \in Apps, NEW version \in Versions, DoRelaunch(app, version) PROVE Bound(reg', live')
  <2>1. PICK k \in 1 .. Len(reg.tasks) :
           reg.tasks[k].state \notin Resident /\ Promotes(reg, reg', k, runtime_sequence)
    BY Zenon, <1>1, <1>5, RelaunchPromotes DEF DoRelaunch, CountersInRange
  <2>2. reg.tasks[k].runtime = 0
    BY <1>1, <2>1, RegistryParts DEF Sound, ResidentIffBound
  <2> QED BY SMTT(40), <1>1, <1>2, <1>5, <2>1, <2>2, PromotesBound DEF DoRelaunch
<1>6. ASSUME NEW app \in Apps, NEW version \in Versions, NEW victim, DoLaunch(app, version, victim)
      PROVE  Bound(reg', live')
  <2>1. /\ live' = (live \ TokenOf(victim)) \cup {runtime_sequence}
        /\ CanLaunchNew(reg, app, victim)
        /\ reg' = LaunchNew(reg, app, version, runtime_sequence, victim)
    BY <1>6 DEF DoLaunch
  <2>2. \/ Adds(reg, reg', app, runtime_sequence)
        \/ \E old \in Registry : /\ reg.tasks[1].task_id = victim /\ Len(reg.tasks) = Capacity
                                 /\ Removes(reg, old, 1) /\ Adds(old, reg', app, runtime_sequence)
    BY <1>1, <2>1, LaunchNewAdds DEF CountersInRange
  <2>3. CASE Adds(reg, reg', app, runtime_sequence)
    <3>1. Bound(reg', live \cup {runtime_sequence})
      BY SMTT(40), <1>1, <1>2, <2>3, AddsBound
    <3> QED BY <2>1, <3>1 DEF Bound
  <2>4. ASSUME NEW old \in Registry, reg.tasks[1].task_id = victim, Len(reg.tasks) = Capacity,
               Removes(reg, old, 1), Adds(old, reg', app, runtime_sequence)
        PROVE  Bound(reg', live')
    <3>1. TokenOf(victim) = {reg.tasks[1].runtime}
      BY ZenonT(40), <1>1, <2>4, OldestFound, CapacityAssumption DEF TokenOf
    <3>2. Bound(old, live \ {reg.tasks[1].runtime})
      BY SMTT(40), <1>1, <1>2, <2>4, RemovesBound
    <3> QED BY SMTT(40), <2>1, <2>4, <3>1, <3>2, AddsBound
  <2> QED BY <2>2, <2>3, <2>4
<1>7. ASSUME NEW victim, DoEvict(victim) PROVE Bound(reg', live')
  <2>1. Removes(reg, reg', 1) /\ reg.tasks[1].task_id = victim /\ Len(reg.tasks) # 0
    BY SMTT(40), <1>1, <1>7, EvictRemoves, CapacityAssumption DEF DoEvict, CanEvict
  <2>2. live' = live \ {reg.tasks[1].runtime}
    BY SMTT(40), <1>1, <1>7, <2>1, OldestFound DEF DoEvict, TokenOf
  <2> QED BY SMTT(40), <1>1, <1>2, <2>1, <2>2, RemovesBound
<1>8. ASSUME NEW id, DoActivate(id) PROVE Bound(reg', live')
  <2>1. PICK k \in 1 .. Len(reg.tasks) : Promotes(reg, reg', k, reg.tasks[k].runtime)
    BY <1>1, <1>8, ActivatePromotes DEF DoActivate, CountersInRange
  <2>2. Bound(reg', live \cup {reg.tasks[k].runtime})
    BY SMTT(40), <1>1, <1>2, <2>1, PromotesBound
  <2> QED BY <1>8, <2>2 DEF DoActivate, Bound
<1>9. ASSUME NEW id, DoFreeze(id) PROVE Bound(reg', live')
  <2>1. Len(reg'.tasks) = Len(reg.tasks) /\ live' = live /\ reg' = Freeze(reg, id)
    BY <1>1, <1>9, FreezeDemotes DEF DoFreeze, Demotes
  <2> QED BY SMTT(40), <1>1, <1>2, <2>1, FreezeKeepsRuntimes, SameRuntimesBound
<1>10. ASSUME NEW id, NEW status \in CheckpointStatus, DoCheckpoint(id, status) PROVE Bound(reg', live')
  <2>1. Len(reg'.tasks) = Len(reg.tasks) /\ live' = live \ TokenOf(id) /\ reg' = Checkpoint(reg, id, status)
    BY <1>1, <1>10, CheckpointDemotes DEF DoCheckpoint, Demotes
  <2>2. ASSUME NEW i \in 1 .. Len(reg.tasks), reg.tasks[i].runtime \in live'
        PROVE  reg'.tasks[i].runtime = reg.tasks[i].runtime
    <3>1. i \notin ById(reg.tasks, id)
      BY <2>1, <2>2 DEF TokenOf
    <3> QED BY SMTT(40), <1>1, <2>1, <3>1, CheckpointUnbindsOne
  <2> QED BY SMTT(40), <1>1, <1>2, <2>1, <2>2, SameRuntimesBound
<1>11. ASSUME NEW id, NEW generation \in Thumbnails, DoUpdateThumbnail(id, generation) PROVE Bound(reg', live')
  <2>1. Len(reg'.tasks) = Len(reg.tasks) /\ live' = live /\ reg' = UpdateThumbnail(reg, id, generation)
    BY SMTT(40), <1>1, <1>11, UpdateThumbnailDemotes, ThumbnailsAssumption DEF DoUpdateThumbnail, Demotes
  <2> QED BY SMTT(40), <1>1, <1>2, <2>1, UpdateThumbnailKeepsRuntimes, SameRuntimesBound
<1>12. ASSUME NEW id, DoClose(id) PROVE Bound(reg', live')
  <2>1. PICK k \in 1 .. Len(reg.tasks) : ById(reg.tasks, id) = {k} /\ Removes(reg, reg', k)
    BY <1>1, <1>12, CloseRemoves DEF DoClose
  <2>2. live' = live \ {reg.tasks[k].runtime}
    BY <1>12, <2>1 DEF DoClose, TokenOf
  <2> QED BY SMTT(40), <1>1, <1>2, <2>1, <2>2, RemovesBound
<1>13. ASSUME NEW token, UnitExits(token) PROVE Bound(reg', live')
  BY <1>2, <1>13 DEF UnitExits, Bound
<1>14. ASSUME NEW token, DoRuntimeExited(token) PROVE Bound(reg', live')
  <2>1. /\ Len(reg'.tasks) = Len(reg.tasks) /\ live' = live /\ token \notin live
        /\ reg' = RuntimeExited(reg, token)
    BY <1>1, <1>14, RuntimeExitedDemotes DEF DoRuntimeExited, Demotes
  <2>2. ASSUME NEW i \in 1 .. Len(reg.tasks), reg.tasks[i].runtime \in live
        PROVE  reg'.tasks[i].runtime = reg.tasks[i].runtime
    BY SMTT(40), <1>1, <2>1, <2>2, RuntimeExitedUnbindsOne
  <2> QED BY SMTT(40), <1>1, <1>2, <2>1, <2>2, SameRuntimesBound
<1>15. CASE UNCHANGED vars
  BY <1>2, <1>15 DEF vars
<1> QED BY SMTT(40), <1>5, <1>6, <1>7, <1>8, <1>9, <1>10, <1>11, <1>12, <1>13, <1>14, <1>15 DEF Next, Operation

(* A running process always has a task, however its end is reported, its   *)
(* task closed, evicted or restarted, and also after next_task_id or       *)
(* next_sequence wrapped (tasks.rs, runtime_exited, launch and close).     *)
THEOREM ProcessesHaveTasks == Spec => []NoOrphan
<1>1. Init => NoOrphan
  BY DEF Init, NoOrphan
<1>2. Spec => []CoreInv
  BY CoreInit, CoreStep, PTL DEF Spec
<1> QED BY <1>1, <1>2, BoundStep, PTL DEF Spec

-----------------------------------------------------------------------------
(* Every registry whose counters have not wrapped can be restored.         *)

(* One step keeps the registry restorable, or wraps a counter. *)
LEMMA RestorableStep == CoreInv /\ SnapshotRestorable /\ [Next]_vars => SnapshotRestorable'
<1> SUFFICES ASSUME CoreInv, SnapshotRestorable, [Next]_vars, ~wrapped' PROVE Restorable(reg')
  BY DEF SnapshotRestorable
<1>1. CASE UNCHANGED vars
  BY <1>1 DEF vars, SnapshotRestorable
<1> SUFFICES ASSUME Next PROVE Restorable(reg')
  BY <1>1
<1>2. /\ reg \in Registry /\ CountersInRange(reg) /\ Sound(reg) /\ runtime_sequence \in Nat \ {0}
      /\ TokensBelow(reg, runtime_sequence)
  BY DEF CoreInv
<1>3. Restorable(reg) /\ ~Wraps
  BY ZenonT(40) DEF Next, SnapshotRestorable
<1>4. reg'.next_sequence = NextU64(reg.next_sequence) => NextU64(reg.next_sequence) = reg.next_sequence + 1
  BY SMTT(40), <1>2, <1>3, NextU64Increments, RegistryParts DEF Wraps, CountersInRange
<1>5. reg'.next_task_id = NextU64(reg.next_task_id) => NextU64(reg.next_task_id) = reg.next_task_id + 1
  BY SMTT(40), <1>2, <1>3, NextU64Increments, RegistryParts DEF Wraps, CountersInRange
<1>6. \A i \in 1 .. Len(reg.tasks) : reg.tasks[i].runtime # runtime_sequence
  BY <1>2, NewToken
<1>7. ASSUME NEW app \in Apps, NEW version \in Versions, DoRelaunch(app, version) PROVE Restorable(reg')
  <2>1. PICK k \in 1 .. Len(reg.tasks) : Promotes(reg, reg', k, runtime_sequence)
    BY SMTT(40), <1>2, <1>7, RelaunchPromotes DEF DoRelaunch, CountersInRange
  <2>2. NextU64(reg.next_sequence) = reg.next_sequence + 1
    BY <1>4, <2>1 DEF Promotes
  <2> QED BY SMTT(40), <1>2, <1>3, <1>6, <2>1, <2>2, PromotesRestorable
<1>8. ASSUME NEW app \in Apps, NEW version \in Versions, NEW victim, DoLaunch(app, version, victim)
      PROVE  Restorable(reg')
  <2>1. CanLaunchNew(reg, app, victim) /\ reg' = LaunchNew(reg, app, version, runtime_sequence, victim)
    BY <1>8 DEF DoLaunch
  <2>2. \A i \in 1 .. Len(reg.tasks) : reg.tasks[i].app_id # app
    <3>1. ByApp(reg.tasks, app) = {}
      BY <2>1 DEF CanLaunchNew
    <3> QED BY ZenonT(40), <1>2, <3>1, LookupByApp
  <2>3. \/ Len(reg.tasks) # Capacity /\ Adds(reg, reg', app, runtime_sequence)
        \/ \E old \in Registry : Removes(reg, old, 1) /\ Adds(old, reg', app, runtime_sequence)
    BY SMTT(40), <1>2, <2>1, LaunchNewAdds DEF CountersInRange
  <2>4. CASE Len(reg.tasks) # Capacity /\ Adds(reg, reg', app, runtime_sequence)
    <3>1. Len(reg.tasks) < Capacity
      BY SMTT(40), <1>2, <2>4, RegistryParts, CapacityAssumption DEF Sound, WithinCapacity
    <3>2. /\ NextU64(reg.next_sequence) = reg.next_sequence + 1
          /\ NextU64(reg.next_task_id) = reg.next_task_id + 1
      BY SMTT(40), <1>4, <1>5, <2>4 DEF Adds
    <3> QED BY SMTT(40), <1>2, <1>3, <1>6, <2>2, <2>4, <3>1, <3>2, AddsRestorable
  <2>5. ASSUME NEW old \in Registry, Removes(reg, old, 1), Adds(old, reg', app, runtime_sequence)
        PROVE  Restorable(reg')
    <3>1. Restorable(old) /\ Len(old.tasks) < Capacity
      BY SMTT(40), <1>2, <1>3, <2>5, RemovesRestorable, RemovesSound
    <3>2. old.next_sequence = reg.next_sequence /\ old.next_task_id = reg.next_task_id
      BY <2>5 DEF Removes
    <3>3. /\ NextU64(old.next_sequence) = old.next_sequence + 1
          /\ NextU64(old.next_task_id) = old.next_task_id + 1
      BY SMTT(40), <1>4, <1>5, <2>5, <3>2 DEF Adds
    <3>4. \A i \in 1 .. Len(old.tasks) : old.tasks[i].app_id # app /\ old.tasks[i].runtime # runtime_sequence
      <4>1. PICK f \in [1 .. (Len(reg.tasks) - 1) -> 1 .. Len(reg.tasks)] :
               \A j \in 1 .. (Len(reg.tasks) - 1) : old.tasks[j] = reg.tasks[f[j]]
        BY SMTT(40), <1>2, <2>5, RemovesIndex
      <4> QED BY SMTT(40), <1>6, <2>2, <2>5, <4>1 DEF Removes
    <3> QED BY SMTT(40), <1>2, <2>5, <3>1, <3>3, <3>4, AddsRestorable
  <2> QED BY <2>3, <2>4, <2>5
<1>9. ASSUME NEW victim, DoEvict(victim) PROVE Restorable(reg')
  BY SMTT(40), <1>2, <1>3, <1>9, EvictRemoves, RemovesRestorable DEF DoEvict
<1>10. ASSUME NEW id, DoActivate(id) PROVE Restorable(reg')
  <2>1. PICK k \in 1 .. Len(reg.tasks) :
           reg.tasks[k].state \in Resident /\ Promotes(reg, reg', k, reg.tasks[k].runtime)
    BY SMTT(40), <1>2, <1>10, ActivatePromotes DEF DoActivate, CountersInRange
  <2>2. NextU64(reg.next_sequence) = reg.next_sequence + 1
    BY SMTT(40), <1>4, <2>1 DEF Promotes
  <2>3. /\ reg.tasks[k].runtime # 0
        /\ \A i \in 1 .. Len(reg.tasks) : i # k => reg.tasks[i].runtime # reg.tasks[k].runtime
    BY SMTT(40), <1>2, <1>3, <2>1, RegistryParts DEF Sound, ResidentIffBound, Restorable, UniqueTokens
  <2> QED BY SMTT(40), <1>2, <1>3, <2>1, <2>2, <2>3, PromotesRestorable
<1>11. ASSUME NEW id, DoFreeze(id) PROVE Restorable(reg')
  BY SMTT(40), <1>2, <1>3, <1>11, FreezeDemotes, DemotesRestorable DEF DoFreeze
<1>12. ASSUME NEW id, NEW status \in CheckpointStatus, DoCheckpoint(id, status) PROVE Restorable(reg')
  BY SMTT(40), <1>2, <1>3, <1>12, CheckpointDemotes, DemotesRestorable DEF DoCheckpoint
<1>13. ASSUME NEW id, NEW generation \in Thumbnails, DoUpdateThumbnail(id, generation) PROVE Restorable(reg')
  BY SMTT(40), <1>2, <1>3, <1>13, UpdateThumbnailDemotes, DemotesRestorable, ThumbnailsAssumption DEF DoUpdateThumbnail
<1>14. ASSUME NEW id, DoClose(id) PROVE Restorable(reg')
  BY SMTT(40), <1>2, <1>3, <1>14, CloseRemoves, RemovesRestorable DEF DoClose
<1>15. ASSUME NEW token, UnitExits(token) PROVE Restorable(reg')
  BY <1>3, <1>15 DEF UnitExits
<1>16. ASSUME NEW token, DoRuntimeExited(token) PROVE Restorable(reg')
  BY SMTT(40), <1>2, <1>3, <1>16, RuntimeExitedDemotes, DemotesRestorable DEF DoRuntimeExited
<1> QED BY SMTT(40), <1>7, <1>8, <1>9, <1>10, <1>11, <1>12, <1>13, <1>14, <1>15, <1>16 DEF Next, Operation

(* Until a counter wraps, restore() accepts every registry the operations  *)
(* reach: in creation order, one foreground task, no identifier or runtime *)
(* used twice and none that a later task could be given (tasks.rs, restore *)
(* and validate_snapshot).                                                 *)
THEOREM SavedCanBeRestored == Spec => []SnapshotRestorable
<1>1. Init => SnapshotRestorable
  <2>1. EmptyRegistry.tasks = <<>> /\ DOMAIN <<>> = {} /\ Len(<<>>) = 0
    BY DEF EmptyRegistry
  <2>2. Restorable(EmptyRegistry)
    BY SMTT(40), <2>1, CapacityAssumption DEF Restorable, WithinCapacity, CreationOrdered, OneForeground, ResidentIffBound,
         UniqueIds, UniqueApps, UniqueTokens, FreshIdentifiers
  <2> QED BY <2>2 DEF Init, SnapshotRestorable
<1>2. Spec => []CoreInv
  BY CoreInit, CoreStep, PTL DEF Spec
<1> QED BY <1>1, <1>2, RestorableStep, PTL DEF Spec
==============================================================================
