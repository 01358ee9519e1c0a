---------------------------- MODULE TaskOpsProofs ----------------------------
(***************************************************************************)
(* What the operations of TaskOps do to a registry, for every set of       *)
(* applications, capacity and counter width: each of them demotes,         *)
(* promotes, removes or adds a task, and four lemmas per invariant say     *)
(* what such a change keeps.                                               *)
(***************************************************************************)
EXTENDS TaskOps, WellFoundedInduction, TLAPS

(* A function on 1..n into S is a sequence over S of length n. *)
LEMMA FunctionIsSequence ==
    ASSUME NEW S, NEW n \in Nat, NEW f \in [1 .. n -> S]
    PROVE  f \in Seq(S) /\ Len(f) = n /\ DOMAIN f = 1 .. n
OBVIOUS

(* Two sequences joined. *)
LEMMA Joined ==
    ASSUME NEW S, NEW a \in Seq(S), NEW b \in Seq(S)
    PROVE  /\ a \o b \in Seq(S)
           /\ Len(a \o b) = Len(a) + Len(b)
           /\ \A j \in 1 .. (Len(a) + Len(b)) :
                 (a \o b)[j] = IF j <= Len(a) THEN a[j] ELSE b[j - Len(a)]
OBVIOUS

(* What RemoveIndex leaves: the other elements, in their order. *)
LEMMA RemoveIndexElements ==
    ASSUME NEW S, NEW s \in Seq(S), NEW i \in 1 .. Len(s)
    PROVE  /\ RemoveIndex(s, i) \in Seq(S)
           /\ Len(RemoveIndex(s, i)) = Len(s) - 1
           /\ \A j \in 1 .. (Len(s) - 1) : RemoveIndex(s, i)[j] = s[IF j < i THEN j ELSE j + 1]
<1> DEFINE a == SubSeq(s, 1, i - 1)
           b == SubSeq(s, i + 1, Len(s))
<1>1. a \in Seq(S) /\ Len(a) = i - 1 /\ \A j \in 1 .. (i - 1) : a[j] = s[j]
  OBVIOUS
<1>2. b \in Seq(S) /\ Len(b) = Len(s) - i /\ \A j \in 1 .. (Len(s) - i) : b[j] = s[i + j]
  OBVIOUS
<1>3. RemoveIndex(s, i) = a \o b
  BY DEF RemoveIndex
<1> HIDE DEF a, b
<1>4. /\ a \o b \in Seq(S)
      /\ Len(a \o b) = Len(a) + Len(b)
      /\ \A j \in 1 .. (Len(a) + Len(b)) :
            (a \o b)[j] = IF j <= Len(a) THEN a[j] ELSE b[j - Len(a)]
  BY Zenon, <1>1, <1>2, Joined
<1>5. i \in Nat /\ Len(s) \in Nat
  OBVIOUS
<1>6. ASSUME NEW j \in 1 .. (Len(s) - 1)
      PROVE  (a \o b)[j] = s[IF j < i THEN j ELSE j + 1]
  <2>1. CASE j < i
    BY <1>1, <1>2, <1>4, <1>5, <2>1
  <2>2. CASE ~(j < i)
    <3>1. j - Len(a) \in 1 .. (Len(s) - i) /\ i + (j - Len(a)) = j + 1
      BY <1>1, <1>5, <2>2
    <3>2. (a \o b)[j] = b[j - Len(a)]
      BY <1>1, <1>2, <1>4, <1>5, <2>2
    <3>3. b[j - Len(a)] = s[i + (j - Len(a))]
      BY <1>2, <3>1
    <3> QED BY <2>2, <3>1, <3>2, <3>3
  <2> QED BY Zenon, <2>1, <2>2
<1> QED BY <1>1, <1>2, <1>3, <1>4, <1>5, <1>6

-----------------------------------------------------------------------------
(* A lookup finds an element whenever there is one, and at most one. *)
LEMMA FirstExists ==
    ASSUME NEW I \in SUBSET Nat
    PROVE  /\ First(I) \subseteq I
           /\ I # {} => First(I) # {}
           /\ \A i, j \in First(I) : i = j
<1>1. ASSUME I # {} PROVE First(I) # {}
  <2>1. PICK x \in I : \A y \in I : ~(<<y, x>> \in OpToRel(<, Nat))
    BY <1>1, NatLessThanWellFounded, WFMin, Zenon
  <2>2. \A y \in I : ~(y < x)
    BY Zenon, <2>1 DEF OpToRel
  <2>3. x \in First(I)
    BY <2>2 DEF First
  <2> QED BY <2>3
<1> QED BY <1>1 DEF First

-----------------------------------------------------------------------------
(* What the operations do to the tasks.                                    *)

(* Two records that differ at most in their state. *)
SameButState(t, u) ==
    /\ u.task_id = t.task_id
    /\ u.app_id = t.app_id
    /\ u.created_sequence = t.created_sequence
    /\ u.last_activated_sequence = t.last_activated_sequence
    /\ u.runtime = t.runtime

(* background_foreground changes only states, and only from foreground to  *)
(* background; when one task at most is in the foreground, no task but the *)
(* excepted one stays there.                                               *)
LEMMA BackgroundShape ==
    ASSUME NEW ts \in Seq(TaskRecord), NEW except
    PROVE  LET us == BackgroundForeground(ts, except)
           IN  /\ us \in Seq(TaskRecord)
               /\ Len(us) = Len(ts)
               /\ \A i \in 1 .. Len(ts) :
                     /\ SameButState(ts[i], us[i])
                     /\ \/ us[i].state = ts[i].state
                        \/ ts[i].state = "foreground" /\ us[i].state = "background"
               /\ (\A i, j \in 1 .. Len(ts) :
                       ts[i].state = "foreground" /\ ts[j].state = "foreground" => i = j)
                   => \A i \in 1 .. Len(ts) : us[i].state = "foreground" => ts[i].task_id = except
<1> DEFINE F  == {i \in DOMAIN ts : ts[i].state = "foreground" /\ ts[i].task_id # except}
           us == BackgroundForeground(ts, except)
<1>1. DOMAIN ts = 1 .. Len(ts) /\ Len(ts) \in Nat /\ \A i \in 1 .. Len(ts) : ts[i] \in TaskRecord
  OBVIOUS
<1>2. F \in SUBSET Nat
  BY <1>1
<1>3. us = [i \in 1 .. Len(ts) |->
              IF i \in First(F) THEN [ts[i] EXCEPT !.state = "background"] ELSE ts[i]]
  BY <1>1 DEF BackgroundForeground
<1>4. First(F) \subseteq F /\ (F # {} => First(F) # {})
  BY Zenon, <1>2, FirstExists
<1>5. \A i \in 1 .. Len(ts) : [ts[i] EXCEPT !.state = "background"] \in TaskRecord
  BY ZenonT(40), <1>1 DEF TaskRecord, TaskStates
<1> HIDE DEF us, F
<1>6. us \in [1 .. Len(ts) -> TaskRecord]
  BY <1>1, <1>3, <1>5
<1>7. us \in Seq(TaskRecord) /\ Len(us) = Len(ts)
  BY <1>1, <1>6, FunctionIsSequence
<1>8. ASSUME NEW i \in 1 .. Len(ts)
      PROVE  /\ SameButState(ts[i], us[i])
             /\ \/ us[i].state = ts[i].state
                \/ ts[i].state = "foreground" /\ us[i].state = "background"
  <2>1. CASE i \in First(F)
    <3>1. ts[i].state = "foreground"
      BY <1>4, <2>1 DEF F
    <3>2. us[i] = [ts[i] EXCEPT !.state = "background"]
      BY <1>3, <2>1
    <3> QED BY <1>1, <3>1, <3>2 DEF SameButState, TaskRecord
  <2>2. CASE i \notin First(F)
    <3>1. us[i] = ts[i]
      BY <1>3, <2>2
    <3> QED BY <3>1 DEF SameButState
  <2> QED BY <2>1, <2>2
<1>9. ASSUME \A i, j \in 1 .. Len(ts) :
                ts[i].state = "foreground" /\ ts[j].state = "foreground" => i = j,
             NEW i \in 1 .. Len(ts), us[i].state = "foreground"
      PROVE  ts[i].task_id = except
  <2>1. ts[i].state = "foreground"
    BY <1>8, <1>9
  <2>2. SUFFICES ASSUME ts[i].task_id # except PROVE FALSE
    OBVIOUS
  <2>3. i \in F
    BY <1>1, <2>1, <2>2 DEF F
  <2>4. PICK k \in First(F) : TRUE
    BY <1>4, <2>3
  <2>5. k \in 1 .. Len(ts) /\ ts[k].state = "foreground"
    BY <1>1, <1>4, <2>4 DEF F
  <2>6. k = i
    BY <1>9, <2>1, <2>5
  <2>7. us[i] = [ts[i] EXCEPT !.state = "background"]
    BY <1>3, <2>4, <2>6
  <2>8. us[i].state = "background"
    BY <1>1, <2>7 DEF TaskRecord
  <2> QED BY <1>9, <2>8
<1> QED BY <1>7, <1>8, <1>9 DEF us

(* The tasks of r and of s correspond one to one and keep their identity   *)
(* and their history; the counters stay.                                   *)
SameHistory(t, u) ==
    /\ u.task_id = t.task_id
    /\ u.app_id = t.app_id
    /\ u.created_sequence = t.created_sequence
    /\ u.last_activated_sequence = t.last_activated_sequence

(* freeze, checkpoint, runtime_exited and update_thumbnail: no task gains  *)
(* a runtime or the foreground, and one that loses its runtime is no       *)
(* longer resident.                                                        *)
Demotes(r, s) ==
    /\ s \in Registry
    /\ Len(s.tasks) = Len(r.tasks)
    /\ s.next_task_id = r.next_task_id
    /\ s.next_sequence = r.next_sequence
    /\ \A i \in 1 .. Len(r.tasks) :
          /\ SameHistory(r.tasks[i], s.tasks[i])
          /\ \/ /\ s.tasks[i].state = r.tasks[i].state
                /\ s.tasks[i].runtime = r.tasks[i].runtime
             \/ /\ r.tasks[i].state \in {"background", "frozen"}
                /\ s.tasks[i].state = "frozen"
                /\ s.tasks[i].runtime = r.tasks[i].runtime
             \/ /\ s.tasks[i].state \in {"checkpointed", "crashed"}
                /\ s.tasks[i].runtime = 0

(* The components of a registry. *)
LEMMA RegistryParts ==
    ASSUME NEW r \in Registry
    PROVE  /\ r.tasks \in Seq(TaskRecord)
           /\ Len(r.tasks) \in Nat
           /\ DOMAIN r.tasks = 1 .. Len(r.tasks)
           /\ \A i \in 1 .. Len(r.tasks) : r.tasks[i] \in TaskRecord
           /\ r.next_task_id \in Nat \ {0}
           /\ r.next_sequence \in Nat \ {0}
<1>1. r.tasks \in Seq(TaskRecord) /\ r.next_task_id \in Nat \ {0} /\ r.next_sequence \in Nat \ {0}
  BY DEF Registry
<1> QED BY <1>1

(* A registry whose tasks are replaced is a registry. *)
LEMMA ReplaceTasks ==
    ASSUME NEW r \in Registry, NEW f \in [1 .. Len(r.tasks) -> TaskRecord]
    PROVE  /\ [r EXCEPT !.tasks = f] \in Registry
           /\ [r EXCEPT !.tasks = f].tasks = f
           /\ Len(f) = Len(r.tasks)
           /\ [r EXCEPT !.tasks = f].next_task_id = r.next_task_id
           /\ [r EXCEPT !.tasks = f].next_sequence = r.next_sequence
<1>1. f \in Seq(TaskRecord) /\ Len(f) = Len(r.tasks)
  BY RegistryParts, FunctionIsSequence
<1> QED BY <1>1 DEF Registry

(* What the lookups by task, application and runtime token find. *)
LEMMA LookupById ==
    ASSUME NEW r \in Registry, NEW id
    PROVE  /\ ById(r.tasks, id) \subseteq {i \in 1 .. Len(r.tasks) : r.tasks[i].task_id = id}
           /\ \A i, j \in ById(r.tasks, id) : i = j
           /\ \A i \in 1 .. Len(r.tasks) : r.tasks[i].task_id = id => ById(r.tasks, id) # {}
<1> DEFINE J == {i \in DOMAIN r.tasks : r.tasks[i].task_id = id}
<1>1. DOMAIN r.tasks = 1 .. Len(r.tasks) /\ Len(r.tasks) \in Nat
  BY RegistryParts
<1>2. J \in SUBSET Nat
  BY <1>1
<1>3. First(J) \subseteq J /\ (J # {} => First(J) # {}) /\ \A i, j \in First(J) : i = j
  BY Zenon, <1>2, FirstExists
<1> QED BY Zenon, <1>1, <1>3 DEF ById

LEMMA LookupByApp ==
    ASSUME NEW r \in Registry, NEW app
    PROVE  /\ ByApp(r.tasks, app) \subseteq {i \in 1 .. Len(r.tasks) : r.tasks[i].app_id = app}
           /\ \A i, j \in ByApp(r.tasks, app) : i = j
           /\ \A i \in 1 .. Len(r.tasks) : r.tasks[i].app_id = app => ByApp(r.tasks, app) # {}
<1> DEFINE J == {i \in DOMAIN r.tasks : r.tasks[i].app_id = app}
<1>1. DOMAIN r.tasks = 1 .. Len(r.tasks) /\ Len(r.tasks) \in Nat
  BY RegistryParts
<1>2. J \in SUBSET Nat
  BY <1>1
<1>3. First(J) \subseteq J /\ (J # {} => First(J) # {}) /\ \A i, j \in First(J) : i = j
  BY Zenon, <1>2, FirstExists
<1> QED BY Zenon, <1>1, <1>3 DEF ByApp

LEMMA LookupByToken ==
    ASSUME NEW r \in Registry, NEW token
    PROVE  ByToken(r.tasks, token) \subseteq {i \in 1 .. Len(r.tasks) : r.tasks[i].runtime = token}
BY RegistryParts DEF ByToken, First

(* The operations that change the one task a lookup found. *)
LEMMA FreezeDemotes ==
    ASSUME NEW r \in Registry, NEW id, CanFreeze(r, id)
    PROVE  Demotes(r, Freeze(r, id))
<1> DEFINE I == ById(r.tasks, id)
           f == [i \in 1 .. Len(r.tasks) |->
                   IF i \in I THEN [r.tasks[i] EXCEPT !.state = "frozen"] ELSE r.tasks[i]]
<1>1. Freeze(r, id) = [r EXCEPT !.tasks = f]
  BY Zenon, RegistryParts DEF Freeze
<1>2. \A i \in 1 .. Len(r.tasks) : r.tasks[i] \in TaskRecord
  BY RegistryParts
<1>3. \A i \in I : r.tasks[i].state \in {"background", "frozen"}
  <2>1. \A i, j \in I : i = j
    BY Zenon, LookupById
  <2> QED BY <2>1 DEF CanFreeze
<1>4. \A i \in 1 .. Len(r.tasks) :
        LET u == [r.tasks[i] EXCEPT !.state = "frozen"]
        IN  /\ u \in TaskRecord
            /\ SameHistory(r.tasks[i], u)
            /\ u.state = "frozen" /\ u.runtime = r.tasks[i].runtime
  BY <1>2 DEF TaskRecord, TaskStates, SameHistory
<1> HIDE DEF I
<1>5. f \in [1 .. Len(r.tasks) -> TaskRecord]
  BY <1>2, <1>4
<1>6. \A i \in 1 .. Len(r.tasks) :
        f[i] = IF i \in I THEN [r.tasks[i] EXCEPT !.state = "frozen"] ELSE r.tasks[i]
  OBVIOUS
<1> HIDE DEF f
<1>7. \A i \in 1 .. Len(r.tasks) :
        /\ SameHistory(r.tasks[i], f[i])
        /\ \/ f[i].state = r.tasks[i].state /\ f[i].runtime = r.tasks[i].runtime
           \/ /\ r.tasks[i].state \in {"background", "frozen"}
              /\ f[i].state = "frozen" /\ f[i].runtime = r.tasks[i].runtime
  BY ZenonT(40), <1>3, <1>4, <1>6 DEF SameHistory
<1> QED BY <1>1, <1>5, <1>7, ReplaceTasks DEF Demotes

LEMMA CheckpointDemotes ==
    ASSUME NEW r \in Registry, NEW id, NEW status \in CheckpointStatus
    PROVE  Demotes(r, Checkpoint(r, id, status))
<1> DEFINE I == ById(r.tasks, id)
           f == [i \in 1 .. Len(r.tasks) |->
                   IF i \in I THEN [r.tasks[i] EXCEPT !.state = "checkpointed", !.checkpoint = status, !.runtime = 0] ELSE r.tasks[i]]
<1>1. Checkpoint(r, id, status) = [r EXCEPT !.tasks = f]
  BY Zenon, RegistryParts DEF Checkpoint
<1>2. \A i \in 1 .. Len(r.tasks) : r.tasks[i] \in TaskRecord
  BY RegistryParts
<1>4. \A i \in 1 .. Len(r.tasks) :
        LET u == [r.tasks[i] EXCEPT !.state = "checkpointed", !.checkpoint = status, !.runtime = 0]
        IN  /\ u \in TaskRecord
            /\ SameHistory(r.tasks[i], u)
            /\ u.state = "checkpointed" /\ u.runtime = 0
  BY ZenonT(40), <1>2 DEF TaskRecord, TaskStates, SameHistory
<1> HIDE DEF I
<1>5. f \in [1 .. Len(r.tasks) -> TaskRecord]
  BY Zenon, <1>2, <1>4
<1>6. \A i \in 1 .. Len(r.tasks) :
        f[i] = IF i \in I THEN [r.tasks[i] EXCEPT !.state = "checkpointed", !.checkpoint = status, !.runtime = 0] ELSE r.tasks[i]
  BY ZenonT(40)
<1> HIDE DEF f
<1>7. \A i \in 1 .. Len(r.tasks) :
        /\ SameHistory(r.tasks[i], f[i])
        /\ \/ f[i].state = r.tasks[i].state /\ f[i].runtime = r.tasks[i].runtime
           \/ f[i].state \in {"checkpointed", "crashed"} /\ f[i].runtime = 0
  BY Zenon, <1>4, <1>6 DEF SameHistory
<1> QED BY <1>1, <1>5, <1>7, ReplaceTasks DEF Demotes

LEMMA RuntimeExitedDemotes ==
    ASSUME NEW r \in Registry, NEW token
    PROVE  Demotes(r, RuntimeExited(r, token))
<1> DEFINE I == ByToken(r.tasks, token)
           f == [i \in 1 .. Len(r.tasks) |->
                   IF i \in I THEN [r.tasks[i] EXCEPT !.state = "crashed", !.runtime = 0] ELSE r.tasks[i]]
<1>1. RuntimeExited(r, token) = [r EXCEPT !.tasks = f]
  BY Zenon, RegistryParts DEF RuntimeExited
<1>2. \A i \in 1 .. Len(r.tasks) : r.tasks[i] \in TaskRecord
  BY RegistryParts
<1>4. \A i \in 1 .. Len(r.tasks) :
        LET u == [r.tasks[i] EXCEPT !.state = "crashed", !.runtime = 0]
        IN  /\ u \in TaskRecord
            /\ SameHistory(r.tasks[i], u)
            /\ u.state = "crashed" /\ u.runtime = 0
  BY ZenonT(40), <1>2 DEF TaskRecord, TaskStates, SameHistory
<1> HIDE DEF I
<1>5. f \in [1 .. Len(r.tasks) -> TaskRecord]
  BY Zenon, <1>2, <1>4
<1>6. \A i \in 1 .. Len(r.tasks) :
        f[i] = IF i \in I THEN [r.tasks[i] EXCEPT !.state = "crashed", !.runtime = 0] ELSE r.tasks[i]
  BY ZenonT(40)
<1> HIDE DEF f
<1>7. \A i \in 1 .. Len(r.tasks) :
        /\ SameHistory(r.tasks[i], f[i])
        /\ \/ f[i].state = r.tasks[i].state /\ f[i].runtime = r.tasks[i].runtime
           \/ f[i].state \in {"checkpointed", "crashed"} /\ f[i].runtime = 0
  BY Zenon, <1>4, <1>6 DEF SameHistory
<1> QED BY SMTT(40), <1>1, <1>5, <1>7, ReplaceTasks DEF Demotes

LEMMA UpdateThumbnailDemotes ==
    ASSUME NEW r \in Registry, NEW id, NEW generation \in Nat
    PROVE  Demotes(r, UpdateThumbnail(r, id, generation))
<1> DEFINE I == ById(r.tasks, id)
           f == [i \in 1 .. Len(r.tasks) |->
                   IF i \in I THEN [r.tasks[i] EXCEPT !.thumbnail_generation = generation] ELSE r.tasks[i]]
<1>1. UpdateThumbnail(r, id, generation) = [r EXCEPT !.tasks = f]
  BY Zenon, RegistryParts DEF UpdateThumbnail
<1>2. \A i \in 1 .. Len(r.tasks) : r.tasks[i] \in TaskRecord
  BY RegistryParts
<1>4. \A i \in 1 .. Len(r.tasks) :
        LET u == [r.tasks[i] EXCEPT !.thumbnail_generation = generation]
        IN  /\ u \in TaskRecord
            /\ SameHistory(r.tasks[i], u)
            /\ u.state = r.tasks[i].state /\ u.runtime = r.tasks[i].runtime
  BY Zenon, <1>2 DEF TaskRecord, SameHistory
<1> HIDE DEF I
<1>5. f \in [1 .. Len(r.tasks) -> TaskRecord]
  BY <1>2, <1>4
<1>6. \A i \in 1 .. Len(r.tasks) :
        f[i] = IF i \in I THEN [r.tasks[i] EXCEPT !.thumbnail_generation = generation] ELSE r.tasks[i]
  OBVIOUS
<1> HIDE DEF f
<1>7. \A i \in 1 .. Len(r.tasks) :
        /\ SameHistory(r.tasks[i], f[i])
        /\ \/ f[i].state = r.tasks[i].state /\ f[i].runtime = r.tasks[i].runtime
  BY ZenonT(40), <1>4, <1>6 DEF SameHistory
<1> QED BY <1>1, <1>5, <1>7, ReplaceTasks DEF Demotes

(* launch of a task without a process, and activate: one task takes the    *)
(* foreground, a new activation sequence and the runtime token.            *)
Promotes(r, s, k, token) ==
    /\ s \in Registry
    /\ Len(s.tasks) = Len(r.tasks)
    /\ s.next_task_id = r.next_task_id
    /\ s.next_sequence = NextU64(r.next_sequence)
    /\ k \in 1 .. Len(r.tasks)
    /\ s.tasks[k].task_id = r.tasks[k].task_id
    /\ s.tasks[k].app_id = r.tasks[k].app_id
    /\ s.tasks[k].created_sequence = r.tasks[k].created_sequence
    /\ s.tasks[k].last_activated_sequence = r.next_sequence
    /\ s.tasks[k].state = "foreground"
    /\ s.tasks[k].runtime = token
    /\ \A i \in 1 .. Len(r.tasks) : i # k =>
          /\ SameButState(r.tasks[i], s.tasks[i])
          /\ \/ s.tasks[i].state = r.tasks[i].state
             \/ r.tasks[i].state = "foreground" /\ s.tasks[i].state = "background"
    /\ OneForeground(r) /\ UniqueIds(r) =>
          \A i \in 1 .. Len(r.tasks) : i # k => s.tasks[i].state # "foreground"

(* The wrapping increment stays in 1..u64::MAX. *)
LEMMA NextU64Type ==
    ASSUME NEW n \in Nat \ {0}, n <= U64Max
    PROVE  NextU64(n) \in Nat \ {0} /\ NextU64(n) <= U64Max
BY U64MaxAssumption DEF NextU64

(* Record k replaced by rec, the other tasks sent to the background. *)
Promoted(r, k, rec) ==
    [r EXCEPT !.next_sequence = NextU64(@),
              !.tasks = [i \in 1 .. Len(r.tasks) |->
                 IF i = k THEN rec ELSE BackgroundForeground(r.tasks, r.tasks[k].task_id)[i]]]

(* Replacing record k after background_foreground promotes task k. *)
LEMMA PromoteShape ==
    ASSUME NEW r \in Registry, r.next_sequence <= U64Max,
           NEW k \in 1 .. Len(r.tasks), NEW rec \in TaskRecord,
           rec.task_id = r.tasks[k].task_id,
           rec.app_id = r.tasks[k].app_id,
           rec.created_sequence = r.tasks[k].created_sequence,
           rec.last_activated_sequence = r.next_sequence,
           rec.state = "foreground"
    PROVE  Promotes(r, Promoted(r, k, rec), k, rec.runtime)
<1> DEFINE us == BackgroundForeground(r.tasks, r.tasks[k].task_id)
           f  == [i \in 1 .. Len(r.tasks) |-> IF i = k THEN rec ELSE us[i]]
           s  == Promoted(r, k, rec)
<1>1. /\ Len(r.tasks) \in Nat /\ r.tasks \in Seq(TaskRecord) /\ r.next_sequence \in Nat \ {0}
      /\ DOMAIN r.tasks = 1 .. Len(r.tasks)
  BY RegistryParts
<1>2. /\ us \in Seq(TaskRecord) /\ Len(us) = Len(r.tasks)
      /\ \A i \in 1 .. Len(r.tasks) :
            /\ SameButState(r.tasks[i], us[i])
            /\ \/ us[i].state = r.tasks[i].state
               \/ r.tasks[i].state = "foreground" /\ us[i].state = "background"
      /\ (\A i, j \in 1 .. Len(r.tasks) :
              r.tasks[i].state = "foreground" /\ r.tasks[j].state = "foreground" => i = j)
            => \A i \in 1 .. Len(r.tasks) : us[i].state = "foreground" => r.tasks[i].task_id = r.tasks[k].task_id
  BY <1>1, BackgroundShape
<1>3. f \in [1 .. Len(r.tasks) -> TaskRecord]
  BY <1>2
<1>4. f \in Seq(TaskRecord) /\ Len(f) = Len(r.tasks)
  BY <1>1, <1>3, FunctionIsSequence
<1>5. NextU64(r.next_sequence) \in Nat \ {0} /\ s = [r EXCEPT !.next_sequence = NextU64(@), !.tasks = f]
  BY <1>1, NextU64Type DEF Promoted
<1> HIDE DEF us, s
<1>6. s \in Registry /\ s.tasks = f /\ s.next_task_id = r.next_task_id /\ s.next_sequence = NextU64(r.next_sequence)
  BY ZenonT(40), <1>4, <1>5 DEF Registry
<1>7. f[k] = rec /\ \A i \in 1 .. Len(r.tasks) : i # k => f[i] = us[i]
  OBVIOUS
<1> HIDE DEF f
<1>8. ASSUME OneForeground(r), UniqueIds(r), NEW i \in 1 .. Len(r.tasks), i # k
      PROVE  us[i].state # "foreground"
  BY SMTT(40), <1>1, <1>2, <1>8 DEF OneForeground, UniqueIds
<1>9. \A i \in 1 .. Len(r.tasks) : i # k =>
        /\ SameButState(r.tasks[i], s.tasks[i])
        /\ \/ s.tasks[i].state = r.tasks[i].state
           \/ r.tasks[i].state = "foreground" /\ s.tasks[i].state = "background"
  BY <1>2, <1>6, <1>7
<1>10. OneForeground(r) /\ UniqueIds(r) =>
         \A i \in 1 .. Len(r.tasks) : i # k => s.tasks[i].state # "foreground"
  BY <1>6, <1>7, <1>8
<1>11. s.tasks[k] = rec /\ Len(s.tasks) = Len(r.tasks)
  BY <1>4, <1>6, <1>7
<1>12. Promotes(r, s, k, rec.runtime)
  BY <1>6, <1>9, <1>10, <1>11 DEF Promotes
<1> QED BY <1>12 DEF s

LEMMA ActivatePromotes ==
    ASSUME NEW r \in Registry, r.next_sequence <= U64Max, NEW id, CanActivate(r, id)
    PROVE  \E k \in 1 .. Len(r.tasks) :
              /\ ById(r.tasks, id) = {k}
              /\ r.tasks[k].state \in Resident
              /\ Promotes(r, Activate(r, id), k, r.tasks[k].runtime)
<1>1. PICK k \in ById(r.tasks, id) : r.tasks[k].state \in Resident
  BY DEF CanActivate
<1>2. k \in 1 .. Len(r.tasks) /\ r.tasks[k].task_id = id /\ ById(r.tasks, id) = {k}
  <2>1. /\ ById(r.tasks, id) \subseteq {i \in 1 .. Len(r.tasks) : r.tasks[i].task_id = id}
        /\ \A i, j \in ById(r.tasks, id) : i = j
    BY Zenon, LookupById
  <2> QED BY <1>1, <2>1
<1> DEFINE us  == BackgroundForeground(r.tasks, id)
           rec == [us[k] EXCEPT !.state = "foreground", !.last_activated_sequence = r.next_sequence]
<1>3. /\ us \in Seq(TaskRecord) /\ Len(us) = Len(r.tasks) /\ SameButState(r.tasks[k], us[k])
  BY <1>2, RegistryParts, BackgroundShape
<1>4. DOMAIN us = 1 .. Len(r.tasks) /\ us[k] \in TaskRecord
  BY <1>2, <1>3
<1>5. r.next_sequence \in Nat \ {0}
  BY RegistryParts
<1>6. Activate(r, id) = Promoted(r, k, rec)
  BY Zenon, <1>2, <1>4 DEF Activate, Promoted
<1> HIDE DEF us
<1>7. /\ rec \in TaskRecord
      /\ rec.task_id = r.tasks[k].task_id
      /\ rec.app_id = r.tasks[k].app_id
      /\ rec.created_sequence = r.tasks[k].created_sequence
      /\ rec.last_activated_sequence = r.next_sequence
      /\ rec.state = "foreground"
      /\ rec.runtime = r.tasks[k].runtime
  BY ZenonT(40), <1>3, <1>4, <1>5 DEF TaskRecord, TaskStates, SameButState
<1> HIDE DEF rec
<1>8. Promotes(r, Activate(r, id), k, rec.runtime)
  BY <1>2, <1>6, <1>7, PromoteShape
<1> QED BY <1>1, <1>2, <1>7, <1>8

LEMMA RelaunchPromotes ==
    ASSUME NEW r \in Registry, r.next_sequence <= U64Max,
           NEW app, NEW version \in Versions, NEW token \in Nat, CanRelaunch(r, app)
    PROVE  \E k \in 1 .. Len(r.tasks) :
              /\ ByApp(r.tasks, app) = {k}
              /\ r.tasks[k].app_id = app
              /\ r.tasks[k].state \notin Resident
              /\ Promotes(r, Relaunch(r, app, version, token), k, token)
<1>1. PICK k \in ByApp(r.tasks, app) : r.tasks[k].state \notin Resident
  BY DEF CanRelaunch
<1>2. k \in 1 .. Len(r.tasks) /\ r.tasks[k].app_id = app /\ ByApp(r.tasks, app) = {k}
  <2>1. /\ ByApp(r.tasks, app) \subseteq {i \in 1 .. Len(r.tasks) : r.tasks[i].app_id = app}
        /\ \A i, j \in ByApp(r.tasks, app) : i = j
    BY Zenon, LookupByApp
  <2> QED BY <1>1, <2>1
<1> DEFINE us  == BackgroundForeground(r.tasks, r.tasks[k].task_id)
           rec == [us[k] EXCEPT !.version = version, !.state = "foreground", !.runtime = token,
                                !.last_activated_sequence = r.next_sequence]
<1>3. /\ us \in Seq(TaskRecord) /\ Len(us) = Len(r.tasks) /\ SameButState(r.tasks[k], us[k])
  BY <1>2, RegistryParts, BackgroundShape
<1>4. DOMAIN us = 1 .. Len(r.tasks) /\ us[k] \in TaskRecord
  BY <1>2, <1>3
<1>5. r.next_sequence \in Nat \ {0} /\ TheIndex(ByApp(r.tasks, app)) = k
  BY <1>2, RegistryParts DEF TheIndex
<1>6. Relaunch(r, app, version, token) = Promoted(r, k, rec)
  BY Zenon, <1>2, <1>4, <1>5 DEF Relaunch, Promoted
<1> HIDE DEF us
<1>7. /\ rec \in TaskRecord
      /\ rec.task_id = r.tasks[k].task_id
      /\ rec.app_id = r.tasks[k].app_id
      /\ rec.created_sequence = r.tasks[k].created_sequence
      /\ rec.last_activated_sequence = r.next_sequence
      /\ rec.state = "foreground"
      /\ rec.runtime = token
  BY Zenon, <1>3, <1>4, <1>5 DEF TaskRecord, TaskStates, SameButState
<1> HIDE DEF rec
<1>8. Promotes(r, Relaunch(r, app, version, token), k, rec.runtime)
  BY <1>2, <1>6, <1>7, PromoteShape
<1> QED BY <1>1, <1>2, <1>7, <1>8

(* close and evict_capacity_victim: one task disappears, the others close  *)
(* ranks.                                                                  *)
Removes(r, s, k) ==
    /\ s \in Registry
    /\ k \in 1 .. Len(r.tasks)
    /\ Len(s.tasks) = Len(r.tasks) - 1
    /\ s.next_task_id = r.next_task_id
    /\ s.next_sequence = r.next_sequence
    /\ \A j \in 1 .. (Len(r.tasks) - 1) : s.tasks[j] = r.tasks[IF j < k THEN j ELSE j + 1]

LEMMA CloseRemoves ==
    ASSUME NEW r \in Registry, NEW id, CanClose(r, id)
    PROVE  \E k \in 1 .. Len(r.tasks) :
              ById(r.tasks, id) = {k} /\ Removes(r, Close(r, id), k)
<1>1. PICK k \in ById(r.tasks, id) : TRUE
  BY DEF CanClose
<1>2. k \in 1 .. Len(r.tasks) /\ ById(r.tasks, id) = {k}
  <2>1. /\ ById(r.tasks, id) \subseteq {i \in 1 .. Len(r.tasks) : r.tasks[i].task_id = id}
        /\ \A i, j \in ById(r.tasks, id) : i = j
    BY Zenon, LookupById
  <2> QED BY <1>1, <2>1
<1>3. TheIndex(ById(r.tasks, id)) = k
  BY <1>2 DEF TheIndex
<1>4. Close(r, id) = [r EXCEPT !.tasks = RemoveIndex(r.tasks, k)]
  BY <1>3 DEF Close
<1>5. /\ RemoveIndex(r.tasks, k) \in Seq(TaskRecord)
      /\ Len(RemoveIndex(r.tasks, k)) = Len(r.tasks) - 1
      /\ \A j \in 1 .. (Len(r.tasks) - 1) : RemoveIndex(r.tasks, k)[j] = r.tasks[IF j < k THEN j ELSE j + 1]
  BY ZenonT(40), <1>2, RegistryParts, RemoveIndexElements
<1>6. Close(r, id) \in Registry /\ Close(r, id).tasks = RemoveIndex(r.tasks, k)
      /\ Close(r, id).next_task_id = r.next_task_id /\ Close(r, id).next_sequence = r.next_sequence
  BY <1>4, <1>5 DEF Registry
<1> QED BY <1>2, <1>5, <1>6 DEF Removes

LEMMA EvictRemoves ==
    ASSUME NEW r \in Registry, NEW victim, CanEvict(r, victim)
    PROVE  Removes(r, EvictCapacityVictim(r, victim), 1) /\ r.tasks[1].task_id = victim
<1>1. r.tasks \in Seq(TaskRecord) /\ Len(r.tasks) \in Nat \ {0} /\ r.tasks # <<>>
  BY CapacityAssumption, RegistryParts DEF CanEvict
<1>2. /\ Tail(r.tasks) \in Seq(TaskRecord)
      /\ Len(Tail(r.tasks)) = Len(r.tasks) - 1
      /\ \A j \in 1 .. (Len(r.tasks) - 1) : Tail(r.tasks)[j] = r.tasks[j + 1]
  BY <1>1
<1>3. /\ EvictCapacityVictim(r, victim) \in Registry
      /\ EvictCapacityVictim(r, victim).tasks = Tail(r.tasks)
      /\ EvictCapacityVictim(r, victim).next_task_id = r.next_task_id
      /\ EvictCapacityVictim(r, victim).next_sequence = r.next_sequence
  BY SMTT(40), <1>2 DEF EvictCapacityVictim, Registry
<1>4. \A j \in 1 .. (Len(r.tasks) - 1) : ~(j < 1)
  BY <1>1
<1> QED BY <1>1, <1>2, <1>3, <1>4 DEF Removes, CanEvict

(* launch of a new task: it takes the foreground and fresh identifiers.    *)
Adds(r, s, app, token) ==
    LET n == Len(r.tasks) + 1
    IN  /\ s \in Registry
        /\ Len(s.tasks) = n
        /\ s.next_task_id = NextU64(r.next_task_id)
        /\ s.next_sequence = NextU64(r.next_sequence)
        /\ s.tasks[n].task_id = r.next_task_id
        /\ s.tasks[n].app_id = app
        /\ s.tasks[n].created_sequence = r.next_sequence
        /\ s.tasks[n].last_activated_sequence = r.next_sequence
        /\ s.tasks[n].state = "foreground"
        /\ s.tasks[n].runtime = token
        /\ \A i \in 1 .. Len(r.tasks) :
              /\ SameButState(r.tasks[i], s.tasks[i])
              /\ \/ s.tasks[i].state = r.tasks[i].state
                 \/ r.tasks[i].state = "foreground" /\ s.tasks[i].state = "background"
        /\ OneForeground(r) => \A i \in 1 .. Len(r.tasks) : s.tasks[i].state # "foreground"

(* A record appended after background_foreground. *)
Launched(r, rec) ==
    [tasks |-> Append(BackgroundForeground(r.tasks, 0), rec),
     next_task_id |-> NextU64(r.next_task_id),
     next_sequence |-> NextU64(r.next_sequence)]

LEMMA AppendAdds ==
    ASSUME NEW r \in Registry, r.next_task_id <= U64Max, r.next_sequence <= U64Max,
           NEW rec \in TaskRecord,
           rec.task_id = r.next_task_id,
           rec.created_sequence = r.next_sequence,
           rec.last_activated_sequence = r.next_sequence,
           rec.state = "foreground"
    PROVE  Adds(r, Launched(r, rec), rec.app_id, rec.runtime)
<1> DEFINE us == BackgroundForeground(r.tasks, 0)
           s  == Launched(r, rec)
           n  == Len(r.tasks) + 1
<1>1. /\ Len(r.tasks) \in Nat /\ r.tasks \in Seq(TaskRecord) /\ DOMAIN r.tasks = 1 .. Len(r.tasks)
      /\ \A i \in 1 .. Len(r.tasks) : r.tasks[i] \in TaskRecord
      /\ r.next_sequence \in Nat \ {0} /\ r.next_task_id \in Nat \ {0}
  BY RegistryParts
<1>2. /\ us \in Seq(TaskRecord) /\ Len(us) = Len(r.tasks)
      /\ \A i \in 1 .. Len(r.tasks) :
            /\ SameButState(r.tasks[i], us[i])
            /\ \/ us[i].state = r.tasks[i].state
               \/ r.tasks[i].state = "foreground" /\ us[i].state = "background"
      /\ (\A i, j \in 1 .. Len(r.tasks) :
              r.tasks[i].state = "foreground" /\ r.tasks[j].state = "foreground" => i = j)
            => \A i \in 1 .. Len(r.tasks) : us[i].state = "foreground" => r.tasks[i].task_id = 0
  BY <1>1, BackgroundShape
<1>3. NextU64(r.next_sequence) \in Nat \ {0} /\ NextU64(r.next_task_id) \in Nat \ {0}
  BY <1>1, NextU64Type
<1>4. s.tasks = Append(us, rec) /\ s.next_task_id = NextU64(r.next_task_id)
      /\ s.next_sequence = NextU64(r.next_sequence)
      /\ s = [tasks |-> Append(us, rec), next_task_id |-> NextU64(r.next_task_id),
              next_sequence |-> NextU64(r.next_sequence)]
  BY DEF Launched
<1> HIDE DEF us, s
<1>5. /\ s.tasks \in Seq(TaskRecord)
      /\ Len(s.tasks) = n
      /\ s.tasks[n] = rec
      /\ \A i \in 1 .. Len(r.tasks) : s.tasks[i] = us[i]
  BY SMTT(40), <1>1, <1>2, <1>4
<1>6. s \in Registry
  BY <1>3, <1>4, <1>5 DEF Registry
<1>7. OneForeground(r) => \A i \in 1 .. Len(r.tasks) : s.tasks[i].state # "foreground"
  <2>1. \A i \in 1 .. Len(r.tasks) : r.tasks[i].task_id # 0
    BY Zenon, <1>1 DEF TaskRecord
  <2>2. SUFFICES ASSUME OneForeground(r), NEW i \in 1 .. Len(r.tasks), us[i].state = "foreground"
                 PROVE  FALSE
    BY <1>5
  <2> QED BY SMTT(40), <1>1, <1>2, <2>1, <2>2 DEF OneForeground
<1>8. Adds(r, s, rec.app_id, rec.runtime)
  BY <1>2, <1>4, <1>5, <1>6, <1>7 DEF Adds
<1> QED BY <1>8 DEF s

LEMMA LaunchNewAdds ==
    ASSUME NEW r \in Registry, r.next_task_id <= U64Max, r.next_sequence <= U64Max,
           NEW app \in Apps, NEW version \in Versions, NEW token \in Nat, NEW victim,
           CanLaunchNew(r, app, victim)
    PROVE  \/ /\ victim = 0
              /\ Len(r.tasks) # Capacity
              /\ Adds(r, LaunchNew(r, app, version, token, victim), app, token)
           \/ \E old \in Registry :
                /\ r.tasks[1].task_id = victim
                /\ Len(r.tasks) = Capacity
                /\ Removes(r, old, 1)
                /\ Adds(old, LaunchNew(r, app, version, token, victim), app, token)
<1> DEFINE old == IF victim = 0 THEN r ELSE EvictCapacityVictim(r, victim)
           rec == [task_id |-> r.next_task_id, app_id |-> app, version |-> version,
             state |-> "foreground", created_sequence |-> r.next_sequence,
             last_activated_sequence |-> r.next_sequence, checkpoint |-> "not_requested",
             thumbnail_generation |-> 0, runtime |-> token]
           s == LaunchNew(r, app, version, token, victim)
<1>1. rec \in TaskRecord
  BY RegistryParts DEF TaskRecord, TaskStates, CheckpointStatus
<1>2. old.next_task_id = r.next_task_id /\ old.next_sequence = r.next_sequence
        => s = Launched(old, rec)
  BY DEF LaunchNew, Launched
<1>3. rec.task_id = r.next_task_id /\ rec.created_sequence = r.next_sequence /\ rec.app_id = app
      /\ rec.last_activated_sequence = r.next_sequence /\ rec.state = "foreground" /\ rec.runtime = token
  OBVIOUS
<1>4. Len(r.tasks) = Capacity => victim # 0
  <2>1. Len(r.tasks) = Capacity => r.tasks[1] \in TaskRecord
    BY RegistryParts, CapacityAssumption
  <2> QED BY <2>1 DEF CanLaunchNew, CanEvict, TaskRecord
<1> HIDE DEF rec, s
<1>5. CASE Len(r.tasks) = Capacity
  <2>1. CanEvict(r, victim)
    BY <1>5 DEF CanLaunchNew
  <2>2. Removes(r, old, 1) /\ r.tasks[1].task_id = victim
    BY <1>4, <1>5, <2>1, EvictRemoves
  <2> HIDE DEF old
  <2>3. old \in Registry /\ old.next_task_id = r.next_task_id /\ old.next_sequence = r.next_sequence
    BY <2>2 DEF Removes
  <2>4. Adds(old, s, app, token)
    BY SMTT(40), <1>1, <1>2, <1>3, <2>3, AppendAdds
  <2> QED BY <1>5, <2>2, <2>3, <2>4 DEF s
<1>6. CASE Len(r.tasks) # Capacity
  <2>1. victim = 0 /\ old = r
    BY <1>6 DEF CanLaunchNew
  <2> HIDE DEF old
  <2>2. Adds(r, s, app, token)
    BY SMTT(40), <1>1, <1>2, <1>3, <2>1, AppendAdds
  <2> QED BY <1>6, <2>1, <2>2 DEF s
<1> QED BY <1>5, <1>6

-----------------------------------------------------------------------------
(* What each kind of change preserves, whether or not counters wrap.       *)

Sound(r) == WithinCapacity(r) /\ UniqueApps(r) /\ ResidentIffBound(r)

LEMMA DemotesSound ==
    ASSUME NEW r \in Registry, NEW s, Demotes(r, s), Sound(r)
    PROVE  Sound(s)
<1>1. s \in Registry /\ Len(s.tasks) = Len(r.tasks)
  BY DEF Demotes
<1>2. DOMAIN r.tasks = 1 .. Len(r.tasks) /\ DOMAIN s.tasks = 1 .. Len(r.tasks)
  BY <1>1, RegistryParts
<1>3. WithinCapacity(s)
  BY <1>1 DEF Sound, WithinCapacity
<1>4. UniqueApps(s)
  BY <1>2 DEF Demotes, Sound, UniqueApps, SameHistory
<1>5. ResidentIffBound(s)
  BY <1>2 DEF Demotes, Sound, ResidentIffBound, Resident
<1> QED BY <1>3, <1>4, <1>5 DEF Sound

LEMMA PromotesSound ==
    ASSUME NEW r \in Registry, NEW s, NEW k, NEW token, Promotes(r, s, k, token), token # 0, Sound(r)
    PROVE  Sound(s)
<1>1. s \in Registry /\ Len(s.tasks) = Len(r.tasks)
  BY DEF Promotes
<1>2. DOMAIN r.tasks = 1 .. Len(r.tasks) /\ DOMAIN s.tasks = 1 .. Len(r.tasks)
  BY <1>1, RegistryParts
<1>3. WithinCapacity(s)
  BY <1>1 DEF Sound, WithinCapacity
<1>4. UniqueApps(s)
  <2>1. \A i \in 1 .. Len(r.tasks) : s.tasks[i].app_id = r.tasks[i].app_id
    BY DEF Promotes, SameButState
  <2> QED BY <1>2, <2>1 DEF Sound, UniqueApps
<1>5. ResidentIffBound(s)
  <2>1. ASSUME NEW i \in 1 .. Len(r.tasks) PROVE s.tasks[i].state \in Resident <=> s.tasks[i].runtime # 0
    <3>1. CASE i = k
      BY <3>1 DEF Promotes, Resident
    <3>2. CASE i # k
      BY <1>2, <3>2 DEF Promotes, SameButState, Sound, ResidentIffBound, Resident
    <3> QED BY <3>1, <3>2
  <2> QED BY <1>2, <2>1 DEF ResidentIffBound
<1> QED BY <1>3, <1>4, <1>5 DEF Sound

(* Every task that is left was there before, at an earlier or the same place. *)
LEMMA RemovesIndex ==
    ASSUME NEW r \in Registry, NEW s, NEW k, Removes(r, s, k)
    PROVE  /\ DOMAIN r.tasks = 1 .. Len(r.tasks)
           /\ DOMAIN s.tasks = 1 .. (Len(r.tasks) - 1)
           /\ \E f \in [1 .. (Len(r.tasks) - 1) -> 1 .. Len(r.tasks)] :
                /\ \A i, j \in 1 .. (Len(r.tasks) - 1) : i < j <=> f[i] < f[j]
                /\ \A j \in 1 .. (Len(r.tasks) - 1) : s.tasks[j] = r.tasks[f[j]]
                /\ \A i \in 1 .. Len(r.tasks) : i # k => \E j \in 1 .. (Len(r.tasks) - 1) : f[j] = i
<1>1. s \in Registry /\ Len(s.tasks) = Len(r.tasks) - 1 /\ Len(r.tasks) \in Nat /\ k \in 1 .. Len(r.tasks)
  BY RegistryParts DEF Removes
<1>2. DOMAIN r.tasks = 1 .. Len(r.tasks) /\ DOMAIN s.tasks = 1 .. (Len(r.tasks) - 1)
  BY <1>1, RegistryParts
<1> DEFINE n == Len(r.tasks)
           f == [j \in 1 .. (n - 1) |-> IF j < k THEN j ELSE j + 1]
<1>3. f \in [1 .. (n - 1) -> 1 .. n]
  BY <1>1
<1>4. \A i, j \in 1 .. (n - 1) : i < j <=> f[i] < f[j]
  BY <1>1
<1>5. \A j \in 1 .. (n - 1) : s.tasks[j] = r.tasks[f[j]]
  BY DEF Removes
<1>6. ASSUME NEW i \in 1 .. n, i # k PROVE \E j \in 1 .. (n - 1) : f[j] = i
  <2>1. CASE i < k
    <3>1. i \in 1 .. (n - 1) /\ f[i] = i
      BY <1>1, <2>1
    <3> QED BY <3>1
  <2>2. CASE i > k
    <3>1. i - 1 \in 1 .. (n - 1) /\ f[i - 1] = i
      BY <1>1, <1>6, <2>2
    <3> QED BY <3>1
  <2>3. i < k \/ i > k
    BY <1>1, <1>6
  <2> QED BY <2>1, <2>2, <2>3
<1> HIDE DEF f
<1> QED BY Zenon, <1>2, <1>3, <1>4, <1>5, <1>6

LEMMA RemovesSound ==
    ASSUME NEW r \in Registry, NEW s, NEW k, Removes(r, s, k), Sound(r)
    PROVE  Sound(s) /\ Len(s.tasks) < Capacity
<1> DEFINE n == Len(r.tasks)
<1>1. PICK f \in [1 .. (n - 1) -> 1 .. n] :
         /\ \A i, j \in 1 .. (n - 1) : i < j <=> f[i] < f[j]
         /\ \A j \in 1 .. (n - 1) : s.tasks[j] = r.tasks[f[j]]
  BY RemovesIndex
<1>2. DOMAIN r.tasks = 1 .. n /\ DOMAIN s.tasks = 1 .. (n - 1) /\ n \in Nat
  BY RemovesIndex, RegistryParts
<1>3. Len(s.tasks) = n - 1 /\ n <= Capacity
  BY DEF Removes, Sound, WithinCapacity
<1>4. Len(s.tasks) < Capacity /\ WithinCapacity(s)
  BY <1>2, <1>3, CapacityAssumption DEF WithinCapacity
<1>5. ASSUME NEW i \in 1 .. (n - 1), NEW j \in 1 .. (n - 1), s.tasks[i].app_id = s.tasks[j].app_id
      PROVE  i = j
  <2>1. f[i] = f[j]
    BY ZenonT(40), <1>1, <1>2, <1>5 DEF Sound, UniqueApps
  <2> QED BY <1>1, <1>2, <2>1
<1>6. ResidentIffBound(s)
  BY <1>1, <1>2 DEF Sound, ResidentIffBound
<1> QED BY SMTT(40), <1>2, <1>4, <1>5, <1>6 DEF Sound, UniqueApps

LEMMA AddsSound ==
    ASSUME NEW r \in Registry, NEW s, NEW app, NEW token, Adds(r, s, app, token), token # 0,
           Sound(r), Len(r.tasks) < Capacity,
           \A i \in 1 .. Len(r.tasks) : r.tasks[i].app_id # app
    PROVE  Sound(s)
<1> DEFINE n == Len(r.tasks)
<1>1. s \in Registry /\ Len(s.tasks) = n + 1 /\ n \in Nat
  BY RegistryParts DEF Adds
<1>2. DOMAIN r.tasks = 1 .. n /\ DOMAIN s.tasks = 1 .. (n + 1)
  BY <1>1, RegistryParts
<1>3. WithinCapacity(s)
  BY <1>1, CapacityAssumption DEF WithinCapacity
<1>4. /\ s.tasks[n + 1].app_id = app /\ s.tasks[n + 1].state = "foreground" /\ s.tasks[n + 1].runtime # 0
      /\ \A i \in 1 .. n :
            /\ s.tasks[i].app_id = r.tasks[i].app_id /\ s.tasks[i].runtime = r.tasks[i].runtime
            /\ s.tasks[i].state \in Resident <=> r.tasks[i].state \in Resident
  BY DEF Adds, SameButState, Resident
<1>5. \A i \in 1 .. (n + 1) : i \in 1 .. n \/ i = n + 1
  BY <1>1
<1>6. UniqueApps(s)
  BY SMTT(40), <1>2, <1>4, <1>5 DEF Sound, UniqueApps
<1>7. ResidentIffBound(s)
  BY <1>2, <1>4, <1>5 DEF Sound, ResidentIffBound, Resident
<1> QED BY <1>3, <1>6, <1>7 DEF Sound

-----------------------------------------------------------------------------
(* Runtime tokens and counters.                                            *)

(* The runtimes of the tasks of r were handed out before n. *)
TokensBelow(r, n) == \A i \in 1 .. Len(r.tasks) : r.tasks[i].runtime < n

CountersInRange(r) == r.next_task_id <= U64Max /\ r.next_sequence <= U64Max

LEMMA TokensBelowPreserved ==
    ASSUME NEW r \in Registry, NEW s, NEW n \in Nat, TokensBelow(r, n)
    PROVE  /\ n # 0 /\ Demotes(r, s) => TokensBelow(s, n)
           /\ \A k, token : Promotes(r, s, k, token) /\ token <= n /\ token \in Nat => TokensBelow(s, n + 1)
           /\ \A k, token : Promotes(r, s, k, token) /\ token < n => TokensBelow(s, n)
           /\ \A k : Removes(r, s, k) => TokensBelow(s, n)
           /\ \A app : Adds(r, s, app, n) => TokensBelow(s, n + 1)
<1>1. Len(r.tasks) \in Nat /\ \A i \in 1 .. Len(r.tasks) : r.tasks[i].runtime \in Nat
  BY Zenon, RegistryParts DEF TaskRecord
<1>2. n # 0 /\ Demotes(r, s) => TokensBelow(s, n)
  BY <1>1 DEF Demotes, TokensBelow
<1>3. ASSUME NEW k, NEW token, Promotes(r, s, k, token), token <= n, token \in Nat PROVE TokensBelow(s, n + 1)
  <2>1. \A i \in 1 .. Len(r.tasks) : s.tasks[i].runtime = r.tasks[i].runtime \/ s.tasks[i].runtime = token
    BY <1>3 DEF Promotes, SameButState
  <2>2. Len(s.tasks) = Len(r.tasks)
    BY <1>3 DEF Promotes
  <2>3. \A i \in 1 .. Len(r.tasks) : r.tasks[i].runtime < n
    BY DEF TokensBelow
  <2> QED BY <1>1, <1>3, <2>1, <2>2, <2>3 DEF TokensBelow
<1>4. ASSUME NEW k, NEW token, Promotes(r, s, k, token), token < n PROVE TokensBelow(s, n)
  <2>1. \A i \in 1 .. Len(r.tasks) : s.tasks[i].runtime = r.tasks[i].runtime \/ s.tasks[i].runtime = token
    BY <1>4 DEF Promotes, SameButState
  <2>2. Len(s.tasks) = Len(r.tasks)
    BY <1>4 DEF Promotes
  <2>3. \A i \in 1 .. Len(r.tasks) : r.tasks[i].runtime < n
    BY DEF TokensBelow
  <2> QED BY <1>1, <1>4, <2>1, <2>2, <2>3 DEF TokensBelow
<1>5. ASSUME NEW k, Removes(r, s, k) PROVE TokensBelow(s, n)
  <2>1. PICK f \in [1 .. (Len(r.tasks) - 1) -> 1 .. Len(r.tasks)] :
           \A j \in 1 .. (Len(r.tasks) - 1) : s.tasks[j] = r.tasks[f[j]]
    BY <1>5, RemovesIndex
  <2>2. Len(s.tasks) = Len(r.tasks) - 1
    BY <1>5 DEF Removes
  <2>3. \A i \in 1 .. Len(r.tasks) : r.tasks[i].runtime < n
    BY DEF TokensBelow
  <2>4. \A j \in 1 .. (Len(r.tasks) - 1) : s.tasks[j].runtime < n
    BY Zenon, <2>1, <2>3
  <2> QED BY <2>2, <2>4 DEF TokensBelow
<1>6. ASSUME NEW app, Adds(r, s, app, n) PROVE TokensBelow(s, n + 1)
  <2>1. s.tasks[Len(r.tasks) + 1].runtime = n
    BY <1>6 DEF Adds
  <2>2. \A i \in 1 .. Len(r.tasks) : s.tasks[i].runtime = r.tasks[i].runtime
    BY <1>6 DEF Adds, SameButState
  <2>3. Len(s.tasks) = Len(r.tasks) + 1
    BY <1>6 DEF Adds
  <2> QED BY SMTT(40), <1>1, <2>1, <2>2, <2>3 DEF TokensBelow
<1> QED BY SMTT(40), <1>2, <1>3, <1>4, <1>5, <1>6

-----------------------------------------------------------------------------
(* Which tasks lose their runtime.                                         *)

LEMMA FreezeKeepsRuntimes ==
    ASSUME NEW r \in Registry, NEW id, NEW i \in 1 .. Len(r.tasks)
    PROVE  Freeze(r, id).tasks[i].runtime = r.tasks[i].runtime
<1>1. r.tasks[i] \in TaskRecord /\ i \in DOMAIN r.tasks
  BY RegistryParts
<1>2. Freeze(r, id).tasks[i] = IF i \in ById(r.tasks, id) THEN [r.tasks[i] EXCEPT !.state = "frozen"] ELSE r.tasks[i]
  BY <1>1 DEF Freeze, Registry
<1> QED BY <1>1, <1>2 DEF TaskRecord

LEMMA UpdateThumbnailKeepsRuntimes ==
    ASSUME NEW r \in Registry, NEW id, NEW generation, NEW i \in 1 .. Len(r.tasks)
    PROVE  UpdateThumbnail(r, id, generation).tasks[i].runtime = r.tasks[i].runtime
<1>1. r.tasks[i] \in TaskRecord /\ i \in DOMAIN r.tasks
  BY RegistryParts
<1>2. UpdateThumbnail(r, id, generation).tasks[i] =
        IF i \in ById(r.tasks, id) THEN [r.tasks[i] EXCEPT !.thumbnail_generation = generation] ELSE r.tasks[i]
  BY <1>1 DEF UpdateThumbnail, Registry
<1> QED BY <1>1, <1>2 DEF TaskRecord

(* checkpoint unbinds the task it was called for and no other. *)
LEMMA CheckpointUnbindsOne ==
    ASSUME NEW r \in Registry, NEW id, NEW status, NEW i \in 1 .. Len(r.tasks), i \notin ById(r.tasks, id)
    PROVE  Checkpoint(r, id, status).tasks[i].runtime = r.tasks[i].runtime
<1>1. i \in DOMAIN r.tasks
  BY RegistryParts
<1> QED BY <1>1 DEF Checkpoint, Registry

(* runtime_exited unbinds no task bound to another runtime. *)
LEMMA RuntimeExitedUnbindsOne ==
    ASSUME NEW r \in Registry, NEW token, NEW i \in 1 .. Len(r.tasks), r.tasks[i].runtime # token
    PROVE  RuntimeExited(r, token).tasks[i].runtime = r.tasks[i].runtime
<1>1. i \in DOMAIN r.tasks /\ i \notin ByToken(r.tasks, token)
  BY RegistryParts, LookupByToken
<1> QED BY <1>1 DEF RuntimeExited, Registry

(* The oldest task is the one its own identifier finds. *)
LEMMA OldestFound ==
    ASSUME NEW r \in Registry, Len(r.tasks) # 0
    PROVE  ById(r.tasks, r.tasks[1].task_id) = {1}
<1>1. DOMAIN r.tasks = 1 .. Len(r.tasks) /\ Len(r.tasks) \in Nat
  BY RegistryParts
<1> QED BY <1>1 DEF ById, First

-----------------------------------------------------------------------------
(* Every process has a task.                                               *)

(* Every token of L is the runtime of a task of r. *)
Bound(r, L) == \A token \in L : \E i \in 1 .. Len(r.tasks) : r.tasks[i].runtime = token

(* A removed task takes its runtime along; the others keep theirs. *)
LEMMA RemovesBound ==
    ASSUME NEW r \in Registry, NEW s, NEW k, Removes(r, s, k), NEW L, Bound(r, L)
    PROVE  Bound(s, L \ {r.tasks[k].runtime})
<1> DEFINE n == Len(r.tasks)
<1>1. PICK f \in [1 .. (n - 1) -> 1 .. n] :
         /\ \A j \in 1 .. (n - 1) : s.tasks[j] = r.tasks[f[j]]
         /\ \A i \in 1 .. n : i # k => \E j \in 1 .. (n - 1) : f[j] = i
  BY RemovesIndex
<1>2. Len(s.tasks) = n - 1
  BY DEF Removes
<1>3. ASSUME NEW token \in L, token # r.tasks[k].runtime
      PROVE  \E j \in 1 .. (n - 1) : s.tasks[j].runtime = token
  <2>1. PICK i \in 1 .. n : r.tasks[i].runtime = token
    BY DEF Bound
  <2>2. PICK j \in 1 .. (n - 1) : f[j] = i
    BY <1>1, <1>3, <2>1
  <2> QED BY <1>1, <2>1, <2>2
<1> QED BY <1>2, <1>3 DEF Bound

(* A launched task is bound to the new token; the others stay bound. *)
LEMMA AddsBound ==
    ASSUME NEW r \in Registry, NEW s, NEW app, NEW token, Adds(r, s, app, token), NEW L, Bound(r, L)
    PROVE  Bound(s, L \cup {token})
<1> DEFINE n == Len(r.tasks)
<1>1. /\ Len(s.tasks) = n + 1 /\ n \in Nat /\ s.tasks[n + 1].runtime = token
      /\ \A i \in 1 .. n : s.tasks[i].runtime = r.tasks[i].runtime
  BY RegistryParts DEF Adds, SameButState
<1>2. n + 1 \in 1 .. (n + 1) /\ 1 .. n \subseteq 1 .. (n + 1)
  BY <1>1
<1> QED BY SMTT(40), <1>1, <1>2 DEF Bound

(* A promoted task had no process or keeps its own. *)
LEMMA PromotesBound ==
    ASSUME NEW r \in Registry, NEW s, NEW k, NEW token, Promotes(r, s, k, token),
           NEW L, Bound(r, L), 0 \notin L, r.tasks[k].runtime \in {0, token}
    PROVE  Bound(s, L \cup {token})
<1>1. /\ Len(s.tasks) = Len(r.tasks) /\ k \in 1 .. Len(r.tasks) /\ s.tasks[k].runtime = token
      /\ \A i \in 1 .. Len(r.tasks) : i # k => s.tasks[i].runtime = r.tasks[i].runtime
  BY DEF Promotes, SameButState
<1> QED BY <1>1 DEF Bound

(* The processes a registry must account for after a demotion. *)
LEMMA SameRuntimesBound ==
    ASSUME NEW r \in Registry, NEW s, Len(s.tasks) = Len(r.tasks), NEW L, Bound(r, L), NEW M \in SUBSET L,
           \A i \in 1 .. Len(r.tasks) : r.tasks[i].runtime \in M => s.tasks[i].runtime = r.tasks[i].runtime
    PROVE  Bound(s, M)
BY DEF Bound

-----------------------------------------------------------------------------
(* What each kind of change preserves while no counter wraps.              *)

LEMMA DemotesRestorable ==
    ASSUME NEW r \in Registry, NEW s, Demotes(r, s), Restorable(r)
    PROVE  Restorable(s)
<1>1. s \in Registry /\ Len(s.tasks) = Len(r.tasks)
      /\ s.next_task_id = r.next_task_id /\ s.next_sequence = r.next_sequence
  BY DEF Demotes
<1>2. DOMAIN r.tasks = 1 .. Len(r.tasks) /\ DOMAIN s.tasks = 1 .. Len(r.tasks)
  BY <1>1, RegistryParts
<1>3. WithinCapacity(s) /\ UniqueApps(s) /\ ResidentIffBound(s)
  BY DemotesSound DEF Sound, Restorable
<1>4. \A i \in 1 .. Len(r.tasks) :
         /\ s.tasks[i].task_id = r.tasks[i].task_id
         /\ s.tasks[i].created_sequence = r.tasks[i].created_sequence
         /\ s.tasks[i].last_activated_sequence = r.tasks[i].last_activated_sequence
         /\ s.tasks[i].state = "foreground" => r.tasks[i].state = "foreground"
         /\ s.tasks[i].runtime \in {0, r.tasks[i].runtime}
  BY DEF Demotes, SameHistory
<1>5. CreationOrdered(s) /\ UniqueIds(s)
  BY <1>2, <1>4 DEF Restorable, CreationOrdered, UniqueIds
<1>6. OneForeground(s) /\ UniqueTokens(s)
  BY SMTT(40), <1>2, <1>4 DEF Restorable, OneForeground, UniqueTokens
<1>7. FreshIdentifiers(s)
  BY <1>1, <1>2, <1>4 DEF Restorable, FreshIdentifiers
<1> QED BY SMTT(40), <1>3, <1>5, <1>6, <1>7 DEF Restorable

(* The promoted task's runtime is its own or a new one. *)
LEMMA PromotesRestorable ==
    ASSUME NEW r \in Registry, NEW s, NEW k, NEW token, Promotes(r, s, k, token), token # 0,
           Restorable(r), NextU64(r.next_sequence) = r.next_sequence + 1,
           \A i \in 1 .. Len(r.tasks) : i # k => r.tasks[i].runtime # token
    PROVE  Restorable(s)
<1> DEFINE n == Len(r.tasks)
<1>1. /\ s \in Registry /\ Len(s.tasks) = n /\ k \in 1 .. n
      /\ s.next_task_id = r.next_task_id /\ s.next_sequence = r.next_sequence + 1
  BY DEF Promotes
<1>2. DOMAIN r.tasks = 1 .. n /\ DOMAIN s.tasks = 1 .. n /\ r.next_sequence \in Nat
  BY <1>1, RegistryParts
<1>3. WithinCapacity(s) /\ UniqueApps(s) /\ ResidentIffBound(s)
  BY PromotesSound DEF Sound, Restorable
<1>4. \A i \in 1 .. n :
         /\ s.tasks[i].task_id = r.tasks[i].task_id
         /\ s.tasks[i].created_sequence = r.tasks[i].created_sequence
  BY DEF Promotes, SameButState
<1>5. CreationOrdered(s) /\ UniqueIds(s)
  BY SMTT(40), <1>2, <1>4 DEF Restorable, CreationOrdered, UniqueIds
<1>6. \A i \in 1 .. n : i # k => s.tasks[i].state # "foreground"
  BY DEF Promotes, Restorable
<1>7. OneForeground(s)
  BY <1>2, <1>6 DEF OneForeground
<1>8. s.tasks[k].runtime = token /\ \A i \in 1 .. n : i # k => s.tasks[i].runtime = r.tasks[i].runtime
  BY DEF Promotes, SameButState
<1>9. UniqueTokens(s)
  BY SMTT(40), <1>1, <1>2, <1>8 DEF Restorable, UniqueTokens
<1>10. FreshIdentifiers(s)
  <2>1. \A i \in 1 .. n : /\ r.tasks[i].task_id < r.next_task_id
                          /\ r.tasks[i].created_sequence < r.next_sequence
                          /\ r.tasks[i].last_activated_sequence < r.next_sequence
                          /\ r.tasks[i].created_sequence \in Nat
                          /\ r.tasks[i].last_activated_sequence \in Nat
    <3>1. \A i \in 1 .. n : r.tasks[i].created_sequence \in Nat /\ r.tasks[i].last_activated_sequence \in Nat
      BY Zenon, RegistryParts DEF TaskRecord
    <3> QED BY <1>2, <3>1 DEF Restorable, FreshIdentifiers
  <2>2. \A i \in 1 .. n : s.tasks[i].last_activated_sequence \in {r.next_sequence, r.tasks[i].last_activated_sequence}
    BY DEF Promotes, SameButState
  <2> QED BY SMTT(40), <1>1, <1>2, <1>4, <2>1, <2>2 DEF FreshIdentifiers
<1> QED BY SMTT(40), <1>3, <1>5, <1>7, <1>9, <1>10 DEF Restorable

LEMMA RemovesRestorable ==
    ASSUME NEW r \in Registry, NEW s, NEW k, Removes(r, s, k), Restorable(r)
    PROVE  Restorable(s)
<1> DEFINE n == Len(r.tasks)
<1>1. PICK f \in [1 .. (n - 1) -> 1 .. n] :
         /\ \A i, j \in 1 .. (n - 1) : i < j <=> f[i] < f[j]
         /\ \A j \in 1 .. (n - 1) : s.tasks[j] = r.tasks[f[j]]
         /\ \A i \in 1 .. n : i # k => \E j \in 1 .. (n - 1) : f[j] = i
  BY SMTT(40), RemovesIndex
<1>2. DOMAIN r.tasks = 1 .. n /\ DOMAIN s.tasks = 1 .. (n - 1) /\ n \in Nat
  BY RemovesIndex, RegistryParts
<1>3. s.next_task_id = r.next_task_id /\ s.next_sequence = r.next_sequence
  BY DEF Removes
<1>4. WithinCapacity(s) /\ UniqueApps(s) /\ ResidentIffBound(s)
  BY RemovesSound DEF Sound, Restorable
<1>5. \A i, j \in 1 .. (n - 1) : f[i] = f[j] => i = j
  BY <1>1, <1>2
<1>6. CreationOrdered(s)
  <2>1. SUFFICES ASSUME NEW i \in 1 .. (n - 1), NEW j \in 1 .. (n - 1), i < j
                 PROVE  s.tasks[i].created_sequence < s.tasks[j].created_sequence
    BY Zenon, <1>2 DEF CreationOrdered
  <2>2. f[i] \in 1 .. n /\ f[j] \in 1 .. n /\ f[i] < f[j]
    BY Zenon, <1>1, <2>1
  <2>3. r.tasks[f[i]].created_sequence < r.tasks[f[j]].created_sequence
    BY Zenon, <1>2, <2>2 DEF Restorable, CreationOrdered
  <2> QED BY Zenon, <1>1, <2>3
<1>7. UniqueIds(s) /\ OneForeground(s) /\ UniqueTokens(s)
  <2>1. SUFFICES ASSUME NEW i \in 1 .. (n - 1), NEW j \in 1 .. (n - 1)
                 PROVE  /\ s.tasks[i].task_id = s.tasks[j].task_id => i = j
                        /\ s.tasks[i].state = "foreground" /\ s.tasks[j].state = "foreground" => i = j
                        /\ s.tasks[i].runtime # 0 /\ s.tasks[i].runtime = s.tasks[j].runtime => i = j
    BY Zenon, <1>2 DEF UniqueIds, OneForeground, UniqueTokens
  <2>2. /\ f[i] \in DOMAIN r.tasks /\ f[j] \in DOMAIN r.tasks
        /\ s.tasks[i] = r.tasks[f[i]] /\ s.tasks[j] = r.tasks[f[j]]
    BY ZenonT(40), <1>1, <1>2
  <2>3. /\ r.tasks[f[i]].task_id = r.tasks[f[j]].task_id => f[i] = f[j]
        /\ r.tasks[f[i]].state = "foreground" /\ r.tasks[f[j]].state = "foreground" => f[i] = f[j]
        /\ r.tasks[f[i]].runtime # 0 /\ r.tasks[f[i]].runtime = r.tasks[f[j]].runtime => f[i] = f[j]
    BY Zenon, <2>2 DEF Restorable, UniqueIds, OneForeground, UniqueTokens
  <2> QED BY Zenon, <1>5, <2>2, <2>3
<1>8. FreshIdentifiers(s)
  BY SMTT(40), <1>1, <1>2, <1>3 DEF Restorable, FreshIdentifiers
<1> QED BY SMTT(40), <1>4, <1>6, <1>7, <1>8 DEF Restorable

LEMMA AddsRestorable ==
    ASSUME NEW r \in Registry, NEW s, NEW app, NEW token, Adds(r, s, app, token), token # 0,
           Restorable(r), Len(r.tasks) < Capacity,
           NextU64(r.next_sequence) = r.next_sequence + 1, NextU64(r.next_task_id) = r.next_task_id + 1,
           \A i \in 1 .. Len(r.tasks) : r.tasks[i].app_id # app /\ r.tasks[i].runtime # token
    PROVE  Restorable(s)
<1> DEFINE n == Len(r.tasks)
<1>1. /\ s \in Registry /\ Len(s.tasks) = n + 1 /\ n \in Nat
      /\ s.next_task_id = r.next_task_id + 1 /\ s.next_sequence = r.next_sequence + 1
      /\ r.next_sequence \in Nat /\ r.next_task_id \in Nat
  BY RegistryParts DEF Adds
<1>2. DOMAIN r.tasks = 1 .. n /\ DOMAIN s.tasks = 1 .. (n + 1)
  BY <1>1, RegistryParts
<1>3. WithinCapacity(s) /\ UniqueApps(s) /\ ResidentIffBound(s)
  BY AddsSound DEF Sound, Restorable
<1>4. /\ s.tasks[n + 1].task_id = r.next_task_id
      /\ s.tasks[n + 1].created_sequence = r.next_sequence
      /\ s.tasks[n + 1].last_activated_sequence = r.next_sequence
      /\ s.tasks[n + 1].runtime = token
  BY DEF Adds
<1>5. \A i \in 1 .. n :
         /\ s.tasks[i].task_id = r.tasks[i].task_id
         /\ s.tasks[i].created_sequence = r.tasks[i].created_sequence
         /\ s.tasks[i].last_activated_sequence = r.tasks[i].last_activated_sequence
         /\ s.tasks[i].runtime = r.tasks[i].runtime
  BY DEF Adds, SameButState
<1>6. \A i \in 1 .. (n + 1) : i \in 1 .. n \/ i = n + 1
  BY <1>1
<1>7. \A i \in 1 .. n : /\ r.tasks[i].task_id < r.next_task_id
                        /\ r.tasks[i].created_sequence < r.next_sequence
                        /\ r.tasks[i].last_activated_sequence < r.next_sequence
                        /\ r.tasks[i].task_id \in Nat
                        /\ r.tasks[i].created_sequence \in Nat
                        /\ r.tasks[i].last_activated_sequence \in Nat
  <2>1. \A i \in 1 .. n : /\ r.tasks[i].task_id \in Nat /\ r.tasks[i].created_sequence \in Nat
                          /\ r.tasks[i].last_activated_sequence \in Nat
    BY Zenon, RegistryParts DEF TaskRecord
  <2> QED BY <1>2, <2>1 DEF Restorable, FreshIdentifiers
<1>8. FreshIdentifiers(s)
  <2>1. SUFFICES ASSUME NEW i \in 1 .. (n + 1)
                 PROVE  /\ s.tasks[i].task_id < r.next_task_id + 1
                        /\ s.tasks[i].created_sequence < r.next_sequence + 1
                        /\ s.tasks[i].last_activated_sequence < r.next_sequence + 1
    BY <1>1, <1>2 DEF FreshIdentifiers
  <2>2. CASE i \in 1 .. n
    <3>1. /\ s.tasks[i].task_id < r.next_task_id /\ s.tasks[i].task_id \in Nat
          /\ s.tasks[i].created_sequence < r.next_sequence /\ s.tasks[i].created_sequence \in Nat
          /\ s.tasks[i].last_activated_sequence < r.next_sequence /\ s.tasks[i].last_activated_sequence \in Nat
      BY Zenon, <1>5, <1>7, <2>2
    <3> QED BY SMTT(40), <1>1, <3>1
  <2>3. CASE i = n + 1
    BY SMTT(40), <1>1, <1>4, <2>3
  <2> QED BY SMTT(40), <1>6, <2>2, <2>3
<1>9. CreationOrdered(s)
  <2>1. ASSUME NEW i \in 1 .. (n + 1), NEW j \in 1 .. (n + 1), i < j
        PROVE  s.tasks[i].created_sequence < s.tasks[j].created_sequence
    <3>1. i \in 1 .. n
      BY SMTT(40), <1>1, <2>1
    <3>2. CASE j \in 1 .. n
      BY SMTT(40), <1>2, <1>5, <2>1, <3>1, <3>2 DEF Restorable, CreationOrdered
    <3>3. CASE j = n + 1
      BY SMTT(40), <1>4, <1>5, <1>7, <3>1, <3>3
    <3> QED BY SMTT(40), <1>6, <3>2, <3>3
  <2> QED BY <1>2, <2>1 DEF CreationOrdered
<1>10. UniqueIds(s)
  <2>1. \A i \in 1 .. n : s.tasks[i].task_id # s.tasks[n + 1].task_id
    BY SMTT(40), <1>1, <1>4, <1>5, <1>7
  <2> QED BY SMTT(40), <1>2, <1>5, <1>6, <2>1 DEF Restorable, UniqueIds
<1>11. UniqueTokens(s)
  BY SMTT(40), <1>2, <1>4, <1>5, <1>6 DEF Restorable, UniqueTokens
<1>12. OneForeground(s)
  <2>1. \A i \in 1 .. n : s.tasks[i].state # "foreground"
    BY DEF Adds, Restorable
  <2> QED BY SMTT(40), <1>2, <1>6, <2>1 DEF OneForeground
<1> QED BY SMTT(40), <1>3, <1>8, <1>9, <1>10, <1>11, <1>12 DEF Restorable

-----------------------------------------------------------------------------
(* What a history without a wrap says of one step.                         *)

(* A counter in range that did not wrap was incremented. *)
LEMMA NextU64Increments ==
    ASSUME NEW n \in Nat \ {0}, n <= U64Max, ~(n = U64Max /\ NextU64(n) # U64Max)
    PROVE  NextU64(n) = n + 1
BY U64MaxAssumption DEF NextU64

(* The tasks of a registry whose tokens are below n are not bound to n. *)
LEMMA NewToken ==
    ASSUME NEW r \in Registry, NEW n \in Nat, TokensBelow(r, n)
    PROVE  \A i \in 1 .. Len(r.tasks) : r.tasks[i].runtime # n
BY DEF TokensBelow
==============================================================================
