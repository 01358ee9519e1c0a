------------------------ MODULE StorePublisherProofs ------------------------
(***************************************************************************)
(* Publication is sound for any number of releases, events, publisher      *)
(* workers and attempts (PublisherSound), and the newest Catalog lists     *)
(* what is published once every request is handled (CatalogCatchesUp).     *)
(***************************************************************************)
EXTENDS StorePublisher, TLAPS

Unfinished == {"outbox", "queued", "running"}

(* The steps of an attempt: the worker has an event. *)
Attempting == {"exhausted", "source", "project", "editorial", "bindings",
               "transparency", "write", "commit", "switch", "defer", "fail",
               "supersede"}

(* The steps of a worker that has read the releases and not yet committed. *)
Projected == {"editorial", "bindings", "transparency", "write", "commit"}

(* q holds the elements of S, each of them once. *)
Lists(q, S) ==
    /\ \A i, k \in DOMAIN q : q[i] = q[k] => i = k
    /\ {q[i] : i \in DOMAIN q} = S

(* An unfinished event is in the outbox or in the queue, once. *)
OrdersInv ==
    /\ Lists(outbox, {e \in EventIds : job[e].state = "outbox"})
    /\ Lists(queue, {e \in EventIds : job[e].state \in {"queued", "running"}})

(* What an event says of its release, by the mutation that emitted it. *)
Emitted(e) ==
    /\ job[e].release \in Releases
    /\ job[e].version <= release[job[e].release].version
    /\ job[e].version = release[job[e].release].version =>
          release[job[e].release].state = job[e].source
    /\ job[e].source \in IF job[e].kind = "publish-release" THEN {"publishing"}
                         ELSE {"published", "paused", "removed"}

(* The release has changed since. *)
Outdated(e) == job[e].version < release[job[e].release].version

(* The attempts of a job: the first one reserves its sequence, and a job   *)
(* that waits has another one left.                                        *)
Attempted(e) ==
    /\ job[e].attempts = 0 <=> job[e].seq = 0
    /\ job[e].seq <= last_sequence
    /\ job[e].state = "outbox" => job[e].attempts = 0
    /\ job[e].state = "queued" => job[e].attempts < MaxAttempts
    /\ job[e].state = "running" => job[e].attempts # 0

JobsInv ==
    \A e \in EventIds :
        /\ job[e].state = "unused" => job[e] = Unused
        /\ job[e].state # "unused" => Emitted(e)
        /\ Attempted(e)

(* A release enters `publishing' at a new version each time. *)
OnePublication ==
    \A e, f \in EventIds :
        /\ job[e].kind = "publish-release" /\ job[f].kind = "publish-release"
        /\ job[e].release = job[f].release /\ job[e].version = job[f].version
        => e = f

(* What a worker holds was read from the job it claimed, from the log or   *)
(* from the generation it wrote.                                           *)
WorkerInv(w) ==
    /\ worker[w].pc \in Attempting =>
          /\ worker[w].event \in EventIds
          /\ worker[w].attempt \in 1 .. Job(w).attempts
          /\ worker[w].seq = Job(w).seq
    /\ worker[w].pc \in {"reconcile", "switch"} => worker[w].seq \in Committed
    /\ worker[w].pc = "defer" => worker[w].attempt < MaxAttempts
    /\ worker[w].pc = "supersede" => Outdated(worker[w].event)
    /\ worker[w].pc \in Projected =>
          Target(worker[w].event) \in worker[w].apps \cup {NoRelease}
    /\ worker[w].pc = "commit" => Prepared(w) \in generations

WorkersInv == \A w \in Workers : WorkerInv(w)

(* A snapshot is the generation of its sequence, the leaf of its tree      *)
(* index and the work of one completed job.                                *)
SnapshotsInv ==
    /\ LogVerifies
    /\ snapshots # {} => \E n \in Committed : \A m \in Committed : m <= n
    /\ \A g, h \in generations : g.seq = h.seq => g = h
    /\ snapshots \subseteq generations
    /\ Committed = {log[i] : i \in DOMAIN log}
    /\ \A s \in snapshots : \E e \in EventIds : job[e].state = "completed" /\ job[e].seq = s.seq

(* A release without a sequence was in no Catalog's package. *)
UnpublishedIsNew ==
    \A r \in Releases :
        /\ release[r].seq = 0 => \A s \in snapshots : s.package # r
        /\ release[r].state = "none" => release[r].version = 0

IInv ==
    /\ TypeOK /\ OrdersInv /\ JobsInv /\ OnePublication /\ WorkersInv
    /\ SnapshotsInv /\ UnpublishedIsNew
    /\ ServesCommitted /\ PublicationRecorded

-----------------------------------------------------------------------------
(* What catching up rests on.                                              *)

(* An unfinished event, other than those of F, is still to bring r's state *)
(* into a Catalog.                                                         *)
Announced(r, F) ==
    \E f \in EventIds \ F : job[f].state \in Unfinished /\ job[f].release = r /\ Current(f)

(* The worker has read the releases for its event, and keeps its lease. *)
Held(w, e, target) ==
    /\ worker[w].pc \in Projected /\ LeaseHeld(w)
    /\ worker[w].event = e /\ Target(e) = target

(* While a worker keeps its lease no other Catalog is committed, and what  *)
(* has changed since it read the releases has an event of its own.         *)
HeldProjection ==
    \A w \in Workers, e \in EventIds, target \in Releases \cup {NoRelease} :
        Held(w, e, target) =>
            \A r \in Releases :
                \/ r \in worker[w].apps <=> r \in Projection(target)
                \/ Announced(r, {e})

NoneFailed == \A e \in EventIds : job[e].state # "failed"

(* What the last Catalog says of a release is right or about to be         *)
(* replaced.                                                               *)
LastCatalog ==
    NoneFailed /\ InOrder /\ log # << >> =>
        \A s \in snapshots : s.seq = log[Len(log)] =>
            \A r \in Releases :
                \/ r \in s.apps <=> r \in Projection(NoRelease)
                \/ Announced(r, {})

CInv == IInv /\ HeldProjection /\ LastCatalog

-----------------------------------------------------------------------------
(* What becomes of a sequence that lists a set.                            *)

LEMMA AppendLists ==
    ASSUME NEW S, NEW q \in Seq(S), NEW e \in S, NEW T, Lists(q, T), e \notin T
    PROVE  Append(q, e) \in Seq(S) /\ Lists(Append(q, e), T \cup {e})
<1> DEFINE n == Append(q, e)
<1>1. /\ n \in Seq(S) /\ DOMAIN n = 1 .. Len(q) + 1 /\ n[Len(q) + 1] = e
      /\ \A i \in 1 .. Len(q) : n[i] = q[i]
      /\ DOMAIN q = 1 .. Len(q) /\ Len(q) \in Nat
  OBVIOUS
<1> HIDE DEF n
<1>2. \A i \in 1 .. Len(q) : q[i] \in T /\ q[i] # e
  BY <1>1 DEF Lists
<1>3. \A i, k \in DOMAIN n : n[i] = n[k] => i = k
  BY <1>1, <1>2 DEF Lists
<1>4. {n[i] : i \in DOMAIN n} = {q[i] : i \in DOMAIN q} \cup {e}
  BY <1>1
<1> QED BY <1>1, <1>3, <1>4 DEF Lists, n

(* Two sequences joined. *)
LEMMA Joined ==
    ASSUME NEW S, NEW a \in Seq(S), NEW b \in Seq(S)
    PROVE  /\ a \o b \in Seq(S)
           /\ Len(a \o b) = Len(a) + Len(b)
           /\ \A i \in 1 .. (Len(a) + Len(b)) :
                 (a \o b)[i] = IF i <= Len(a) THEN a[i] ELSE b[i - Len(a)]
OBVIOUS

LEMMA InsertLists ==
    ASSUME NEW S, NEW q \in Seq(S), NEW e \in S, NEW T, Lists(q, T), e \notin T,
           NEW k \in 1 .. Len(q) + 1
    PROVE  LET n == SubSeq(q, 1, k - 1) \o <<e>> \o SubSeq(q, k, Len(q))
           IN  n \in Seq(S) /\ Lists(n, T \cup {e})
<1> DEFINE a == SubSeq(q, 1, k - 1)
           b == SubSeq(q, k, Len(q))
           n == a \o <<e>> \o b
<1>1. a \in Seq(S) /\ Len(a) = k - 1 /\ \A j \in 1 .. (k - 1) : a[j] = q[j]
  OBVIOUS
<1>2. b \in Seq(S) /\ Len(b) = Len(q) - k + 1 /\ \A j \in 1 .. (Len(q) - k + 1) : b[j] = q[k + j - 1]
  OBVIOUS
<1>3. DOMAIN q = 1 .. Len(q) /\ Len(q) \in Nat /\ k \in Nat
  OBVIOUS
<1> HIDE DEF a, b
<1>4. /\ n \in Seq(S) /\ DOMAIN n = 1 .. Len(q) + 1
      /\ \A i \in 1 .. Len(q) + 1 :
            n[i] = IF i < k THEN a[i] ELSE IF i = k THEN e ELSE b[i - k]
  <2> DEFINE m == a \o <<e>>
  <2>1. m \in Seq(S) /\ Len(m) = k /\ \A i \in 1 .. k : m[i] = IF i < k THEN a[i] ELSE e
    BY <1>1, <1>3
  <2>2. n = m \o b
    OBVIOUS
  <2> HIDE DEF m, n
  <2>3. /\ n \in Seq(S) /\ Len(n) = Len(m) + Len(b)
        /\ \A i \in 1 .. (Len(m) + Len(b)) : n[i] = IF i <= Len(m) THEN m[i] ELSE b[i - Len(m)]
    BY Zenon, <1>2, <2>1, <2>2, Joined
  <2>4. Len(n) = Len(q) + 1 /\ DOMAIN n = 1 .. Len(q) + 1
    BY <1>2, <1>3, <2>1, <2>3
  <2>5. ASSUME NEW i \in 1 .. Len(q) + 1
        PROVE  n[i] = IF i < k THEN a[i] ELSE IF i = k THEN e ELSE b[i - k]
    <3>1. n[i] = IF i <= k THEN m[i] ELSE b[i - k]
      BY <1>2, <1>3, <2>1, <2>3
    <3> QED BY <1>3, <2>1, <3>1
  <2> QED BY <2>3, <2>4, <2>5
<1> HIDE DEF n
<1>5. \A i \in 1 .. Len(q) + 1 :
         n[i] = IF i < k THEN q[i] ELSE IF i = k THEN e ELSE q[i - 1]
  <2> TAKE i \in 1 .. Len(q) + 1
  <2>1. CASE i < k
    BY <1>1, <1>3, <1>4, <2>1
  <2>2. CASE i = k
    BY <1>3, <1>4, <2>2
  <2>3. CASE i > k
    <3>1. i - k \in 1 .. (Len(q) - k + 1) /\ k + (i - k) - 1 = i - 1
      BY <1>3, <2>3
    <3>2. b[i - k] = q[i - 1]
      BY <1>2, <3>1
    <3> QED BY <1>3, <1>4, <2>3, <3>2
  <2> QED BY <1>3, <2>1, <2>2, <2>3
<1>6. \A i \in 1 .. Len(q) : q[i] \in T /\ q[i] # e
  BY <1>3 DEF Lists
<1>7. ASSUME NEW i \in DOMAIN n, NEW j \in DOMAIN n, n[i] = n[j]
      PROVE  i = j
  <2>1. i = k <=> n[i] = e
    BY <1>3, <1>4, <1>5, <1>6
  <2>2. j = k <=> n[j] = e
    BY <1>3, <1>4, <1>5, <1>6
  <2>3. CASE i # k /\ j # k
    <3>1. /\ (IF i < k THEN i ELSE i - 1) \in DOMAIN q /\ n[i] = q[IF i < k THEN i ELSE i - 1]
          /\ (IF j < k THEN j ELSE j - 1) \in DOMAIN q /\ n[j] = q[IF j < k THEN j ELSE j - 1]
      BY <1>3, <1>4, <1>5, <2>3
    <3>2. (IF i < k THEN i ELSE i - 1) = (IF j < k THEN j ELSE j - 1)
      BY Zenon, <1>7, <3>1 DEF Lists
    <3> QED BY <1>3, <1>4, <2>3, <3>2
  <2> QED BY <1>7, <2>1, <2>2, <2>3
<1>8. {n[i] : i \in DOMAIN n} = {q[i] : i \in DOMAIN q} \cup {e}
  <2>1. ASSUME NEW i \in DOMAIN n PROVE n[i] \in {q[j] : j \in DOMAIN q} \cup {e}
    <3>1. \/ n[i] = e
          \/ (IF i < k THEN i ELSE i - 1) \in DOMAIN q /\ n[i] = q[IF i < k THEN i ELSE i - 1]
      BY <1>3, <1>4, <1>5
    <3> QED BY Zenon, <3>1
  <2>2. ASSUME NEW j \in DOMAIN q PROVE \E i \in DOMAIN n : n[i] = q[j]
    <3>1. CASE j < k
      BY <1>3, <1>4, <1>5, <3>1
    <3>2. CASE j >= k
      <4>1. j + 1 \in DOMAIN n /\ n[j + 1] = q[j]
        BY <1>3, <1>4, <1>5, <3>2
      <4> QED BY <4>1
    <3> QED BY <1>3, <3>1, <3>2
  <2>3. k \in DOMAIN n /\ n[k] = e
    BY <1>3, <1>4, <1>5
  <2> QED BY <2>1, <2>2, <2>3
<1> QED BY Zenon, <1>4, <1>7, <1>8 DEF Lists, n, a, b

LEMMA TailLists ==
    ASSUME NEW S, NEW q \in Seq(S), NEW T, Lists(q, T), q # << >>
    PROVE  Head(q) \in T /\ Tail(q) \in Seq(S) /\ Lists(Tail(q), T \ {Head(q)})
<1> DEFINE n == Tail(q)
<1>1. /\ n \in Seq(S) /\ DOMAIN n = 1 .. Len(q) - 1
      /\ \A i \in 1 .. Len(q) - 1 : n[i] = q[i + 1]
      /\ DOMAIN q = 1 .. Len(q) /\ Len(q) \in Nat \ {0} /\ Head(q) = q[1]
  OBVIOUS
<1> HIDE DEF n
<1>2. ASSUME NEW i \in DOMAIN n, NEW j \in DOMAIN n, n[i] = n[j]
      PROVE  i = j
  <2>1. i + 1 \in DOMAIN q /\ j + 1 \in DOMAIN q /\ q[i + 1] = q[j + 1]
    BY <1>1, <1>2
  <2>2. i + 1 = j + 1
    BY Zenon, <2>1 DEF Lists
  <2> QED BY <1>1, <2>2
<1>3. {n[i] : i \in DOMAIN n} = {q[i] : i \in DOMAIN q} \ {Head(q)}
  <2>1. ASSUME NEW i \in DOMAIN n PROVE n[i] \in {q[j] : j \in DOMAIN q} /\ n[i] # Head(q)
    <3>1. i + 1 \in DOMAIN q /\ 1 \in DOMAIN q /\ i + 1 # 1 /\ n[i] = q[i + 1]
      BY <1>1
    <3>2. q[i + 1] # q[1]
      BY Zenon, <3>1 DEF Lists
    <3> QED BY <1>1, <3>1, <3>2
  <2>2. ASSUME NEW j \in DOMAIN q, q[j] # Head(q) PROVE \E i \in DOMAIN n : n[i] = q[j]
    <3>1. j - 1 \in DOMAIN n /\ n[j - 1] = q[j]
      BY <1>1, <2>2
    <3> QED BY <3>1
  <2> QED BY <2>1, <2>2
<1>4. Head(q) \in T
  BY <1>1 DEF Lists
<1> QED BY Zenon, <1>1, <1>2, <1>3, <1>4 DEF Lists, n

(* What is left of an element of a sequence, and what is right of it. *)
LEMMA Cut ==
    ASSUME NEW S, NEW q \in Seq(S), NEW k \in 1 .. Len(q)
    PROVE  /\ SubSeq(q, 1, k - 1) \in Seq(S) /\ Len(SubSeq(q, 1, k - 1)) = k - 1
           /\ \A j \in 1 .. (k - 1) : SubSeq(q, 1, k - 1)[j] = q[j]
           /\ SubSeq(q, k + 1, Len(q)) \in Seq(S) /\ Len(SubSeq(q, k + 1, Len(q))) = Len(q) - k
           /\ \A j \in 1 .. (Len(q) - k) : SubSeq(q, k + 1, Len(q))[j] = q[k + j]
<1> DEFINE a == SubSeq(q, 1, k - 1)
           b == SubSeq(q, k + 1, Len(q))
<1>1. a \in Seq(S) /\ Len(a) = k - 1 /\ \A j \in 1 .. (k - 1) : a[j] = q[j]
  OBVIOUS
<1>2. b \in Seq(S) /\ Len(b) = Len(q) - k /\ \A j \in 1 .. (Len(q) - k) : b[j] = q[k + j]
  OBVIOUS
<1> QED BY <1>1, <1>2

LEMMA WithoutLists ==
    ASSUME NEW S, NEW q \in Seq(S), NEW T, Lists(q, T), NEW e \in T
    PROVE  Without(q, e) \in Seq(S) /\ Lists(Without(q, e), T \ {e})
<1> DEFINE k == CHOOSE i \in DOMAIN q : q[i] = e
           a == SubSeq(q, 1, k - 1)
           b == SubSeq(q, k + 1, Len(q))
           n == a \o b
<1>1. k \in DOMAIN q /\ q[k] = e
  BY DEF Lists
<1>2. Without(q, e) = n
  BY DEF Without
<1> HIDE DEF k
<1>3. DOMAIN q = 1 .. Len(q) /\ Len(q) \in Nat /\ k \in 1 .. Len(q)
  BY <1>1
<1>4. a \in Seq(S) /\ Len(a) = k - 1 /\ \A j \in 1 .. (k - 1) : a[j] = q[j]
  BY <1>3, Cut
<1>5. b \in Seq(S) /\ Len(b) = Len(q) - k /\ \A j \in 1 .. (Len(q) - k) : b[j] = q[k + j]
  BY Zenon, <1>3, Cut
<1> HIDE DEF a, b
<1>6. /\ n \in Seq(S) /\ DOMAIN n = 1 .. Len(q) - 1
      /\ \A i \in 1 .. Len(q) - 1 : n[i] = IF i < k THEN a[i] ELSE b[i - k + 1]
  <2>1. /\ n \in Seq(S) /\ Len(n) = Len(a) + Len(b)
        /\ \A i \in 1 .. Len(a) + Len(b) : n[i] = IF i <= Len(a) THEN a[i] ELSE b[i - Len(a)]
    BY Zenon, <1>4, <1>5, Joined
  <2>2. Len(a) + Len(b) = Len(q) - 1
    BY <1>3, <1>4, <1>5
  <2>3. DOMAIN n = 1 .. Len(q) - 1
    BY <2>1, <2>2
  <2>4. \A i \in 1 .. Len(q) - 1 : (i <= Len(a) <=> i < k) /\ i - Len(a) = i - k + 1
    BY <1>3, <1>4
  <2> HIDE DEF n
  <2> QED BY <2>1, <2>2, <2>3, <2>4
<1> HIDE DEF n
<1>7. \A i \in 1 .. Len(q) - 1 : n[i] = q[IF i < k THEN i ELSE i + 1]
  <2> TAKE i \in 1 .. Len(q) - 1
  <2>1. CASE i < k
    BY <1>3, <1>4, <1>6, <2>1
  <2>2. CASE i >= k
    <3>1. i - k + 1 \in 1 .. (Len(q) - k) /\ k + (i - k + 1) = i + 1
      BY <1>3, <2>2
    <3>2. b[i - k + 1] = q[i + 1]
      BY <1>5, <3>1
    <3> QED BY <1>3, <1>6, <2>2, <3>2
  <2> QED BY <1>3, <2>1, <2>2
<1>8. \A i \in DOMAIN n : (IF i < k THEN i ELSE i + 1) \in DOMAIN q /\ (IF i < k THEN i ELSE i + 1) # k
  BY <1>3, <1>6
<1>9. ASSUME NEW i \in DOMAIN n, NEW j \in DOMAIN n, n[i] = n[j]
      PROVE  i = j
  <2>1. q[IF i < k THEN i ELSE i + 1] = q[IF j < k THEN j ELSE j + 1]
    BY <1>6, <1>7, <1>9
  <2>2. (IF i < k THEN i ELSE i + 1) = (IF j < k THEN j ELSE j + 1)
    BY Zenon, <1>8, <2>1 DEF Lists
  <2> QED BY <1>3, <1>6, <2>2
<1>10. {n[i] : i \in DOMAIN n} = {q[i] : i \in DOMAIN q} \ {e}
  <2>1. ASSUME NEW i \in DOMAIN n PROVE n[i] \in {q[j] : j \in DOMAIN q} /\ n[i] # e
    <3>1. n[i] = q[IF i < k THEN i ELSE i + 1]
      BY <1>6, <1>7
    <3>2. q[IF i < k THEN i ELSE i + 1] # q[k]
      BY Zenon, <1>1, <1>8 DEF Lists
    <3> QED BY Zenon, <1>1, <1>8, <3>1, <3>2
  <2>2. ASSUME NEW j \in DOMAIN q, q[j] # e PROVE \E i \in DOMAIN n : n[i] = q[j]
    <3>1. CASE j < k
      BY <1>3, <1>6, <1>7, <3>1
    <3>2. CASE j > k
      <4>1. j - 1 \in DOMAIN n /\ n[j - 1] = q[j]
        BY <1>3, <1>6, <1>7, <3>2
      <4> QED BY <4>1
    <3> QED BY <1>1, <1>3, <2>2, <3>1, <3>2
  <2> QED BY <2>1, <2>2
<1>11. Lists(n, T \ {e})
  BY SMTT(30), <1>9, <1>10 DEF Lists
<1> QED BY Zenon, <1>2, <1>6, <1>11

-----------------------------------------------------------------------------
(* Types.                                                                  *)

ReleaseRecord == [state : ReleaseStates, version : Nat, seq : Nat]
JobRecord == [state : JobStates, release : Releases \cup {NoRelease},
              kind : {"publish-release", "rebuild-catalog"}, version : Nat,
              source : ReleaseStates, editorial : Nat,
              attempts : 0 .. MaxAttempts, seq : Nat, expired : BOOLEAN]
WorkerRecord == [pc : Steps, event : EventIds \cup {0}, attempt : Nat,
                 seq : Nat, apps : SUBSET Releases, editorial : Nat, tree : Nat]

TypedOrders == outbox \in Seq(EventIds) /\ queue \in Seq(EventIds) /\ second \subseteq EventIds
TypedLog == snapshots \subseteq Contents /\ generations \subseteq Contents /\ log \in Seq(Nat)

LEMMA TypeParts ==
    TypeOK <=> /\ TypedOrders /\ TypedLog
               /\ last_sequence \in Nat /\ current \in Nat
               /\ release \in [Releases -> ReleaseRecord]
               /\ layouts \in Seq(Releases)
               /\ job \in [EventIds -> JobRecord]
               /\ worker \in [Workers -> WorkerRecord]
BY Zenon DEF TypeOK, TypedOrders, TypedLog, ReleaseRecord, JobRecord, WorkerRecord

LEMMA JobFields ==
    ASSUME NEW j \in JobRecord
    PROVE  /\ j.attempts \in Nat /\ j.attempts <= MaxAttempts /\ j.seq \in Nat /\ j.version \in Nat
           /\ j.state \in JobStates /\ j.release \in Releases \cup {NoRelease}
<1>1. j.attempts \in 0 .. MaxAttempts
  BY DEF JobRecord
<1>2. MaxAttempts \in Nat
  BY PublisherAssumption
<1> QED BY <1>1, <1>2 DEF JobRecord

(* Only w moves. *)
Moves(w) ==
    /\ worker' \in [Workers -> WorkerRecord]
    /\ \A v \in Workers \ {w} : worker'[v] = worker[v]

LEMMA GotoMoves ==
    ASSUME TypeOK, NEW w \in Workers, NEW pc \in Steps, Goto(w, pc)
    PROVE  Moves(w) /\ worker'[w].pc = pc
<1>1. worker \in [Workers -> WorkerRecord]
  BY TypeParts
<1>2. At(pc) \in WorkerRecord /\ At(pc).pc = pc
  BY DEF At, WorkerRecord
<1> QED BY Zenon, <1>1, <1>2 DEF Goto, Moves

LEMMA StepMoves ==
    ASSUME TypeOK, NEW w \in Workers, NEW pc \in Steps, Step(w, pc)
    PROVE  /\ Moves(w) /\ worker'[w].pc = pc
           /\ worker'[w].event = worker[w].event /\ worker'[w].attempt = worker[w].attempt
           /\ worker'[w].seq = worker[w].seq /\ worker'[w].apps = worker[w].apps
           /\ worker'[w].editorial = worker[w].editorial /\ worker'[w].tree = worker[w].tree
BY Zenon, TypeParts DEF Step, Moves, WorkerRecord

(* Job e changes its state and nothing of what it is about. *)
SameJob(j, k) ==
    /\ k.release = j.release /\ k.kind = j.kind /\ k.version = j.version
    /\ k.source = j.source /\ k.attempts = j.attempts /\ k.seq = j.seq

Becomes(e, state) ==
    /\ job' \in [EventIds -> JobRecord]
    /\ job'[e].state = state /\ SameJob(job[e], job'[e])
    /\ \A f \in EventIds \ {e} : job'[f] = job[f]

LEMMA StateChanges ==
    ASSUME TypeOK, NEW e \in EventIds, NEW state \in JobStates,
           \/ job' = [job EXCEPT ![e].state = state]
           \/ job' = [job EXCEPT ![e].state = state, ![e].expired = FALSE]
    PROVE  Becomes(e, state)
<1> DEFINE v == [job[e] EXCEPT !.state = state]
           u == [v EXCEPT !.expired = FALSE]
           one == [job EXCEPT ![e] = v]
           two == [one EXCEPT ![e] = u]
<1>1. job \in [EventIds -> JobRecord]
  BY TypeParts
<1>2. job[e] \in JobRecord
  BY <1>1
<1>3. v \in JobRecord /\ v.state = state /\ SameJob(job[e], v)
  BY <1>2 DEF JobRecord, SameJob
<1>4. u \in JobRecord /\ u.state = state /\ SameJob(job[e], u)
  BY Zenon, <1>2 DEF JobRecord, SameJob
<1>5. one \in [EventIds -> JobRecord] /\ one[e] = v /\ \A f \in EventIds \ {e} : one[f] = job[f]
  BY Zenon, <1>1, <1>3
<1>6. two \in [EventIds -> JobRecord] /\ two[e] = u /\ \A f \in EventIds \ {e} : two[f] = job[f]
  BY Zenon, <1>4, <1>5
<1>7. job' = one \/ job' = two
  BY Zenon, <1>5
<1> HIDE DEF one, two, u, v
<1> QED BY Zenon, <1>3, <1>4, <1>5, <1>6, <1>7 DEF Becomes

(* The identity of the next event is a fresh one. *)
LEMMA NextIdFresh ==
    ASSUME NEW d \in EventIds, job[d].state = "unused"
    PROVE  NextId \in EventIds /\ job[NextId].state = "unused"
BY Zenon DEF NextId

(* A record that is stamped joins its list. *)
LEMMA StampedLists ==
    ASSUME NEW q \in Seq(EventIds), NEW e \in EventIds, NEW T, Lists(q, T), e \notin T,
           second \subseteq EventIds, NEW new, Stamped(q, e, new)
    PROVE  new \in Seq(EventIds) /\ Lists(new, T \cup {e}) /\ second' \subseteq EventIds
<1>1. CASE second' = {e} /\ new = Append(q, e)
  BY <1>1, AppendLists
<1>2. ASSUME second' = second \cup {e}, NEW k \in 1 .. Len(q) + 1,
             new = SubSeq(q, 1, k - 1) \o <<e>> \o SubSeq(q, k, Len(q))
      PROVE  new \in Seq(EventIds) /\ Lists(new, T \cup {e}) /\ second' \subseteq EventIds
  <2>1. new \in Seq(EventIds) /\ Lists(new, T \cup {e})
    BY <1>2, InsertLists
  <2> QED BY <1>2, <2>1
<1> QED BY Zenon, <1>1, <1>2 DEF Stamped

-----------------------------------------------------------------------------
(* What every step leaves as it was.                                       *)

(* A release that changes has a new version. *)
VersionsGrow ==
    \A r \in Releases : release'[r] = release[r] \/ release'[r].version > release[r].version

(* No step takes back a sequence, a snapshot, a generation or the end of a *)
(* publication.                                                            *)
Grows ==
    /\ \A f \in EventIds :
          /\ job[f].attempts # 0 =>
                /\ job'[f].attempts >= job[f].attempts /\ job'[f].seq = job[f].seq
                /\ job'[f].kind = job[f].kind /\ job'[f].release = job[f].release
                /\ job'[f].version = job[f].version
          /\ job[f].state = "completed" => job'[f] = job[f]
    /\ snapshots \subseteq snapshots' /\ generations \subseteq generations'
    /\ release' \in [Releases -> ReleaseRecord] /\ VersionsGrow

LEMMA CommittedGrows ==
    ASSUME Grows
    PROVE  Committed \subseteq Committed'
BY DEF Grows, Committed

(* The event, the attempt and the sequence of a worker stay those of its job. *)
LEMMA ClaimKeeps ==
    ASSUME IInv, job' \in [EventIds -> JobRecord], Grows, NEW w \in Workers,
           worker[w].pc \in Attempting,
           worker'[w].event = worker[w].event, worker'[w].attempt = worker[w].attempt,
           worker'[w].seq = worker[w].seq
    PROVE  /\ worker'[w].event \in EventIds
           /\ worker'[w].attempt \in 1 .. Job(w)'.attempts
           /\ worker'[w].seq = Job(w)'.seq
           /\ Target(worker[w].event)' = Target(worker[w].event)
           /\ Outdated(worker[w].event) => Outdated(worker[w].event)'
<1> DEFINE e == worker[w].event
           r == job[e].release
<1>1. /\ e \in EventIds /\ worker[w].attempt \in 1 .. job[e].attempts
      /\ worker[w].seq = job[e].seq
  BY DEF IInv, WorkersInv, WorkerInv, Job
<1>2. /\ job[e].attempts \in Nat /\ job'[e].attempts \in Nat /\ job[e].attempts # 0
      /\ job[e].version \in Nat
  <2>1. job[e] \in JobRecord /\ job'[e] \in JobRecord
    BY <1>1, TypeParts DEF IInv
  <2>2. job[e].attempts \in Nat /\ job'[e].attempts \in Nat /\ job[e].version \in Nat
    BY <2>1, JobFields
  <2> QED BY <1>1, <2>2
<1>3. /\ job'[e].attempts >= job[e].attempts /\ job'[e].seq = job[e].seq
      /\ job'[e].kind = job[e].kind /\ job'[e].release = r
      /\ job'[e].version = job[e].version
  BY <1>1, <1>2 DEF Grows
<1>4. worker'[w].attempt \in 1 .. job'[e].attempts
  BY <1>1, <1>2, <1>3
<1>5. r \in Releases
  <2>1. job[e].state # "unused"
    BY <1>1, <1>2 DEF IInv, JobsInv, Unused
  <2> QED BY <1>1, <2>1 DEF IInv, JobsInv, Emitted
<1>6. job[e].version < release[r].version => job'[e].version < release'[r].version
  <2>1. release[r].version \in Nat /\ release'[r].version \in Nat
    BY <1>5, TypeParts DEF IInv, Grows, ReleaseRecord
  <2>2. release'[r] = release[r] \/ release'[r].version > release[r].version
    BY <1>5 DEF Grows, VersionsGrow
  <2> QED BY <1>2, <1>3, <2>1, <2>2
<1> QED BY <1>1, <1>3, <1>4, <1>6 DEF Job, Target, Outdated

(* A worker that stays where it is keeps what it knows. *)
LEMMA WorkerKeeps ==
    ASSUME IInv, job' \in [EventIds -> JobRecord], Grows, NEW w \in Workers,
           worker'[w] = worker[w]
    PROVE  WorkerInv(w)'
<1>1. Committed \subseteq Committed' /\ generations \subseteq generations' /\ WorkerInv(w)
  BY CommittedGrows DEF Grows, IInv, WorkersInv
<1>2. CASE worker[w].pc \in Attempting
  <2>1. /\ worker'[w].event \in EventIds
        /\ worker'[w].attempt \in 1 .. Job(w)'.attempts
        /\ worker'[w].seq = Job(w)'.seq
        /\ Target(worker[w].event)' = Target(worker[w].event)
        /\ Outdated(worker[w].event) => Outdated(worker[w].event)'
    BY <1>2, ClaimKeeps
  <2>2. Prepared(w)' = Prepared(w)
    BY <2>1 DEF Prepared
  <2> QED BY <1>1, <2>1, <2>2 DEF WorkerInv
<1>3. CASE worker[w].pc \notin Attempting
  BY <1>1, <1>3 DEF WorkerInv, Attempting, Projected
<1> QED BY <1>2, <1>3

LEMMA WorkersKeep ==
    ASSUME IInv, job' \in [EventIds -> JobRecord], Grows,
           NEW w \in Workers, Moves(w), WorkerInv(w)'
    PROVE  WorkersInv'
<1> SUFFICES ASSUME NEW v \in Workers, v # w PROVE WorkerInv(v)'
  BY DEF WorkersInv
<1> QED BY WorkerKeeps DEF Moves

(* Outside an attempt, after a step of Goto, a worker knows nothing. *)
LEMMA IdleWorker ==
    ASSUME NEW w \in Workers, worker'[w].pc \in {"down", "start", "enqueue", "recover", "claim"}
    PROVE  WorkerInv(w)'
BY DEF WorkerInv, Attempting, Projected

LEMMA SnapshotsKeep ==
    ASSUME SnapshotsInv, Grows, UNCHANGED <<snapshots, log, generations>>
    PROVE  SnapshotsInv'
<1>1. /\ snapshots' \subseteq generations' /\ Committed' = Committed
      /\ snapshots' # {} => \E n \in Committed : \A m \in Committed : m <= n
      /\ \A g, h \in generations' : g.seq = h.seq => g = h
  BY DEF SnapshotsInv, Committed
<1>2. LogVerifies'
  BY DEF SnapshotsInv, LogVerifies
<1>3. Committed' = {log'[i] : i \in DOMAIN log'}
  <2>1. Committed' = Committed
    BY DEF Committed
  <2>2. {log'[i] : i \in DOMAIN log'} = {log[i] : i \in DOMAIN log}
    OBVIOUS
  <2> QED BY Zenon, <2>1, <2>2 DEF SnapshotsInv
<1>4. ASSUME NEW s \in snapshots PROVE \E e \in EventIds : job'[e].state = "completed" /\ job'[e].seq = s.seq
  BY DEF SnapshotsInv, Grows
<1> QED BY <1>1, <1>2, <1>3, <1>4 DEF SnapshotsInv

(* Where no Catalog is committed, what matters is that a release keeps its *)
(* sequence and that its state fits.                                       *)
LEMMA ReleasesKeep ==
    ASSUME UnpublishedIsNew, PublishedWasCommitted, UNCHANGED snapshots,
           \A r \in Releases :
               /\ release'[r].seq = release[r].seq
               /\ release'[r].state \in {"published", "paused"} => release[r].seq # 0
               /\ release[r].seq # 0 => release'[r].state \in {"published", "paused", "removed"}
               /\ release'[r].state = "none" => release'[r] = release[r]
    PROVE  UnpublishedIsNew' /\ PublishedWasCommitted'
<1>1. Committed' = Committed
  BY DEF Committed
<1> QED BY <1>1 DEF UnpublishedIsNew, PublishedWasCommitted

(* A change of state of an unfinished job that is no claim. *)
LEMMA BecomesKeeps ==
    ASSUME TypeOK, JobsInv, OnePublication, SequencesNotReused,
           NEW e \in EventIds, NEW state \in JobStates \ {"unused", "outbox"}, Becomes(e, state),
           job[e].state \in Unfinished,
           state = "queued" => job[e].attempts < MaxAttempts,
           state = "running" => job[e].state = "running",
           release' \in [Releases -> ReleaseRecord], VersionsGrow, UNCHANGED last_sequence,
           snapshots \subseteq snapshots', generations \subseteq generations'
    PROVE  JobsInv' /\ OnePublication' /\ SequencesNotReused' /\ Grows
<1>1. /\ job \in [EventIds -> JobRecord] /\ job' \in [EventIds -> JobRecord]
      /\ release \in [Releases -> ReleaseRecord]
  BY TypeParts DEF Becomes
<1>2. \A f \in EventIds : SameJob(job[f], job'[f])
  BY DEF Becomes, SameJob
<1>3. job[e].state # "unused" /\ job'[e].state = state /\ \A f \in EventIds \ {e} : job'[f] = job[f]
  BY DEF Becomes, Unfinished
<1>4. JobsInv'
  <2> SUFFICES ASSUME NEW f \in EventIds
               PROVE  /\ job'[f].state = "unused" => job'[f] = Unused
                      /\ job'[f].state # "unused" => Emitted(f)'
                      /\ Attempted(f)'
    BY DEF JobsInv
  <2>1. job'[f].state = "unused" => job'[f] = Unused
    BY <1>3 DEF JobsInv
  <2>2. job'[f].state # "unused" => Emitted(f)'
    <3>1. SUFFICES ASSUME job[f].state # "unused" PROVE Emitted(f)'
      BY <1>3
    <3>2. Emitted(f) /\ SameJob(job[f], job'[f])
      BY <1>2, <3>1 DEF JobsInv
    <3>3. \/ release'[job[f].release] = release[job[f].release]
          \/ release'[job[f].release].version > release[job[f].release].version
      BY <3>2 DEF VersionsGrow, Emitted
    <3>4. /\ job[f].version \in Nat /\ release[job[f].release].version \in Nat
          /\ release'[job[f].release].version \in Nat
      BY <1>1, <3>2 DEF Emitted, JobRecord, ReleaseRecord
    <3> QED BY <3>2, <3>3, <3>4 DEF Emitted, SameJob
  <2>3. Attempted(f)'
    <3>1. Attempted(f)
      BY DEF JobsInv
    <3>2. CASE f # e
      BY <1>3, <3>1, <3>2 DEF Attempted
    <3>3. CASE f = e
      BY <1>2, <1>3, <3>1, <3>3 DEF Attempted, SameJob
    <3> QED BY <3>2, <3>3
  <2> QED BY <2>1, <2>2, <2>3
<1>5. OnePublication'
  BY <1>2 DEF OnePublication, SameJob
<1>6. SequencesNotReused'
  BY <1>2, <1>3 DEF SequencesNotReused, SameJob
<1>7. Grows
  <2> SUFFICES ASSUME NEW f \in EventIds
               PROVE  /\ job'[f].attempts >= job[f].attempts /\ job'[f].seq = job[f].seq
                      /\ job'[f].kind = job[f].kind /\ job'[f].release = job[f].release
                      /\ job'[f].version = job[f].version
                      /\ job[f].state = "completed" => job'[f] = job[f]
    BY DEF Grows
  <2>1. job[f].attempts \in Nat
    BY <1>1, JobFields
  <2> QED BY <1>2, <1>3, <2>1 DEF SameJob, Unfinished
<1> QED BY <1>4, <1>5, <1>6, <1>7

LEMMA OrdersStay ==
    ASSUME OrdersInv, UNCHANGED <<outbox, queue>>,
           \A e \in EventIds :
               /\ job'[e].state = "outbox" <=> job[e].state = "outbox"
               /\ job'[e].state \in {"queued", "running"} <=> job[e].state \in {"queued", "running"}
    PROVE  OrdersInv'
<1>1. /\ {e \in EventIds : job'[e].state = "outbox"} = {e \in EventIds : job[e].state = "outbox"}
      /\ {e \in EventIds : job'[e].state \in {"queued", "running"}} =
            {e \in EventIds : job[e].state \in {"queued", "running"}}
  OBVIOUS
<1> QED BY <1>1 DEF OrdersInv, Lists

(* An event that ends while its release waits for it is not of a version   *)
(* that counts.                                                            *)
LEMMA PendingStays ==
    ASSUME PublishingIsPending, NEW e \in EventIds, NEW state, Becomes(e, state),
           state \in Unfinished \/ ~Current(e) \/ job[e].source # "publishing", UNCHANGED release
    PROVE  PublishingIsPending'
<1> SUFFICES ASSUME NEW r \in Releases, release[r].state = "publishing"
             PROVE  \E f \in EventIds : job'[f].state \in Unfinished /\ job'[f].release = r /\ Current(f)'
  BY DEF PublishingIsPending, Unfinished
<1>1. PICK f \in EventIds : job[f].state \in Unfinished /\ job[f].release = r /\ Current(f)
  BY DEF PublishingIsPending, Unfinished
<1>2. job'[f].state \in Unfinished
  BY <1>1 DEF Becomes, Current
<1>3. job'[f].release = r /\ Current(f)'
  BY <1>1 DEF Becomes, SameJob, Current
<1> QED BY <1>2, <1>3

-----------------------------------------------------------------------------
(* The mutations of the control server.                                    *)

(* n is a new event of the outbox. *)
Adds(n, r, kind, version, source) ==
    /\ n \in EventIds /\ job[n] = Unused
    /\ job' \in [EventIds -> JobRecord]
    /\ \A f \in EventIds \ {n} : job'[f] = job[f]
    /\ job'[n].state = "outbox" /\ job'[n].attempts = 0 /\ job'[n].seq = 0
    /\ job'[n].release = r /\ job'[n].kind = kind /\ job'[n].version = version
    /\ job'[n].source = source

LEMMA EmitAdds ==
    ASSUME TypeOK, JobsInv, OrdersInv, NEW r \in Releases,
           NEW kind \in {"publish-release", "rebuild-catalog"}, NEW version \in Nat,
           NEW source \in ReleaseStates, NEW editorial \in Nat,
           Emit(r, kind, version, source, editorial)
    PROVE  Adds(NextId, r, kind, version, source) /\ TypedOrders' /\ OrdersInv'
<1> DEFINE n == NextId
           j == [state |-> "outbox", release |-> r, kind |-> kind, version |-> version,
                 source |-> source, editorial |-> editorial,
                 attempts |-> 0, seq |-> 0, expired |-> FALSE]
<1>1. n \in EventIds /\ job[n].state = "unused"
  BY NextIdFresh DEF Emit
<1>2. job[n] = Unused
  BY <1>1 DEF JobsInv
<1>3. /\ job' = [job EXCEPT ![n] = j] /\ Stamped(outbox, n, outbox') /\ queue' = queue
  BY DEF Emit
<1> HIDE DEF n
<1>5. /\ j \in JobRecord /\ j.state = "outbox" /\ j.attempts = 0 /\ j.seq = 0 /\ j.release = r
      /\ j.kind = kind /\ j.version = version /\ j.source = source
  BY PublisherAssumption DEF JobRecord, JobStates
<1> HIDE DEF j
<1>6. job \in [EventIds -> JobRecord]
  BY TypeParts
<1>7. /\ job' \in [EventIds -> JobRecord] /\ job'[n] = j
      /\ \A f \in EventIds \ {n} : job'[f] = job[f]
  BY Zenon, <1>1, <1>3, <1>5, <1>6
<1>8. Adds(n, r, kind, version, source)
  BY Zenon, <1>1, <1>2, <1>5, <1>7 DEF Adds
<1> DEFINE O == {e \in EventIds : job[e].state = "outbox"}
           Q == {e \in EventIds : job[e].state \in {"queued", "running"}}
<1>9. /\ {e \in EventIds : job'[e].state = "outbox"} = O \cup {n} /\ n \notin O
      /\ {e \in EventIds : job'[e].state \in {"queued", "running"}} = Q
  BY <1>1, <1>5, <1>7
<1>10. Lists(outbox, O) /\ Lists(queue, Q) /\ outbox \in Seq(EventIds) /\ second \subseteq EventIds
  BY TypeParts DEF OrdersInv, TypedOrders
<1> HIDE DEF O, Q
<1>11. outbox' \in Seq(EventIds) /\ Lists(outbox', O \cup {n}) /\ second' \subseteq EventIds
  BY Zenon, <1>1, <1>3, <1>9, <1>10, StampedLists
<1>12. Lists(queue', Q)
  BY <1>3, <1>10
<1>13. OrdersInv'
  BY Zenon, <1>9, <1>11, <1>12 DEF OrdersInv
<1>14. queue' \in Seq(EventIds)
  BY <1>3, TypeParts DEF TypedOrders
<1> QED BY <1>8, <1>11, <1>13, <1>14 DEF n, TypedOrders

(* What the mutation of r means for events, jobs and workers. *)
LEMMA AddsKeeps ==
    ASSUME IInv, NEW n, NEW r \in Releases, NEW kind, NEW version \in Nat, NEW source,
           Adds(n, r, kind, version, source),
           version = release'[r].version, source = release'[r].state,
           source \in IF kind = "publish-release" THEN {"publishing"}
                      ELSE {"published", "paused", "removed"},
           kind = "publish-release" => version > release[r].version,
           release' \in [Releases -> ReleaseRecord], VersionsGrow,
           UNCHANGED <<last_sequence, snapshots, generations, worker>>
    PROVE  JobsInv' /\ OnePublication' /\ SequencesNotReused' /\ Grows /\ WorkersInv'
<1>1. /\ job \in [EventIds -> JobRecord] /\ job' \in [EventIds -> JobRecord]
      /\ release \in [Releases -> ReleaseRecord] /\ last_sequence \in Nat
  BY TypeParts DEF Adds, IInv
<1>2. /\ n \in EventIds /\ job[n] = Unused /\ job[n].state = "unused" /\ job[n].attempts = 0
      /\ job[n].seq = 0 /\ job[n].kind = "rebuild-catalog"
      /\ \A f \in EventIds \ {n} : job'[f] = job[f]
  BY DEF Adds, Unused
<1>3. JobsInv'
  <2> SUFFICES ASSUME NEW f \in EventIds
               PROVE  /\ job'[f].state = "unused" => job'[f] = Unused
                      /\ job'[f].state # "unused" => Emitted(f)'
                      /\ Attempted(f)'
    BY DEF JobsInv
  <2>1. CASE f = n
    <3>1. Emitted(n)'
      BY DEF Adds, Emitted
    <3>2. Attempted(n)'
      BY <1>1, PublisherAssumption DEF Adds, Attempted
    <3> QED BY <2>1, <3>1, <3>2 DEF Adds
  <2>2. CASE f # n
    <3>1. job'[f] = job[f] /\ job[f] \in JobRecord
      BY <1>1, <1>2, <2>2
    <3>2. ASSUME job[f].state # "unused" PROVE Emitted(f)'
      <4>1. Emitted(f)
        BY <3>2 DEF JobsInv, IInv
      <4>2. \/ release'[job[f].release] = release[job[f].release]
            \/ release'[job[f].release].version > release[job[f].release].version
        BY <4>1 DEF VersionsGrow, Emitted
      <4>3. /\ job[f].version \in Nat /\ release[job[f].release].version \in Nat
            /\ release'[job[f].release].version \in Nat
        BY <1>1, <4>1 DEF Emitted, JobRecord, ReleaseRecord
      <4> QED BY <3>1, <4>1, <4>2, <4>3 DEF Emitted
    <3>3. Attempted(f)'
      BY <3>1 DEF JobsInv, Attempted, IInv
    <3> QED BY <3>1, <3>2, <3>3 DEF JobsInv, IInv
  <2> QED BY <2>1, <2>2
<1>4. OnePublication'
  <2> SUFFICES ASSUME NEW e \in EventIds, NEW f \in EventIds, e # f,
                      job'[e].kind = "publish-release", job'[f].kind = "publish-release",
                      job'[e].release = job'[f].release, job'[e].version = job'[f].version
               PROVE  FALSE
    BY DEF OnePublication
  <2>1. ASSUME NEW g \in EventIds, g # n, job'[g].kind = "publish-release", job'[g].release = r,
               kind = "publish-release"
        PROVE  job'[g].version # version
    <3>1. job'[g] = job[g] /\ job[g].state # "unused"
      BY <1>2, <2>1 DEF JobsInv, Unused, IInv
    <3>2. job[g].version <= release[r].version
      BY <2>1, <3>1 DEF JobsInv, Emitted, IInv
    <3>3. job[g].version \in Nat /\ release[r].version \in Nat
      BY <1>1 DEF JobRecord, ReleaseRecord
    <3> QED BY <2>1, <3>1, <3>2, <3>3
  <2>2. CASE e = n
    BY <2>1, <2>2 DEF Adds
  <2>3. CASE f = n
    BY <2>1, <2>3 DEF Adds
  <2>4. CASE e # n /\ f # n
    BY <1>2, <2>4 DEF OnePublication, IInv
  <2> QED BY <2>2, <2>3, <2>4
<1>5. SequencesNotReused'
  BY <1>2 DEF Adds, SequencesNotReused, IInv, PublicationRecorded
<1>6. Grows
  <2> SUFFICES ASSUME NEW f \in EventIds, f # n
               PROVE  job'[f].attempts >= job[f].attempts /\ job'[f] = job[f]
    BY <1>2 DEF Grows
  <2>1. job[f].attempts \in Nat
    BY <1>1, JobFields
  <2> QED BY <1>2, <2>1
<1>7. WorkersInv'
  <2> SUFFICES ASSUME NEW v \in Workers PROVE WorkerInv(v)'
    BY DEF WorkersInv
  <2>1. worker'[v] = worker[v]
    OBVIOUS
  <2> QED BY Zenon, <1>1, <1>6, <2>1, WorkerKeeps
<1> QED BY <1>3, <1>4, <1>5, <1>6, <1>7

LEMMA IInvParts ==
    ASSUME TypedOrders', TypedLog', last_sequence' \in Nat, current' \in Nat,
           release' \in [Releases -> ReleaseRecord], layouts' \in Seq(Releases),
           job' \in [EventIds -> JobRecord], worker' \in [Workers -> WorkerRecord],
           OrdersInv', JobsInv', OnePublication', WorkersInv', SnapshotsInv',
           UnpublishedIsNew', PublishedWasCommitted', ServesCommitted',
           SequencesNotReused', PublishingIsPending'
    PROVE  IInv'
<1>1. TypeOK'
  BY DEF TypeOK, TypedOrders, TypedLog, ReleaseRecord, JobRecord, WorkerRecord
<1> QED BY <1>1 DEF IInv, PublicationRecorded

(* The state and the version of one release change. *)
Changes(r, state, version) ==
    /\ release' \in [Releases -> ReleaseRecord]
    /\ release'[r].state = state /\ release'[r].version = version
    /\ release'[r].seq = release[r].seq
    /\ \A q \in Releases \ {r} : release'[q] = release[q]

LEMMA ReleaseChanges ==
    ASSUME TypeOK, NEW r \in Releases, NEW state \in ReleaseStates, NEW version \in Nat,
           release' = [release EXCEPT ![r].state = state, ![r].version = version]
    PROVE  Changes(r, state, version)
<1> DEFINE u == [release[r] EXCEPT !.state = state]
           v == [u EXCEPT !.version = version]
           one == [release EXCEPT ![r] = u]
<1>1. release \in [Releases -> ReleaseRecord]
  BY TypeParts
<1>2. /\ u \in ReleaseRecord /\ v \in ReleaseRecord
      /\ v.state = state /\ v.version = version /\ v.seq = release[r].seq
  BY Zenon, <1>1 DEF ReleaseRecord
<1>3. one \in [Releases -> ReleaseRecord] /\ one[r] = u /\ \A q \in Releases \ {r} : one[q] = release[q]
  BY Zenon, <1>1, <1>2
<1>4. release' = [one EXCEPT ![r] = v]
  BY Zenon, <1>3
<1> HIDE DEF u, v, one
<1>5. /\ release' \in [Releases -> ReleaseRecord] /\ release'[r] = v
      /\ \A q \in Releases \ {r} : release'[q] = release[q]
  BY Zenon, <1>2, <1>3, <1>4
<1> QED BY Zenon, <1>2, <1>5 DEF Changes

(* What stays when neither a Catalog is committed nor the origin written.  *)
LEMMA RecordStays ==
    ASSUME IInv, UNCHANGED <<snapshots, log, generations, current>>
    PROVE  TypedLog' /\ current' \in Nat /\ ServesCommitted'
<1>1. Committed' = Committed
  BY DEF Committed
<1> QED BY <1>1, TypeParts DEF IInv, TypedLog, ServesCommitted

(* A release reaches the state `publishing' only with an event. *)
LEMMA ChangePending ==
    ASSUME IInv, NEW r \in Releases, NEW state, NEW version \in Nat, Changes(r, state, version),
           \A f \in EventIds : job[f].state # "unused" => job'[f] = job[f],
           state = "publishing" =>
               \E n \in EventIds : /\ job'[n].state = "outbox" /\ job'[n].release = r
                                    /\ job'[n].source = state /\ job'[n].version = version
    PROVE  PublishingIsPending'
<1> SUFFICES ASSUME NEW q \in Releases, release'[q].state = "publishing"
             PROVE  \E f \in EventIds : job'[f].state \in Unfinished /\ job'[f].release = q /\ Current(f)'
  BY DEF PublishingIsPending, Unfinished
<1>1. CASE q = r
  BY <1>1 DEF Changes, Current, Unfinished
<1>2. CASE q # r
  <2>1. release[q].state = "publishing"
    BY <1>2 DEF Changes
  <2>2. PICK f \in EventIds : job[f].state \in Unfinished /\ job[f].release = q /\ Current(f)
    BY <2>1 DEF IInv, PublicationRecorded, PublishingIsPending, Unfinished
  <2>3. job'[f] = job[f]
    BY <2>2 DEF Unfinished
  <2> QED BY <1>2, <2>2, <2>3 DEF Changes, Current
<1> QED BY <1>1, <1>2

LEMMA JobsStay ==
    ASSUME IInv, UNCHANGED <<job, last_sequence>>, VersionsGrow,
           release' \in [Releases -> ReleaseRecord],
           snapshots \subseteq snapshots', generations \subseteq generations'
    PROVE  /\ job' \in [EventIds -> JobRecord]
           /\ JobsInv' /\ OnePublication' /\ SequencesNotReused' /\ Grows
<1>1. job \in [EventIds -> JobRecord] /\ release \in [Releases -> ReleaseRecord]
  BY TypeParts DEF IInv
<1>2. ASSUME NEW f \in EventIds, job[f].state # "unused" PROVE Emitted(f)'
  <2>1. Emitted(f)
    BY <1>2 DEF JobsInv, IInv
  <2>2. \/ release'[job[f].release] = release[job[f].release]
        \/ release'[job[f].release].version > release[job[f].release].version
    BY <2>1 DEF VersionsGrow, Emitted
  <2>3. /\ job[f].version \in Nat /\ release[job[f].release].version \in Nat
        /\ release'[job[f].release].version \in Nat
    BY <1>1, <2>1 DEF Emitted, JobRecord, ReleaseRecord
  <2> QED BY <2>1, <2>2, <2>3 DEF Emitted
<1>3. JobsInv'
  BY <1>2 DEF JobsInv, Attempted, IInv
<1>4. OnePublication' /\ SequencesNotReused'
  BY DEF OnePublication, SequencesNotReused, IInv, PublicationRecorded
<1>5. Grows
  <2>1. \A f \in EventIds : job[f].attempts \in Nat
    BY <1>1, JobFields
  <2> QED BY <2>1 DEF Grows
<1> QED BY <1>1, <1>3, <1>4, <1>5

(* A mutation of the state of r that is committed with its event. *)
LEMMA MutationKeeps ==
    ASSUME IInv, NEW r \in Releases, NEW state, NEW version \in Nat, Changes(r, state, version),
           state # "none",
           state \in {"published", "paused"} => release[r].seq # 0,
           release[r].seq # 0 => state \in {"published", "paused", "removed"},
           \A f \in EventIds : job[f].state # "unused" => job'[f] = job[f],
           state = "publishing" =>
               \E n \in EventIds : /\ job'[n].state = "outbox" /\ job'[n].release = r
                                    /\ job'[n].source = state /\ job'[n].version = version,
           layouts' \in Seq(Releases), job' \in [EventIds -> JobRecord], Grows,
           TypedOrders', OrdersInv', JobsInv', OnePublication', SequencesNotReused', WorkersInv',
           UNCHANGED <<last_sequence, snapshots, log, generations, current, worker>>
    PROVE  IInv'
<1>1. TypedLog' /\ current' \in Nat /\ ServesCommitted'
  BY RecordStays
<1>2. SnapshotsInv'
  BY SnapshotsKeep DEF IInv
<1>3. UnpublishedIsNew' /\ PublishedWasCommitted'
  <2>1. \A q \in Releases :
            /\ release'[q].seq = release[q].seq
            /\ release'[q].state \in {"published", "paused"} => release[q].seq # 0
            /\ release[q].seq # 0 => release'[q].state \in {"published", "paused", "removed"}
            /\ release'[q].state = "none" => release'[q] = release[q]
    BY DEF Changes, IInv, PublicationRecorded, PublishedWasCommitted
  <2> QED BY <2>1, ReleasesKeep DEF IInv, PublicationRecorded
<1>4. PublishingIsPending'
  BY ChangePending
<1>5. /\ last_sequence' \in Nat /\ worker' \in [Workers -> WorkerRecord]
      /\ release' \in [Releases -> ReleaseRecord]
  BY TypeParts DEF IInv, Changes
<1> QED BY Zenon, <1>1, <1>2, <1>3, <1>4, <1>5, IInvParts

(* A change of one release that needs no event. *)
LEMMA SilentMutation ==
    ASSUME IInv, NEW r \in Releases, NEW state, NEW version \in Nat, Changes(r, state, version),
           state \in {"ready", "scheduled"}, release[r].seq = 0, version > release[r].version,
           UNCHANGED <<layouts, job, last_sequence, snapshots, log, outbox, queue, second,
                       generations, current, worker>>
    PROVE  IInv'
<1>1. release' \in [Releases -> ReleaseRecord] /\ release \in [Releases -> ReleaseRecord]
  BY TypeParts DEF Changes, IInv
<1>2. VersionsGrow
  BY <1>1 DEF VersionsGrow, Changes, ReleaseRecord
<1>3. /\ job' \in [EventIds -> JobRecord]
      /\ JobsInv' /\ OnePublication' /\ SequencesNotReused' /\ Grows
  BY <1>1, <1>2, JobsStay
<1>4. WorkersInv'
  <2> SUFFICES ASSUME NEW v \in Workers PROVE WorkerInv(v)'
    BY DEF WorkersInv
  <2>1. worker'[v] = worker[v]
    OBVIOUS
  <2> QED BY Zenon, <1>3, <2>1, WorkerKeeps
<1>5. OrdersInv' /\ TypedOrders' /\ layouts' \in Seq(Releases)
  BY OrdersStay, TypeParts DEF IInv, TypedOrders
<1> QED BY <1>3, <1>4, <1>5, MutationKeeps

LEMMA CreateReleaseKeeps ==
    ASSUME IInv, NEW r \in Releases, CreateRelease(r)
    PROVE  IInv'
<1>1. /\ release[r].state = "none"
      /\ release' = [release EXCEPT ![r].state = "ready", ![r].version = 1]
      /\ UNCHANGED <<layouts, job, last_sequence, snapshots, log, outbox, queue, second,
                     generations, current, worker>>
  BY DEF CreateRelease, orders, origin
<1>2. Changes(r, "ready", 1)
  BY Zenon, <1>1, ReleaseChanges DEF IInv, ReleaseStates
<1>3. release[r].seq = 0 /\ release[r].version = 0
  BY <1>1 DEF IInv, PublicationRecorded, PublishedWasCommitted, UnpublishedIsNew
<1> QED BY <1>1, <1>2, <1>3, SilentMutation

LEMMA MutateReleaseKeeps ==
    ASSUME IInv, NEW r \in Releases,
           NEW action \in {"schedule", "publish", "pause", "resume", "remove"},
           MutateRelease(r, action)
    PROVE  IInv'
<1> DEFINE version == release[r].version + 1
           target == Transitions(action).to
<1>1. /\ release[r].state \in Transitions(action).from
      /\ release' = [release EXCEPT ![r].state = target, ![r].version = version]
      /\ UNCHANGED <<layouts, last_sequence, snapshots, log, generations, current, worker>>
  BY DEF MutateRelease, origin
<1>2. release \in [Releases -> ReleaseRecord] /\ version \in Nat /\ version > release[r].version
  BY TypeParts DEF IInv, ReleaseRecord
<1>3. target \in ReleaseStates \ {"none", "ready"}
  BY DEF Transitions, ReleaseStates
<1>4. Changes(r, target, version)
  BY Zenon, <1>1, <1>2, <1>3, ReleaseChanges DEF IInv
<1>5. /\ target \in {"published", "paused"} => release[r].seq # 0
      /\ release[r].seq # 0 => target \in {"published", "paused", "removed"}
  <2>1. /\ release[r].state \in {"published", "paused"} => release[r].seq # 0
        /\ release[r].seq # 0 => release[r].state \in {"published", "paused", "removed"}
    BY DEF IInv, PublicationRecorded, PublishedWasCommitted
  <2> QED BY <1>1, <2>1 DEF Transitions
<1>6. CASE action = "schedule" /\ UNCHANGED <<job, outbox, queue, second>>
  <2>1. target = "scheduled" /\ release[r].seq = 0
    BY <1>5, <1>6 DEF Transitions
  <2>2. version > release[r].version
    BY <1>2 DEF ReleaseRecord
  <2> HIDE DEF version, target
  <2> QED BY <1>1, <1>2, <1>4, <1>6, <2>1, <2>2, SilentMutation
<1>7. CASE action # "schedule" /\ Emit(r, Topic(action), version, target, 0)
  <2> DEFINE n == NextId
  <2>1. /\ Topic(action) \in {"publish-release", "rebuild-catalog"}
        /\ target \in IF Topic(action) = "publish-release" THEN {"publishing"}
                      ELSE {"published", "paused", "removed"}
    BY <1>7 DEF Topic, Transitions
  <2>2. Adds(n, r, Topic(action), version, target) /\ TypedOrders' /\ OrdersInv'
    BY <1>2, <1>3, <1>7, <2>1, EmitAdds DEF IInv
  <2>3. release' \in [Releases -> ReleaseRecord] /\ version = release'[r].version /\ VersionsGrow
    BY <1>2, <1>4 DEF Changes, VersionsGrow, ReleaseRecord
  <2> HIDE DEF n, version, target
  <2>4. JobsInv' /\ OnePublication' /\ SequencesNotReused' /\ Grows /\ WorkersInv'
    BY Zenon, <1>1, <1>2, <1>4, <2>1, <2>2, <2>3, AddsKeeps DEF Changes
  <2>5. /\ n \in EventIds /\ job'[n].state = "outbox" /\ job'[n].release = r
        /\ job'[n].source = target /\ job'[n].version = version
        /\ job' \in [EventIds -> JobRecord]
        /\ \A f \in EventIds : job[f].state # "unused" => job'[f] = job[f]
    BY <2>2 DEF Adds, Unused
  <2>6. layouts' \in Seq(Releases)
    BY <1>1, TypeParts DEF IInv
  <2> QED BY <1>1, <1>2, <1>3, <1>4, <1>5, <2>2, <2>4, <2>5, <2>6, MutationKeeps
<1> QED BY <1>6, <1>7 DEF MutateRelease, orders

LEMMA ReplaceEditorialKeeps ==
    ASSUME IInv, NEW r \in Releases, ReplaceEditorial(r)
    PROVE  IInv'
<1> DEFINE version == release[r].version
           n == NextId
<1>1. /\ release[r].state = "published" /\ layouts' = Append(layouts, r)
      /\ Emit(r, "rebuild-catalog", version, "published", Len(layouts) + 1)
      /\ UNCHANGED <<release, last_sequence, snapshots, log, generations, current, worker>>
  BY DEF ReplaceEditorial, Published, origin
<1>2. /\ release \in [Releases -> ReleaseRecord] /\ version \in Nat /\ layouts \in Seq(Releases)
      /\ \A q \in Releases : release[q].version \in Nat
  BY TypeParts DEF IInv, ReleaseRecord
<1>3. layouts' \in Seq(Releases) /\ Len(layouts) + 1 \in Nat
  BY <1>1, <1>2
<1>4. Changes(r, "published", version) /\ VersionsGrow
  BY <1>1, <1>2 DEF Changes, VersionsGrow
<1>5. /\ Adds(n, r, "rebuild-catalog", version, "published") /\ TypedOrders' /\ OrdersInv'
  <2>1. "published" \in ReleaseStates
    BY DEF ReleaseStates
  <2> QED BY <1>1, <1>2, <1>3, <2>1, EmitAdds DEF IInv
<1>6. release[r].seq # 0
  BY <1>1 DEF IInv, PublicationRecorded, PublishedWasCommitted
<1>7. /\ release' \in [Releases -> ReleaseRecord]
      /\ version = release'[r].version /\ release'[r].state = "published"
  BY <1>1, <1>2
<1> HIDE DEF n, version
<1>8. JobsInv' /\ OnePublication' /\ SequencesNotReused' /\ Grows /\ WorkersInv'
  BY Zenon, <1>1, <1>2, <1>4, <1>5, <1>7, AddsKeeps
<1>9. /\ job' \in [EventIds -> JobRecord]
      /\ \A f \in EventIds : job[f].state # "unused" => job'[f] = job[f]
  BY <1>5 DEF Adds, Unused
<1> QED BY Zenon, <1>1, <1>2, <1>3, <1>4, <1>5, <1>6, <1>8, <1>9, MutationKeeps

LEMMA ControlKeeps ==
    ASSUME IInv, Control
    PROVE  IInv'
BY CreateReleaseKeeps, MutateReleaseKeeps, ReplaceEditorialKeeps DEF Control

-----------------------------------------------------------------------------
(* The steps of a worker that change nothing but the worker.               *)

LEMMA DatabaseStays ==
    ASSUME IInv, UNCHANGED database, generations \subseteq generations'
    PROVE  /\ Grows /\ job' \in [EventIds -> JobRecord] /\ last_sequence' \in Nat
           /\ release' \in [Releases -> ReleaseRecord] /\ layouts' \in Seq(Releases)
           /\ TypedOrders' /\ OrdersInv' /\ JobsInv' /\ OnePublication' /\ UnpublishedIsNew'
           /\ PublishedWasCommitted' /\ SequencesNotReused' /\ PublishingIsPending'
<1>1. UNCHANGED <<release, layouts, job, last_sequence, snapshots, log, outbox, queue, second>>
  BY DEF database, orders
<1>2. /\ release' \in [Releases -> ReleaseRecord] /\ layouts' \in Seq(Releases)
      /\ last_sequence' \in Nat /\ TypedOrders'
  BY <1>1, TypeParts DEF IInv, TypedOrders
<1>3. VersionsGrow
  BY <1>1, <1>2 DEF VersionsGrow, ReleaseRecord
<1>4. /\ job' \in [EventIds -> JobRecord]
      /\ JobsInv' /\ OnePublication' /\ SequencesNotReused' /\ Grows
  BY <1>1, <1>2, <1>3, JobsStay
<1>5. OrdersInv'
  BY <1>1, <1>4, OrdersStay DEF IInv
<1>6. UnpublishedIsNew' /\ PublishedWasCommitted'
  BY <1>1, ReleasesKeep DEF IInv, PublicationRecorded, PublishedWasCommitted
<1>7. PublishingIsPending'
  BY <1>1 DEF PublishingIsPending, IInv, PublicationRecorded, Current
<1> QED BY <1>2, <1>4, <1>5, <1>6, <1>7

LEMMA NothingGrows ==
    ASSUME IInv, UNCHANGED <<database, origin>>
    PROVE  Grows /\ job' \in [EventIds -> JobRecord]
<1>1. UNCHANGED database /\ generations' = generations
  BY DEF origin
<1> QED BY <1>1, DatabaseStays

LEMMA WorkerOnly ==
    ASSUME IInv, UNCHANGED <<database, origin>>, NEW w \in Workers, Moves(w), WorkerInv(w)'
    PROVE  IInv'
<1>1. UNCHANGED <<database, snapshots, log, generations, current>>
  BY DEF database, origin
<1>2. /\ Grows /\ job' \in [EventIds -> JobRecord] /\ last_sequence' \in Nat
      /\ release' \in [Releases -> ReleaseRecord] /\ layouts' \in Seq(Releases)
      /\ TypedOrders' /\ OrdersInv' /\ JobsInv' /\ OnePublication' /\ UnpublishedIsNew'
      /\ PublishedWasCommitted' /\ SequencesNotReused' /\ PublishingIsPending'
  BY <1>1, DatabaseStays
<1>3. WorkersInv' /\ worker' \in [Workers -> WorkerRecord]
  BY <1>2, WorkersKeep DEF IInv, Moves
<1>4. SnapshotsInv' /\ TypedLog' /\ current' \in Nat /\ ServesCommitted'
  BY <1>1, <1>2, SnapshotsKeep, RecordStays DEF IInv
<1> QED BY Zenon, <1>2, <1>3, <1>4, IInvParts

LEMMA IdleSteps ==
    ASSUME IInv, UNCHANGED <<database, origin>>, NEW w \in Workers,
           NEW pc \in {"down", "start", "enqueue", "recover", "claim"}, Goto(w, pc)
    PROVE  IInv'
<1>1. Moves(w) /\ worker'[w].pc = pc
  BY GotoMoves DEF IInv, Steps
<1>2. WorkerInv(w)'
  BY <1>1, IdleWorker
<1> QED BY <1>1, <1>2, WorkerOnly

LEMMA OpenKeeps ==
    ASSUME IInv, NEW w \in Workers, Open(w) \/ Crash(w)
    PROVE  IInv'
BY IdleSteps DEF Open, Crash

(* The newest of the sequences is one of them. *)
LEMMA HighestExists ==
    ASSUME IInv, snapshots # {}
    PROVE  Highest(Committed) \in Committed /\ \A m \in Committed : m <= Highest(Committed)
<1>1. \E n \in Committed : \A m \in Committed : m <= n
  BY DEF IInv, SnapshotsInv
<1> QED BY Zenon, <1>1 DEF Highest

LEMMA CommittedBounded ==
    ASSUME IInv
    PROVE  /\ Committed \in SUBSET Nat /\ last_sequence \in Nat
           /\ \A n \in Committed : n <= last_sequence
<1>1. snapshots \subseteq Contents /\ last_sequence \in Nat
  BY TypeParts DEF IInv, TypedLog
<1>2. Committed \in SUBSET Nat
  BY <1>1 DEF Committed, Contents
<1>3. ASSUME NEW s \in snapshots PROVE s.seq <= last_sequence
  <2>1. PICK e \in EventIds : job[e].state = "completed" /\ job[e].seq = s.seq
    BY DEF IInv, SnapshotsInv
  <2> QED BY <2>1 DEF IInv, JobsInv, Attempted
<1> QED BY <1>1, <1>2, <1>3 DEF Committed

LEMMA ReconcileReadKeeps ==
    ASSUME IInv, NEW w \in Workers, ReconcileRead(w)
    PROVE  IInv'
<1>1. CASE Goto(w, IF current = 0 THEN "enqueue" ELSE "down")
  BY <1>1, IdleSteps DEF ReconcileRead
<1>2. CASE /\ snapshots # {}
           /\ worker' = [worker EXCEPT ![w] = [At("reconcile") EXCEPT !.seq = Highest(Committed)]]
  <2> DEFINE v == [At("reconcile") EXCEPT !.seq = Highest(Committed)]
  <2>1. Highest(Committed) \in Committed /\ Highest(Committed) \in Nat
    BY Zenon, <1>2, CommittedBounded, HighestExists
  <2>2. v \in WorkerRecord /\ v.pc = "reconcile" /\ v.seq = Highest(Committed)
    BY <2>1 DEF At, WorkerRecord, Steps
  <2>3. worker \in [Workers -> WorkerRecord] /\ worker' = [worker EXCEPT ![w] = v]
    BY <1>2, TypeParts DEF IInv
  <2> HIDE DEF v
  <2>4. Moves(w) /\ worker'[w] = v
    BY Zenon, <2>2, <2>3 DEF Moves
  <2>5. UNCHANGED <<database, origin>> /\ Committed' = Committed
    BY DEF ReconcileRead, Committed, database
  <2>6. WorkerInv(w)'
    BY <2>1, <2>2, <2>4, <2>5 DEF WorkerInv, Attempting, Projected
  <2> QED BY <2>4, <2>5, <2>6, WorkerOnly
<1> QED BY <1>1, <1>2 DEF ReconcileRead

(* A step from one reading of an attempt to the next. *)
LEMMA ReadingStep ==
    ASSUME IInv, UNCHANGED <<database, origin>>, NEW w \in Workers, Moves(w),
           worker[w].pc \in Attempting, worker'[w].pc \in Attempting \ {"switch", "commit"},
           worker'[w].event = worker[w].event, worker'[w].attempt = worker[w].attempt,
           worker'[w].seq = worker[w].seq,
           worker'[w].pc = "defer" => worker[w].attempt < MaxAttempts,
           worker'[w].pc = "supersede" => Outdated(worker[w].event),
           worker'[w].pc \in Projected =>
               Target(worker[w].event) \in worker'[w].apps \cup {NoRelease}
    PROVE  IInv'
<1>1. Grows /\ job' \in [EventIds -> JobRecord]
  BY Zenon, NothingGrows
<1>2. /\ worker'[w].event \in EventIds
      /\ worker'[w].attempt \in 1 .. Job(w)'.attempts
      /\ worker'[w].seq = Job(w)'.seq
      /\ Target(worker[w].event)' = Target(worker[w].event)
      /\ Outdated(worker[w].event) => Outdated(worker[w].event)'
  BY Zenon, <1>1, ClaimKeeps
<1>3. WorkerInv(w)'
  BY Zenon, <1>2 DEF WorkerInv, Attempting
<1> QED BY <1>3, WorkerOnly

LEMMA WorkerTypes ==
    ASSUME IInv, NEW w \in Workers
    PROVE  /\ worker[w] \in WorkerRecord
           /\ worker[w].attempt \in Nat /\ worker[w].seq \in Nat /\ worker[w].tree \in Nat
           /\ worker[w].editorial \in Nat /\ worker[w].apps \subseteq Releases
           /\ WorkerInv(w)
BY TypeParts DEF IInv, WorkersInv, WorkerRecord

(* The job of an attempt was emitted and claimed. *)
LEMMA ClaimOf ==
    ASSUME IInv, NEW w \in Workers, worker[w].pc \in Attempting
    PROVE  worker[w].event \in EventIds /\ job[worker[w].event].state \notin {"unused", "outbox"}
<1>1. worker[w].event \in EventIds /\ worker[w].attempt \in 1 .. job[worker[w].event].attempts
  BY DEF IInv, WorkersInv, WorkerInv, Job
<1>2. job[worker[w].event].attempts # 0
  BY <1>1
<1> QED BY <1>1, <1>2 DEF IInv, JobsInv, Unused, Attempted

(* An event that is not current any more is outdated for good. *)
LEMMA OutdatedOrCurrent ==
    ASSUME IInv, NEW e \in EventIds, job[e].state # "unused"
    PROVE  Outdated(e) <=> ~Current(e)
<1>1. Emitted(e)
  BY DEF IInv, JobsInv
<1>2. job[e].version \in Nat /\ release[job[e].release].version \in Nat
  BY <1>1, TypeParts, JobFields DEF IInv, Emitted, ReleaseRecord
<1> QED BY <1>1, <1>2 DEF Emitted, Outdated, Current

LEMMA RefuseSteps ==
    ASSUME IInv, NEW w \in Workers, NEW permanent \in BOOLEAN, Refuse(w, permanent)
    PROVE  /\ Moves(w) /\ worker'[w].pc \in {"fail", "defer"}
           /\ worker'[w].event = worker[w].event /\ worker'[w].attempt = worker[w].attempt
           /\ worker'[w].seq = worker[w].seq
           /\ worker'[w].pc = "defer" => worker[w].attempt < MaxAttempts
<1> DEFINE pc == IF permanent \/ worker[w].attempt >= MaxAttempts THEN "fail" ELSE "defer"
<1>1. pc \in {"fail", "defer"} /\ (pc = "defer" => worker[w].attempt < MaxAttempts)
  BY WorkerTypes, PublisherAssumption
<1>2. Step(w, pc)
  BY DEF Refuse
<1> HIDE DEF pc
<1>3. pc \in Steps
  BY <1>1 DEF Steps
<1> QED BY <1>1, <1>2, <1>3, StepMoves DEF IInv

LEMMA LoadReleaseSourceKeeps ==
    ASSUME IInv, NEW w \in Workers, LoadReleaseSource(w)
    PROVE  IInv'
<1>1. worker[w].pc = "source" /\ UNCHANGED <<database, origin>>
  BY DEF LoadReleaseSource
<1>2. ASSUME NEW pc \in {"supersede", "project"}, Step(w, pc),
             pc = "supersede" => ~Current(worker[w].event)
      PROVE  IInv'
  <2>2. pc = "supersede" => Outdated(worker[w].event)
    <3>1. worker[w].event \in EventIds /\ job[worker[w].event].state # "unused"
      BY Zenon, <1>1, ClaimOf DEF Attempting
    <3> QED BY Zenon, <1>2, <3>1, OutdatedOrCurrent
  <2>1. /\ Moves(w) /\ worker'[w].pc = pc
        /\ worker'[w].event = worker[w].event /\ worker'[w].attempt = worker[w].attempt
        /\ worker'[w].seq = worker[w].seq
    BY Zenon, <1>2, StepMoves DEF IInv, Steps
  <2> QED BY Zenon, <1>1, <2>1, <2>2, ReadingStep DEF Attempting, Projected
<1>3. ASSUME NEW permanent \in BOOLEAN, Refuse(w, permanent) PROVE IInv'
  <2>1. /\ Moves(w) /\ worker'[w].pc \in {"fail", "defer"}
        /\ worker'[w].event = worker[w].event /\ worker'[w].attempt = worker[w].attempt
        /\ worker'[w].seq = worker[w].seq
        /\ worker'[w].pc = "defer" => worker[w].attempt < MaxAttempts
    BY <1>3, RefuseSteps
  <2> QED BY Zenon, <1>1, <2>1, ReadingStep DEF Attempting, Projected
<1> QED BY <1>2, <1>3 DEF LoadReleaseSource

LEMMA ProjectionOf ==
    ASSUME NEW target \in Releases \cup {NoRelease}
    PROVE  Projection(target) \subseteq Releases /\ target \in Projection(target) \cup {NoRelease}
BY DEF Projection

LEMMA PreparePublicationKeeps ==
    ASSUME IInv, NEW w \in Workers, PreparePublication(w)
    PROVE  IInv'
<1> DEFINE P == Projection(Target(worker[w].event))
<1>1. /\ worker[w].pc = "project" /\ UNCHANGED <<database, origin>>
      /\ worker' = [worker EXCEPT ![w].pc = "editorial", ![w].apps = P]
  BY DEF PreparePublication
<1>2. Target(worker[w].event) \in Releases \cup {NoRelease}
  <2>1. worker[w].event \in EventIds /\ job \in [EventIds -> JobRecord]
    BY <1>1, TypeParts DEF IInv, WorkersInv, WorkerInv, Attempting
  <2> QED BY <2>1, JobFields DEF Target
<1>3. P \subseteq Releases /\ Target(worker[w].event) \in P \cup {NoRelease}
  BY <1>2, ProjectionOf
<1> HIDE DEF P
<1>4. /\ Moves(w) /\ worker'[w].pc = "editorial" /\ worker'[w].apps = P
      /\ worker'[w].event = worker[w].event /\ worker'[w].attempt = worker[w].attempt
      /\ worker'[w].seq = worker[w].seq
  BY Zenon, <1>1, <1>3, TypeParts DEF IInv, Moves, WorkerRecord, Steps
<1> QED BY Zenon, <1>1, <1>3, <1>4, ReadingStep DEF Attempting

(* The readings between the projection and the generation. *)
Reading(w) ==
    /\ UNCHANGED <<database, origin>> /\ Moves(w)
    /\ worker[w].pc \in Projected /\ worker'[w].pc \in Projected \ {"commit"}
    /\ worker'[w].apps = worker[w].apps /\ worker'[w].event = worker[w].event
    /\ worker'[w].attempt = worker[w].attempt /\ worker'[w].seq = worker[w].seq

LEMMA LoadEditorialReads ==
    ASSUME IInv, NEW w \in Workers, LoadEditorial(w)
    PROVE  Reading(w)
<1> DEFINE v == IF Job(w).editorial # 0 THEN Job(w).editorial ELSE Len(layouts)
<1>1. /\ worker[w].pc = "editorial" /\ UNCHANGED <<database, origin>>
      /\ worker' = [worker EXCEPT ![w].pc = "bindings", ![w].editorial = v]
  BY DEF LoadEditorial
<1>2. v \in Nat
  <2>1. worker[w].event \in EventIds
    BY <1>1 DEF IInv, WorkersInv, WorkerInv, Attempting
  <2>2. job \in [EventIds -> JobRecord] /\ layouts \in Seq(Releases)
    BY TypeParts DEF IInv
  <2> QED BY <2>1, <2>2 DEF Job, JobRecord
<1> HIDE DEF v
<1>3. /\ Moves(w) /\ worker'[w].pc = "bindings" /\ worker'[w].apps = worker[w].apps
      /\ worker'[w].event = worker[w].event /\ worker'[w].attempt = worker[w].attempt
      /\ worker'[w].seq = worker[w].seq
  BY Zenon, <1>1, <1>2, TypeParts DEF IInv, Moves, WorkerRecord, Steps
<1> QED BY <1>1, <1>3 DEF Reading, Projected

LEMMA CheckBindingsReads ==
    ASSUME IInv, NEW w \in Workers, CheckBindings(w)
    PROVE  Reading(w)
<1>1. PICK v \in {0, worker[w].editorial} :
         /\ worker[w].pc = "bindings" /\ UNCHANGED <<database, origin>>
         /\ worker' = [worker EXCEPT ![w].pc = "transparency", ![w].editorial = v]
  <2> DEFINE Shown(x) == /\ Published(layouts[x])
                         /\ \E r \in worker[w].apps : AppOf[r] = AppOf[layouts[x]]
             x == worker[w].editorial
             v == IF x # 0 /\ Shown(x) THEN x ELSE 0
  <2>1. [worker EXCEPT ![w].pc = "transparency"][w].editorial = x
    BY TypeParts DEF IInv, WorkerRecord
  <2>2. worker' = [worker EXCEPT ![w].pc = "transparency", ![w].editorial = v]
    BY Zenon, <2>1 DEF CheckBindings
  <2>3. v \in {0, x}
    OBVIOUS
  <2> QED BY Zenon, <2>2, <2>3 DEF CheckBindings
<1>2. v \in Nat
  BY WorkerTypes
<1>3. /\ Moves(w) /\ worker'[w].pc = "transparency" /\ worker'[w].apps = worker[w].apps
      /\ worker'[w].event = worker[w].event /\ worker'[w].attempt = worker[w].attempt
      /\ worker'[w].seq = worker[w].seq
  BY Zenon, <1>1, <1>2, TypeParts DEF IInv, Moves, WorkerRecord, Steps
<1> QED BY Zenon, <1>1, <1>3 DEF Reading, Projected

LEMMA PrepareTransparencyReads ==
    ASSUME IInv, NEW w \in Workers, PrepareTransparency(w)
    PROVE  Reading(w)
<1>1. /\ worker[w].pc = "transparency" /\ UNCHANGED <<database, origin>>
      /\ worker' = [worker EXCEPT ![w].pc = "write", ![w].tree = Len(log)]
  BY DEF PrepareTransparency
<1>2. Len(log) \in Nat
  BY TypeParts DEF IInv, TypedLog
<1>3. /\ Moves(w) /\ worker'[w].pc = "write" /\ worker'[w].apps = worker[w].apps
      /\ worker'[w].event = worker[w].event /\ worker'[w].attempt = worker[w].attempt
      /\ worker'[w].seq = worker[w].seq
  BY Zenon, <1>1, <1>2, TypeParts DEF IInv, Moves, WorkerRecord, Steps
<1> QED BY <1>1, <1>3 DEF Reading, Projected

LEMMA EditorialReads ==
    ASSUME IInv, NEW w \in Workers, LoadEditorial(w) \/ CheckBindings(w) \/ PrepareTransparency(w)
    PROVE  Reading(w) /\ IInv'
<1>1. Reading(w)
  BY LoadEditorialReads, CheckBindingsReads, PrepareTransparencyReads
<1>2. Target(worker[w].event) \in worker[w].apps \cup {NoRelease}
  BY Zenon, <1>1 DEF IInv, WorkersInv, WorkerInv, Reading
<1> QED BY Zenon, <1>1, <1>2, ReadingStep DEF Attempting, Projected, Reading

-----------------------------------------------------------------------------
(* The origin.                                                             *)

LEMMA SwitchKeeps ==
    ASSUME IInv, NEW w \in Workers, ReconcileSwitch(w) \/ SwitchCommitted(w)
    PROVE  IInv'
<1>1. /\ worker[w].pc \in {"reconcile", "switch"}
      /\ UNCHANGED <<database, generations>>
      /\ current' \in {current, worker[w].seq}
  BY DEF ReconcileSwitch, SwitchCommitted, SwitchCurrent
<1>2. PICK pc \in {"enqueue", "start", "down"} : Goto(w, pc)
  BY DEF ReconcileSwitch, SwitchCommitted
<1>3. /\ Grows /\ job' \in [EventIds -> JobRecord] /\ last_sequence' \in Nat
      /\ release' \in [Releases -> ReleaseRecord] /\ layouts' \in Seq(Releases)
      /\ TypedOrders' /\ OrdersInv' /\ JobsInv' /\ OnePublication' /\ UnpublishedIsNew'
      /\ PublishedWasCommitted' /\ SequencesNotReused' /\ PublishingIsPending'
  BY <1>1, DatabaseStays
<1>4. UNCHANGED <<snapshots, log, generations>>
  BY <1>1 DEF database
<1>5. ServesCommitted'
  <2>1. worker[w].seq \in Committed
    BY <1>1 DEF IInv, WorkersInv, WorkerInv
  <2>2. Committed' = Committed
    BY <1>4 DEF Committed
  <2> QED BY <1>1, <2>1, <2>2 DEF ServesCommitted, IInv
<1>6. Moves(w) /\ WorkerInv(w)' /\ worker' \in [Workers -> WorkerRecord]
  <2>1. Moves(w) /\ worker'[w].pc = pc
    BY <1>2, GotoMoves DEF IInv, Steps
  <2> QED BY <2>1, IdleWorker DEF Moves
<1>7. WorkersInv' /\ SnapshotsInv'
  BY <1>3, <1>4, <1>6, WorkersKeep, SnapshotsKeep DEF IInv
<1>8. TypedLog' /\ current' \in Nat
  BY <1>1, <1>4, TypeParts, WorkerTypes DEF TypedLog, IInv
<1> QED BY Zenon, <1>3, <1>5, <1>6, <1>7, <1>8, IInvParts

LEMMA PreparedTyped ==
    ASSUME IInv, NEW w \in Workers, worker[w].pc \in Attempting
    PROVE  Prepared(w) \in Contents /\ Prepared(w).seq = worker[w].seq
<1>1. worker[w].event \in EventIds /\ job \in [EventIds -> JobRecord]
  BY Zenon, TypeParts DEF IInv, WorkersInv, WorkerInv
<1>2. Target(worker[w].event) \in Releases \cup {NoRelease}
  BY <1>1, JobFields DEF Target
<1> QED BY Zenon, <1>2, WorkerTypes DEF Prepared, Contents

LEMMA WriteGenerationKeeps ==
    ASSUME IInv, NEW w \in Workers, WriteGeneration(w)
    PROVE  IInv'
<1> DEFINE g == Prepared(w)
<1>1. worker[w].pc = "write" /\ UNCHANGED <<database, current>>
  BY DEF WriteGeneration
<1>2. CASE Refuse(w, FALSE) /\ UNCHANGED generations
  <2>1. /\ Moves(w) /\ worker'[w].pc \in {"fail", "defer"}
        /\ worker'[w].event = worker[w].event /\ worker'[w].attempt = worker[w].attempt
        /\ worker'[w].seq = worker[w].seq
        /\ worker'[w].pc = "defer" => worker[w].attempt < MaxAttempts
    BY Zenon, <1>2, RefuseSteps
  <2>2. UNCHANGED <<database, origin>>
    BY <1>1, <1>2 DEF origin
  <2> QED BY <1>1, <2>1, <2>2, ReadingStep DEF Attempting, Projected
<1>3. CASE /\ \A h \in generations : h.seq = worker[w].seq => h = g
           /\ generations' = generations \cup {g} /\ Step(w, "commit")
  <2>1. g \in Contents /\ g.seq = worker[w].seq
    BY Zenon, <1>1, PreparedTyped DEF Attempting
  <2>2. /\ Grows /\ job' \in [EventIds -> JobRecord] /\ last_sequence' \in Nat
        /\ release' \in [Releases -> ReleaseRecord] /\ layouts' \in Seq(Releases)
        /\ TypedOrders' /\ OrdersInv' /\ JobsInv' /\ OnePublication' /\ UnpublishedIsNew'
        /\ PublishedWasCommitted' /\ SequencesNotReused' /\ PublishingIsPending'
    BY Zenon, <1>1, <1>3, DatabaseStays
  <2>3. UNCHANGED <<snapshots, log, job>>
    BY <1>1 DEF database
  <2>4. /\ Moves(w) /\ worker'[w].pc = "commit"
        /\ worker'[w].event = worker[w].event /\ worker'[w].attempt = worker[w].attempt
        /\ worker'[w].seq = worker[w].seq /\ worker'[w].apps = worker[w].apps
        /\ worker'[w].editorial = worker[w].editorial /\ worker'[w].tree = worker[w].tree
    BY Zenon, <1>3, StepMoves DEF IInv, Steps
  <2>5. WorkerInv(w)'
    <3>1. /\ worker'[w].event \in EventIds
          /\ worker'[w].attempt \in 1 .. Job(w)'.attempts
          /\ worker'[w].seq = Job(w)'.seq
          /\ Target(worker[w].event)' = Target(worker[w].event)
      BY Zenon, <1>1, <2>2, <2>4, ClaimKeeps DEF IInv, WorkersInv, Attempting
    <3>2. Prepared(w)' = g
      BY Zenon, <2>4, <3>1 DEF Prepared
    <3>3. Target(worker[w].event) \in worker[w].apps \cup {NoRelease}
      BY Zenon, <1>1 DEF IInv, WorkersInv, WorkerInv, Projected
    <3> HIDE DEF g
    <3> QED BY Zenon, <1>3, <2>4, <3>1, <3>2, <3>3 DEF WorkerInv
  <2> HIDE DEF g
  <2>6. SnapshotsInv'
    <3>1. \A h, k \in generations' : h.seq = k.seq => h = k
      BY Zenon, <1>3, <2>1 DEF IInv, SnapshotsInv
    <3>2. LogVerifies' /\ Committed' = Committed
      BY Zenon, <2>3 DEF IInv, SnapshotsInv, LogVerifies, Committed
    <3>3. {log'[i] : i \in DOMAIN log'} = {log[i] : i \in DOMAIN log}
      BY <2>3
    <3>4. Committed' = {log'[i] : i \in DOMAIN log'}
      BY Zenon, <3>2, <3>3 DEF IInv, SnapshotsInv
    <3> QED BY Zenon, <1>3, <2>3, <3>1, <3>2, <3>4 DEF IInv, SnapshotsInv
  <2>7. WorkersInv' /\ worker' \in [Workers -> WorkerRecord]
    BY Zenon, <2>2, <2>4, <2>5, WorkersKeep DEF IInv, Moves
  <2>8. TypedLog' /\ current' \in Nat
    BY Zenon, <1>1, <1>3, <2>1, <2>3, TypeParts DEF TypedLog, IInv
  <2>9. ServesCommitted'
    BY <1>1, <2>3 DEF IInv, ServesCommitted, Committed
  <2> QED BY Zenon, <2>2, <2>6, <2>7, <2>8, <2>9, IInvParts
<1> QED BY Zenon, <1>2, <1>3 DEF WriteGeneration

-----------------------------------------------------------------------------
(* Jobs that wait, run and end.                                            *)

(* A step that changes only jobs and their order, and its worker. *)
LEMMA JobStep ==
    ASSUME IInv, UNCHANGED <<release, layouts, snapshots, log, generations, current>>,
           last_sequence' \in Nat,
           job' \in [EventIds -> JobRecord], Grows, TypedOrders', OrdersInv', JobsInv',
           OnePublication', SequencesNotReused', PublishingIsPending',
           worker' \in [Workers -> WorkerRecord], WorkersInv'
    PROVE  IInv'
<1>1. SnapshotsInv' /\ TypedLog' /\ current' \in Nat /\ ServesCommitted'
  BY Zenon, SnapshotsKeep, RecordStays DEF IInv
<1>2. UnpublishedIsNew' /\ PublishedWasCommitted'
  BY Zenon, ReleasesKeep DEF IInv, PublicationRecorded, PublishedWasCommitted
<1>3. release' \in [Releases -> ReleaseRecord] /\ layouts' \in Seq(Releases)
  BY TypeParts DEF IInv
<1> QED BY Zenon, <1>1, <1>2, <1>3, IInvParts

(* The same, where one unfinished job changes its state. *)
LEMMA JobMoves ==
    ASSUME IInv, UNCHANGED <<release, layouts, last_sequence, snapshots, log, generations, current>>,
           NEW e \in EventIds, NEW state \in JobStates \ {"unused", "outbox"}, Becomes(e, state),
           job[e].state \in Unfinished,
           state = "queued" => job[e].attempts < MaxAttempts,
           state = "running" => job[e].state = "running",
           state \in Unfinished \/ ~Current(e) \/ job[e].source # "publishing",
           TypedOrders', OrdersInv',
           NEW w \in Workers, Moves(w), WorkerInv(w)'
    PROVE  IInv'
<1>1. release' \in [Releases -> ReleaseRecord] /\ VersionsGrow
  BY TypeParts DEF IInv, VersionsGrow, ReleaseRecord
<1>2. JobsInv' /\ OnePublication' /\ SequencesNotReused' /\ Grows
  BY Zenon, <1>1, BecomesKeeps DEF IInv, PublicationRecorded
<1>3. PublishingIsPending'
  BY Zenon, PendingStays DEF IInv, PublicationRecorded
<1>4. job' \in [EventIds -> JobRecord]
  BY Zenon DEF Becomes
<1>5. WorkersInv' /\ worker' \in [Workers -> WorkerRecord]
  BY Zenon, <1>2, <1>4, WorkersKeep DEF IInv, Moves
<1>6. last_sequence' \in Nat
  BY TypeParts DEF IInv
<1> QED BY <1>2, <1>3, <1>4, <1>5, <1>6, JobStep

LEMMA EnqueueOneKeeps ==
    ASSUME IInv, NEW w \in Workers, EnqueueOne(w)
    PROVE  IInv'
<1>1. /\ worker[w].pc = "enqueue" /\ Goto(w, "recover")
      /\ UNCHANGED <<release, layouts, last_sequence, snapshots, log, generations, current>>
  BY Zenon DEF EnqueueOne, origin
<1>2. CASE UNCHANGED <<job, orders>>
  <2>1. UNCHANGED <<database, origin>>
    BY <1>1, <1>2 DEF database, origin, orders
  <2> QED BY Zenon, <1>1, <2>1, IdleSteps
<1>3. CASE /\ outbox # << >> /\ job' = [job EXCEPT ![Head(outbox)].state = "queued"]
           /\ outbox' = Tail(outbox) /\ Stamped(queue, Head(outbox), queue')
  <2> DEFINE e == Head(outbox)
             O == {f \in EventIds : job[f].state = "outbox"}
             Q == {f \in EventIds : job[f].state \in {"queued", "running"}}
  <2>1. /\ outbox \in Seq(EventIds) /\ queue \in Seq(EventIds) /\ second \subseteq EventIds
        /\ Lists(outbox, O) /\ Lists(queue, Q)
    BY TypeParts DEF IInv, TypedOrders, OrdersInv
  <2>2. e \in O /\ Tail(outbox) \in Seq(EventIds) /\ Lists(Tail(outbox), O \ {e})
    BY Zenon, <1>3, <2>1, TailLists, Zenon
  <2>3. /\ e \in EventIds /\ job[e].state = "outbox" /\ e \notin Q
    BY <2>2
  <2>4. Becomes(e, "queued")
    BY Zenon, <1>3, <2>3, StateChanges DEF IInv, JobStates
  <2>5. /\ {f \in EventIds : job'[f].state = "outbox"} = O \ {e}
        /\ {f \in EventIds : job'[f].state \in {"queued", "running"}} = Q \cup {e}
    BY <2>3, <2>4 DEF Becomes
  <2> HIDE DEF O, Q, e
  <2>6. queue' \in Seq(EventIds) /\ Lists(queue', Q \cup {e}) /\ second' \subseteq EventIds
    BY Zenon, <1>3, <2>1, <2>3, StampedLists DEF e
  <2>7. TypedOrders' /\ OrdersInv'
    BY Zenon, <1>3, <2>2, <2>5, <2>6 DEF TypedOrders, OrdersInv
  <2>8. Moves(w) /\ WorkerInv(w)'
    BY <1>1, GotoMoves, IdleWorker DEF IInv, Steps
  <2>9. job[e].attempts < MaxAttempts
    BY <2>3, PublisherAssumption DEF IInv, JobsInv, Attempted
  <2> QED BY <1>1, <2>3, <2>4, <2>7, <2>8, <2>9, JobMoves DEF Unfinished, JobStates
<1> QED BY <1>2, <1>3 DEF EnqueueOne

LEMMA LeaseExpiresKeeps ==
    ASSUME IInv, NEW e \in EventIds, LeaseExpires(e)
    PROVE  IInv'
<1>1. /\ job[e].state = "running" /\ job' = [job EXCEPT ![e].expired = TRUE] /\ second' = {}
      /\ UNCHANGED <<release, layouts, last_sequence, snapshots, log, outbox, queue,
                     generations, current, worker>>
  BY DEF LeaseExpires, origin
<1>2. Becomes(e, "running")
  BY Zenon, <1>1, TypeParts DEF IInv, Becomes, SameJob, JobRecord
<1>3. release' \in [Releases -> ReleaseRecord] /\ VersionsGrow
  BY <1>1, TypeParts DEF IInv, VersionsGrow, ReleaseRecord
<1>4. JobsInv' /\ OnePublication' /\ SequencesNotReused' /\ Grows
  BY <1>1, <1>2, <1>3, BecomesKeeps DEF IInv, PublicationRecorded, JobStates, Unfinished
<1>5. PublishingIsPending'
  BY <1>1, <1>2, PendingStays DEF IInv, PublicationRecorded, Unfinished
<1>6. job' \in [EventIds -> JobRecord]
  BY <1>2 DEF Becomes
<1>7. OrdersInv' /\ TypedOrders'
  <2>1. \A f \in EventIds : job'[f].state = job[f].state
    BY <1>1, <1>2 DEF Becomes
  <2> QED BY <1>1, <2>1, OrdersStay, TypeParts DEF IInv, TypedOrders
<1>8. WorkersInv' /\ worker' \in [Workers -> WorkerRecord]
  <2>1. ASSUME NEW v \in Workers PROVE WorkerInv(v)'
    <3>1. worker'[v] = worker[v]
      BY <1>1
    <3> QED BY Zenon, <1>4, <1>6, <3>1, WorkerKeeps
  <2> QED BY <1>1, <2>1, TypeParts DEF WorkersInv, IInv
<1>9. last_sequence' \in Nat
  BY <1>1, TypeParts DEF IInv
<1> QED BY <1>1, <1>4, <1>5, <1>6, <1>7, <1>8, <1>9, JobStep

(* The job of a worker that holds its lease is running. *)
LEMMA HeldRuns ==
    ASSUME IInv, NEW w \in Workers, worker[w].pc \in Attempting, LeaseHeld(w)
    PROVE  /\ worker[w].event \in EventIds /\ job[worker[w].event].state = "running"
           /\ job[worker[w].event].attempts = worker[w].attempt
           /\ job[worker[w].event].seq = worker[w].seq /\ worker[w].seq # 0
<1>1. /\ worker[w].event \in EventIds /\ job[worker[w].event].state = "running"
      /\ job[worker[w].event].attempts = worker[w].attempt
      /\ job[worker[w].event].seq = worker[w].seq
  BY Zenon DEF LeaseHeld, Job, IInv, WorkersInv, WorkerInv
<1> QED BY Zenon, <1>1 DEF IInv, JobsInv, Attempted

(* A job that ends leaves the queue. *)
LEMMA FinishLeaves ==
    ASSUME IInv, NEW e \in EventIds, job[e].state = "running",
           NEW state \in {"completed", "failed", "superseded"}, Finish(e, state)
    PROVE  Becomes(e, state) /\ TypedOrders' /\ OrdersInv'
<1> DEFINE O == {f \in EventIds : job[f].state = "outbox"}
           Q == {f \in EventIds : job[f].state \in {"queued", "running"}}
<1>1. /\ outbox \in Seq(EventIds) /\ queue \in Seq(EventIds) /\ second \subseteq EventIds
      /\ Lists(outbox, O) /\ Lists(queue, Q)
  BY TypeParts DEF IInv, TypedOrders, OrdersInv
<1>2. Becomes(e, state)
  BY Zenon, StateChanges DEF IInv, JobStates, Finish
<1>3. /\ {f \in EventIds : job'[f].state = "outbox"} = O /\ e \in Q
      /\ {f \in EventIds : job'[f].state \in {"queued", "running"}} = Q \ {e}
  BY <1>2 DEF Becomes
<1> HIDE DEF O, Q
<1>4. Without(queue, e) \in Seq(EventIds) /\ Lists(Without(queue, e), Q \ {e})
  BY <1>1, <1>3, WithoutLists
<1>5. queue' = Without(queue, e) /\ second' = second \ {e} /\ outbox' = outbox
  BY DEF Finish
<1>6. TypedOrders' /\ OrdersInv'
  BY Zenon, <1>1, <1>3, <1>4, <1>5 DEF TypedOrders, OrdersInv
<1> QED BY <1>2, <1>6

(* At most one job runs, so at most one lease is recovered. *)
LEMMA RecoverExpiredLeasesKeeps ==
    ASSUME IInv, NEW w \in Workers, RecoverExpiredLeases(w)
    PROVE  IInv'
<1> DEFINE Expired == {e \in EventIds : job[e].state = "running" /\ job[e].expired}
<1>1. /\ job' = [e \in EventIds |->
                   IF e \in Expired /\ job[e].attempts < MaxAttempts
                   THEN [job[e] EXCEPT !.state = "queued", !.expired = FALSE]
                   ELSE job[e]]
      /\ UNCHANGED <<release, layouts, last_sequence, snapshots, log, outbox, queue, second,
                     generations, current>>
  BY Zenon DEF RecoverExpiredLeases, origin, orders
<1>2. job \in [EventIds -> JobRecord] /\ TypedOrders
  BY TypeParts DEF IInv
<1>3. Moves(w) /\ (worker'[w].pc = "claim" \/ (/\ worker'[w].pc = "exhausted"
                                              /\ worker'[w].event \in Expired
                                              /\ job[worker'[w].event].attempts >= MaxAttempts
                                              /\ worker'[w].attempt = job[worker'[w].event].attempts
                                              /\ worker'[w].seq = job[worker'[w].event].seq))
  <2>1. CASE Goto(w, "claim")
    BY Zenon, <2>1, GotoMoves DEF IInv, Steps
  <2>2. ASSUME NEW e \in Expired, job[e].attempts >= MaxAttempts,
               worker' = [worker EXCEPT ![w] = [At("exhausted") EXCEPT
                        !.event = e, !.attempt = job[e].attempts, !.seq = job[e].seq]]
        PROVE  /\ Moves(w) /\ worker'[w].pc = "exhausted" /\ worker'[w].event = e
               /\ worker'[w].attempt = job[e].attempts /\ worker'[w].seq = job[e].seq
    <3> DEFINE v == [At("exhausted") EXCEPT
                        !.event = e, !.attempt = job[e].attempts, !.seq = job[e].seq]
    <3>1. job[e].attempts \in Nat /\ job[e].seq \in Nat /\ e \in EventIds
      BY <1>2, JobFields
    <3>2. /\ v \in WorkerRecord /\ v.pc = "exhausted" /\ v.event = e
          /\ v.attempt = job[e].attempts /\ v.seq = job[e].seq
      BY Zenon, <3>1 DEF At, WorkerRecord, Steps
    <3>3. worker \in [Workers -> WorkerRecord] /\ worker' = [worker EXCEPT ![w] = v]
      BY Zenon, <2>2, TypeParts DEF IInv
    <3> HIDE DEF v
    <3> QED BY <3>2, <3>3 DEF Moves
  <2> QED BY Zenon, <2>1, <2>2 DEF RecoverExpiredLeases
<1>4. CASE \A e \in Expired : job[e].attempts >= MaxAttempts
  <2>1. \A e \in EventIds : ~(e \in Expired /\ job[e].attempts < MaxAttempts)
    BY <1>2, <1>4, JobFields, PublisherAssumption
  <2>2. job' = [e \in EventIds |-> job[e]]
    BY Zenon, <1>1, <2>1
  <2>3. job' = job
    BY <1>2, <2>2
  <2>4. UNCHANGED <<database, origin>>
    BY Zenon, <1>1, <2>3 DEF database, origin, orders
  <2>5. WorkerInv(w)'
    <3>1. CASE worker'[w].pc = "claim"
      BY Zenon, <3>1, IdleWorker
    <3>2. CASE worker'[w].pc = "exhausted"
      <4>1. /\ worker'[w].event \in EventIds /\ job[worker'[w].event].state = "running"
            /\ worker'[w].attempt = job[worker'[w].event].attempts
            /\ worker'[w].seq = job[worker'[w].event].seq
        BY Zenon, <1>3, <3>2
      <4>2. job[worker'[w].event].attempts \in Nat /\ job[worker'[w].event].attempts # 0
        BY Zenon, <1>2, <4>1, JobFields DEF IInv, JobsInv, Attempted
      <4> QED BY <2>3, <3>2, <4>1, <4>2 DEF WorkerInv, Attempting, Projected, Job
    <3> QED BY <1>3, <3>1, <3>2
  <2> QED BY Zenon, <1>3, <2>4, <2>5, WorkerOnly
<1>5. ASSUME NEW e \in Expired, ~(job[e].attempts >= MaxAttempts)
      PROVE  IInv'
  <2>1. \A f \in EventIds : job[f].state = "running" => f = e
    BY DEF IInv, PublicationRecorded, SequencesNotReused
  <2>2. e \in EventIds /\ job[e].state = "running" /\ job[e].attempts < MaxAttempts
    BY <1>2, <1>5, JobFields, PublisherAssumption
  <2>3. worker'[w].pc = "claim"
    BY Zenon, <1>3, <1>5, <2>1
  <2>4. WorkerInv(w)'
    BY <2>3, IdleWorker
  <2>5. Becomes(e, "queued")
    <3> DEFINE u == [job[e] EXCEPT !.state = "queued", !.expired = FALSE]
    <3>1. u \in JobRecord /\ u.state = "queued" /\ SameJob(job[e], u)
      BY Zenon, <1>2, <2>2 DEF JobRecord, JobStates, SameJob
    <3>2. job'[e] = u /\ \A f \in EventIds \ {e} : job'[f] = job[f]
      BY Zenon, <1>1, <2>1, <2>2
    <3> HIDE DEF u
    <3>3. \A f \in EventIds : job'[f] \in JobRecord
      BY <1>2, <3>1, <3>2
    <3>4. job' \in [EventIds -> JobRecord]
      BY Zenon, <1>1, <3>3
    <3> QED BY <3>1, <3>2, <3>4 DEF Becomes
  <2>6. OrdersInv' /\ TypedOrders'
    <3>1. \A f \in EventIds :
               /\ job'[f].state = "outbox" <=> job[f].state = "outbox"
               /\ job'[f].state \in {"queued", "running"} <=> job[f].state \in {"queued", "running"}
      BY <2>2, <2>5 DEF Becomes
    <3> QED BY Zenon, <1>1, <1>2, <3>1, OrdersStay DEF IInv, TypedOrders
  <2> HIDE DEF Expired
  <2> QED BY Zenon, <1>1, <1>3, <2>2, <2>4, <2>5, <2>6, JobMoves DEF Unfinished, JobStates
<1> QED BY <1>4, <1>5

(* An attempt that ends without a Catalog. *)
LEMMA DeferJobKeeps ==
    ASSUME IInv, NEW w \in Workers, DeferJob(w)
    PROVE  IInv'
<1> DEFINE e == worker[w].event
<1>1. worker[w].pc = "defer" /\ UNCHANGED <<layouts, last_sequence, snapshots, log, generations, current>>
  BY DEF DeferJob, EndAttempt, origin
<1>2. CASE LeaseHeld(w) /\ job' = [job EXCEPT ![e].state = "queued", ![e].expired = FALSE]
           /\ UNCHANGED <<release, outbox, queue, second>> /\ Goto(w, "start")
  <2>1. /\ e \in EventIds /\ job[e].state = "running" /\ job[e].attempts < MaxAttempts
    BY <1>1, <1>2, HeldRuns DEF Attempting, IInv, WorkersInv, WorkerInv
  <2>2. Becomes(e, "queued")
    BY Zenon, <1>2, <2>1, StateChanges DEF IInv, JobStates
  <2>3. OrdersInv' /\ TypedOrders'
    <3>1. \A f \in EventIds :
               /\ job'[f].state = "outbox" <=> job[f].state = "outbox"
               /\ job'[f].state \in {"queued", "running"} <=> job[f].state \in {"queued", "running"}
      BY <2>1, <2>2 DEF Becomes
    <3> QED BY <1>2, <3>1, OrdersStay, TypeParts DEF IInv, TypedOrders
  <2>4. Moves(w) /\ WorkerInv(w)'
    BY <1>2, GotoMoves, IdleWorker DEF IInv, Steps
  <2> HIDE DEF e
  <2> QED BY <1>1, <1>2, <2>1, <2>2, <2>3, <2>4, JobMoves DEF Unfinished, JobStates
<1>3. CASE UNCHANGED <<release, job, orders>> /\ Goto(w, "down")
  <2>1. UNCHANGED <<database, origin>>
    BY <1>1, <1>3 DEF database, origin, orders
  <2> QED BY <1>3, <2>1, IdleSteps
<1> QED BY <1>2, <1>3 DEF DeferJob, EndAttempt, orders

(* A job whose release has moved on ends without a trace. *)
LEMMA SupersedeKeeps ==
    ASSUME IInv, NEW w \in Workers, NEW e \in EventIds, job[e].state = "running", ~Current(e),
           Finish(e, "superseded"), Goto(w, "start"),
           UNCHANGED <<release, layouts, last_sequence, snapshots, log, generations, current>>
    PROVE  IInv'
<1>1. Becomes(e, "superseded") /\ TypedOrders' /\ OrdersInv'
  BY FinishLeaves
<1>2. Moves(w) /\ WorkerInv(w)'
  BY Zenon, GotoMoves, IdleWorker DEF IInv, Steps
<1> QED BY <1>1, <1>2, JobMoves DEF Unfinished, JobStates

LEMMA FinishSupersededKeeps ==
    ASSUME IInv, NEW w \in Workers, FinishSuperseded(w)
    PROVE  IInv'
<1> DEFINE e == worker[w].event
<1>1. worker[w].pc = "supersede" /\ UNCHANGED <<layouts, last_sequence, snapshots, log, generations, current>>
  BY DEF FinishSuperseded, EndAttempt, origin
<1>2. CASE LeaseHeld(w) /\ Finish(e, "superseded") /\ UNCHANGED release /\ Goto(w, "start")
  <2>1. e \in EventIds /\ job[e].state = "running"
    BY Zenon, <1>1, <1>2, HeldRuns DEF Attempting
  <2>2. ~Current(e)
    BY Zenon, <1>1, <2>1, OutdatedOrCurrent DEF IInv, WorkersInv, WorkerInv
  <2> HIDE DEF e
  <2> QED BY <1>1, <1>2, <2>1, <2>2, SupersedeKeeps
<1>3. CASE UNCHANGED <<release, job, orders>> /\ Goto(w, "down")
  <2>1. UNCHANGED <<database, origin>>
    BY <1>1, <1>3 DEF database, origin, orders
  <2> QED BY Zenon, <1>3, <2>1, IdleSteps
<1> QED BY Zenon, <1>2, <1>3 DEF FinishSuperseded, EndAttempt

LEMMA FinishFailedKeeps ==
    ASSUME IInv, NEW w \in Workers, FinishFailed(w)
    PROVE  IInv'
<1> DEFINE e == worker[w].event
           r == job[e].release
<1>1. /\ worker[w].pc \in {"fail", "exhausted"}
      /\ UNCHANGED <<layouts, last_sequence, snapshots, log, generations, current>>
  BY Zenon DEF FinishFailed, EndAttempt, origin
<1>2. CASE UNCHANGED <<release, job, orders>> /\ Goto(w, "down")
  <2>1. UNCHANGED <<database, origin>>
    BY <1>1, <1>2 DEF database, origin, orders
  <2> QED BY <1>2, <2>1, IdleSteps
<1>3. CASE /\ LeaseHeld(w) /\ Goto(w, "start")
           /\ Finish(e, IF Current(e) THEN "failed" ELSE "superseded")
           /\ release' = IF Current(e) /\ job[e].kind = "publish-release"
                         THEN [release EXCEPT ![r].state = "publish-failed", ![r].version = @ + 1]
                         ELSE release
  <2>1. e \in EventIds /\ job[e].state = "running"
    BY Zenon, <1>1, <1>3, HeldRuns DEF Attempting
  <2>2. Emitted(e)
    BY Zenon, <2>1 DEF IInv, JobsInv
  <2>3. Moves(w) /\ WorkerInv(w)'
    BY Zenon, <1>3, GotoMoves, IdleWorker DEF IInv, Steps
  <2> HIDE DEF e
  <2>4. CASE ~Current(e)
    BY <1>1, <1>3, <2>1, <2>4, SupersedeKeeps
  <2>5. CASE Current(e)
    <3>1. Becomes(e, "failed") /\ TypedOrders' /\ OrdersInv'
      BY <1>3, <2>1, <2>5, FinishLeaves
    <3>2. CASE job[e].kind # "publish-release"
      <4>1. job[e].source # "publishing" /\ UNCHANGED release
        BY <1>3, <2>2, <3>2 DEF Emitted
      <4> QED BY <1>1, <2>1, <2>3, <3>1, <4>1, JobMoves DEF Unfinished, JobStates
    <3>3. CASE job[e].kind = "publish-release"
      <4> DEFINE version == release[r].version + 1
      <4>1. r \in Releases /\ release[r].state = "publishing" /\ version \in Nat /\ version > release[r].version
        BY SMTT(30), <2>2, <2>5, <3>3, TypeParts DEF Emitted, Current, IInv, ReleaseRecord
      <4>2. Changes(r, "publish-failed", version)
        <5>1. release' = [release EXCEPT ![r].state = "publish-failed", ![r].version = version]
          BY <1>3, <2>5, <3>3, <4>1, TypeParts DEF IInv
        <5> HIDE DEF version
        <5> QED BY Zenon, <4>1, <5>1, ReleaseChanges DEF IInv, ReleaseStates
      <4>3. VersionsGrow /\ release' \in [Releases -> ReleaseRecord]
        BY <4>1, <4>2 DEF VersionsGrow, Changes
      <4> HIDE DEF version
      <4>4. JobsInv' /\ OnePublication' /\ SequencesNotReused' /\ Grows
        BY <1>1, <2>1, <3>1, <4>3, BecomesKeeps DEF IInv, PublicationRecorded, Unfinished, JobStates
      <4>5. PublishingIsPending'
        <5> SUFFICES ASSUME NEW q \in Releases, release'[q].state = "publishing"
                     PROVE  \E f \in EventIds : job'[f].state \in Unfinished /\ job'[f].release = q /\ Current(f)'
          BY DEF PublishingIsPending, Unfinished
        <5>1. q # r /\ release'[q] = release[q]
          BY <4>2 DEF Changes
        <5>2. PICK f \in EventIds : job[f].state \in Unfinished /\ job[f].release = q /\ Current(f)
          BY <5>1 DEF IInv, PublicationRecorded, PublishingIsPending, Unfinished
        <5>3. job'[f] = job[f]
          BY <3>1, <5>1, <5>2 DEF Becomes
        <5> QED BY <5>1, <5>2, <5>3 DEF Current
      <4>6. job' \in [EventIds -> JobRecord]
        BY <3>1 DEF Becomes
      <4>7. WorkersInv' /\ worker' \in [Workers -> WorkerRecord]
        BY <2>3, <4>4, <4>6, WorkersKeep DEF Moves
      <4>8. UnpublishedIsNew' /\ PublishedWasCommitted'
        <5>1. release[r].seq = 0
          BY Zenon, <4>1 DEF IInv, PublicationRecorded, PublishedWasCommitted
        <5>2. \A q \in Releases :
               /\ release'[q].seq = release[q].seq
               /\ release'[q].state \in {"published", "paused"} => release[q].seq # 0
               /\ release[q].seq # 0 => release'[q].state \in {"published", "paused", "removed"}
               /\ release'[q].state = "none" => release'[q] = release[q]
          BY Zenon, <4>2, <5>1 DEF Changes, IInv, PublicationRecorded, PublishedWasCommitted
        <5> QED BY <1>1, <5>2, ReleasesKeep DEF IInv, PublicationRecorded
      <4>9. SnapshotsInv' /\ TypedLog' /\ current' \in Nat /\ ServesCommitted'
        BY <1>1, <4>4, SnapshotsKeep, RecordStays DEF IInv
      <4>10. layouts' \in Seq(Releases) /\ last_sequence' \in Nat
        BY <1>1, TypeParts DEF IInv
      <4> QED BY Zenon, <3>1, <4>3, <4>4, <4>5, <4>6, <4>7, <4>8, <4>9, <4>10, IInvParts
    <3> QED BY <3>2, <3>3
  <2> QED BY Zenon, <2>4, <2>5
<1> QED BY Zenon, <1>2, <1>3 DEF FinishFailed, EndAttempt

(* The first claim of a job reserves the next sequence. *)
LEMMA ClaimOneKeeps ==
    ASSUME IInv, NEW w \in Workers, ClaimOne(w)
    PROVE  IInv'
<1> DEFINE e == Head(queue)
           seq == IF job[e].attempts = 0 THEN last_sequence + 1 ELSE job[e].seq
           n == job[e].attempts + 1
<1>1. UNCHANGED <<release, layouts, snapshots, log, outbox, queue, second, generations, current>>
  BY DEF ClaimOne, orders, origin
<1>2. CASE Goto(w, "start") /\ UNCHANGED <<job, last_sequence>>
  <2>1. UNCHANGED <<database, origin>>
    BY <1>1, <1>2 DEF database, origin, orders
  <2> QED BY <1>2, <2>1, IdleSteps
<1>3. CASE /\ queue # << >> /\ \A f \in EventIds : job[f].state # "running"
           /\ last_sequence' = IF job[e].attempts = 0 THEN seq ELSE last_sequence
           /\ job' = [job EXCEPT ![e].state = "running", ![e].seq = seq, ![e].attempts = @ + 1]
           /\ worker' = [worker EXCEPT ![w] = [At("source") EXCEPT
                             !.event = e, !.attempt = n, !.seq = seq]]
  <2> DEFINE Q == {f \in EventIds : job[f].state \in {"queued", "running"}}
  <2>1. e \in Q
    <3>1. queue \in Seq(EventIds) /\ Lists(queue, Q)
      BY TypeParts DEF IInv, TypedOrders, OrdersInv
    <3> HIDE DEF Q
    <3> QED BY Zenon, <1>3, <3>1, TailLists
  <2>2. e \in EventIds /\ job[e].state = "queued" /\ Emitted(e) /\ Attempted(e)
    BY <1>3, <2>1 DEF IInv, JobsInv
  <2>3. /\ job \in [EventIds -> JobRecord] /\ last_sequence \in Nat
        /\ worker \in [Workers -> WorkerRecord]
    BY TypeParts DEF IInv
  <2>4. /\ job[e].attempts \in Nat /\ job[e].seq \in Nat /\ n \in 1 .. MaxAttempts /\ seq \in Nat \ {0}
        /\ n \in Nat /\ n \in 0 .. MaxAttempts /\ job[e].attempts # 0 => seq = job[e].seq
    <3>1. job[e].attempts \in Nat /\ job[e].seq \in Nat
      BY <2>2, <2>3, JobFields
    <3>2. job[e].attempts < MaxAttempts /\ (job[e].attempts = 0 <=> job[e].seq = 0)
      BY <2>2 DEF Attempted
    <3> HIDE DEF e
    <3> QED BY <2>3, <3>1, <3>2, PublisherAssumption
  <2>5. last_sequence' \in Nat /\ last_sequence' >= last_sequence /\ seq <= last_sequence'
        /\ (job[e].attempts = 0 => seq > last_sequence)
    BY <1>3, <2>2, <2>3, <2>4 DEF Attempted
  <2> HIDE DEF seq, n, e
  <2> DEFINE u == [job[e] EXCEPT !.state = "running", !.seq = seq, !.attempts = n]
             v == [At("source") EXCEPT !.event = e, !.attempt = n, !.seq = seq]
  <2>6. /\ u \in JobRecord /\ u.state = "running" /\ u.seq = seq /\ u.attempts = n
        /\ u.kind = job[e].kind /\ u.release = job[e].release /\ u.version = job[e].version
        /\ u.source = job[e].source
    <3> DEFINE a == [job[e] EXCEPT !.state = "running"]
               b == [a EXCEPT !.seq = seq]
    <3>1. /\ a \in JobRecord /\ a.state = "running"
          /\ a.kind = job[e].kind /\ a.release = job[e].release /\ a.version = job[e].version
          /\ a.source = job[e].source
      BY <2>2, <2>3 DEF JobRecord, JobStates
    <3> HIDE DEF a
    <3>2. /\ b \in JobRecord /\ b.state = "running" /\ b.seq = seq
          /\ b.kind = job[e].kind /\ b.release = job[e].release /\ b.version = job[e].version
          /\ b.source = job[e].source
      BY <2>4, <3>1 DEF JobRecord
    <3> HIDE DEF b
    <3> DEFINE c == [b EXCEPT !.attempts = n]
    <3>3. /\ c \in JobRecord /\ c.state = "running" /\ c.seq = seq /\ c.attempts = n
          /\ c.kind = job[e].kind /\ c.release = job[e].release /\ c.version = job[e].version
          /\ c.source = job[e].source
      BY <2>4, <3>2 DEF JobRecord
    <3>4. u = c
      BY DEF a, b
    <3> QED BY <3>3, <3>4
  <2>7. /\ v \in WorkerRecord /\ v.pc = "source" /\ v.event = e /\ v.attempt = n /\ v.seq = seq
    <3>1. e \in EventIds /\ n \in Nat /\ seq \in Nat
      BY <2>2, <2>4
    <3> QED BY Zenon, <3>1 DEF At, WorkerRecord, Steps
  <2>8. /\ job' \in [EventIds -> JobRecord] /\ job'[e] = u
        /\ \A f \in EventIds \ {e} : job'[f] = job[f]
    <3>1. job' = [job EXCEPT ![e] = u]
      BY Zenon, <1>3, <2>2, <2>3 DEF n
    <3> HIDE DEF u
    <3> QED BY <2>2, <2>3, <2>6, <3>1
  <2>9. Moves(w) /\ worker'[w] = v
    <3> HIDE DEF v
    <3> QED BY <1>3, <2>3, <2>7 DEF Moves, v
  <2> HIDE DEF u, v, Q
  <2>10. Grows
    <3>1. VersionsGrow /\ release' \in [Releases -> ReleaseRecord]
      BY Zenon, <1>1, TypeParts DEF VersionsGrow, IInv
    <3>2. \A f \in EventIds :
            /\ job[f].attempts # 0 =>
                  /\ job'[f].attempts >= job[f].attempts /\ job'[f].seq = job[f].seq
                  /\ job'[f].kind = job[f].kind /\ job'[f].release = job[f].release
                  /\ job'[f].version = job[f].version
            /\ job[f].state = "completed" => job'[f] = job[f]
      <4> TAKE f \in EventIds
      <4>1. CASE f = e
        BY <2>2, <2>4, <2>6, <2>8, <4>1 DEF n
      <4>2. CASE f # e
        BY <2>3, <2>8, <4>2, JobFields
      <4> QED BY Zenon, <4>1, <4>2
    <3> QED BY <1>1, <3>1, <3>2 DEF Grows
  <2>11. JobsInv'
    <3> SUFFICES ASSUME NEW f \in EventIds
                 PROVE  /\ job'[f].state = "unused" => job'[f] = Unused
                        /\ job'[f].state # "unused" => Emitted(f)'
                        /\ Attempted(f)'
      BY Zenon DEF JobsInv
    <3>1. CASE f = e
      BY <1>1, <2>2, <2>4, <2>5, <2>6, <2>8, <3>1 DEF Emitted, Attempted
    <3>2. CASE f # e
      <4>1. job'[f] = job[f] /\ job[f].seq \in Nat
        BY Zenon, <2>3, <2>8, <3>2, JobFields
      <4>2. /\ job[f].state = "unused" => job[f] = Unused
            /\ job[f].state # "unused" => Emitted(f)
            /\ Attempted(f)
        BY Zenon DEF IInv, JobsInv
      <4>3. Attempted(f)'
        BY <2>3, <2>5, <4>1, <4>2 DEF Attempted
      <4> QED BY Zenon, <1>1, <4>1, <4>2, <4>3 DEF Emitted
    <3> QED BY <3>1, <3>2
  <2>12. OnePublication'
    <3>1. \A f \in EventIds : /\ job'[f].kind = job[f].kind /\ job'[f].release = job[f].release
                               /\ job'[f].version = job[f].version
      BY <2>6, <2>8
    <3> QED BY Zenon, <3>1 DEF IInv, OnePublication
  <2>13. SequencesNotReused'
    <3>1. \A f \in EventIds \ {e} : job[f].seq # seq
      <4> TAKE f \in EventIds \ {e}
      <4>1. job[f].seq \in Nat /\ job[f].seq <= last_sequence
        BY <2>3, JobFields DEF IInv, JobsInv, Attempted
      <4>2. job[e].attempts # 0 => job[f].seq # seq
        BY <2>2, <2>4 DEF IInv, PublicationRecorded, SequencesNotReused
      <4> QED BY <2>3, <2>4, <2>5, <4>1, <4>2
    <3>2. \A f \in EventIds \ {e} : job'[f].seq = job[f].seq /\ job'[f].state # "running"
      BY <1>3, <2>8
    <3>3. job'[e].seq = seq
      BY Zenon, <2>6, <2>8
    <3> QED BY <3>1, <3>2, <3>3 DEF IInv, PublicationRecorded, SequencesNotReused
  <2>14. PublishingIsPending'
    <3> SUFFICES ASSUME NEW r \in Releases, release[r].state = "publishing"
                 PROVE  \E f \in EventIds : job'[f].state \in Unfinished /\ job'[f].release = r /\ Current(f)'
      BY <1>1 DEF PublishingIsPending, Unfinished
    <3>1. PICK f \in EventIds : job[f].state \in Unfinished /\ job[f].release = r /\ Current(f)
      BY DEF IInv, PublicationRecorded, PublishingIsPending, Unfinished
    <3>2. job'[f].state \in Unfinished /\ job'[f].release = job[f].release
          /\ job'[f].version = job[f].version /\ job'[f].source = job[f].source
      BY Zenon, <2>6, <2>8, <3>1 DEF Unfinished
    <3> QED BY Zenon, <1>1, <3>1, <3>2 DEF Current
  <2>15. OrdersInv' /\ TypedOrders'
    <3>1. \A f \in EventIds :
               /\ job'[f].state = "outbox" <=> job[f].state = "outbox"
               /\ job'[f].state \in {"queued", "running"} <=> job[f].state \in {"queued", "running"}
      BY Zenon, <2>2, <2>6, <2>8
    <3> QED BY Zenon, <1>1, <3>1, OrdersStay, TypeParts DEF IInv, TypedOrders
  <2>16. WorkerInv(w)'
    BY SMTT(30), <2>2, <2>4, <2>6, <2>7, <2>8, <2>9 DEF WorkerInv, Job, Attempting, Projected
  <2>17. WorkersInv' /\ worker' \in [Workers -> WorkerRecord]
    BY Zenon, <2>8, <2>9, <2>10, <2>16, WorkersKeep DEF Moves
  <2> QED BY <1>1, <2>5, <2>8, <2>10, <2>11, <2>12, <2>13, <2>14, <2>15, <2>17, JobStep
<1> QED BY <1>2, <1>3 DEF ClaimOne

(* A Catalog is committed under a sequence that no Catalog has yet: the    *)
(* committed sequences are those of completed jobs.                        *)
LEMMA SequenceIsNew ==
    ASSUME IInv, NEW e \in EventIds, job[e].state # "completed", job[e].seq # 0
    PROVE  job[e].seq \notin Committed
<1> SUFFICES ASSUME NEW s \in snapshots, s.seq = job[e].seq PROVE FALSE
  BY DEF Committed
<1>1. PICK f \in EventIds : job[f].state = "completed" /\ job[f].seq = s.seq
  BY Zenon DEF IInv, SnapshotsInv
<1> QED BY <1>1 DEF IInv, PublicationRecorded, SequencesNotReused

(* The leaf and the snapshot are added together. *)
LEMMA CommitLogged ==
    ASSUME IInv, NEW w \in Workers, NEW e \in EventIds, Prepared(w) \in generations,
           Prepared(w).seq \notin Committed, worker[w].tree = Len(log), Grows,
           job'[e].state = "completed", job'[e].seq = Prepared(w).seq,
           snapshots' = snapshots \cup {Prepared(w)},
           log' = Append(log, worker[w].seq), UNCHANGED generations
    PROVE  SnapshotsInv' /\ TypedLog' /\ Committed' = Committed \cup {Prepared(w).seq}
<1> DEFINE g == Prepared(w)
<1>1. g.seq = worker[w].seq /\ g.tree = Len(log) /\ g.seq \in Nat /\ worker[w].seq \in Nat
  BY Zenon, WorkerTypes DEF Prepared
<1> HIDE DEF g
<1>2. log \in Seq(Nat) /\ snapshots \subseteq Contents /\ generations \subseteq Contents
  BY Zenon, TypeParts DEF IInv, TypedLog
<1>3. /\ log' \in Seq(Nat) /\ DOMAIN log' = DOMAIN log \cup {Len(log) + 1}
      /\ \A i \in DOMAIN log : log'[i] = log[i]
      /\ log'[Len(log) + 1] = g.seq /\ Len(log') = Len(log) + 1
  BY <1>1, <1>2
<1>4. TypedLog'
  BY <1>2, <1>3 DEF TypedLog, g
<1>5. Committed' = Committed \cup {g.seq}
  BY DEF Committed, g
<1>6. Committed' = {log'[i] : i \in DOMAIN log'}
  <2>1. {log'[i] : i \in DOMAIN log'} = {log[i] : i \in DOMAIN log} \cup {g.seq}
    BY <1>3
  <2> QED BY Zenon, <1>5, <2>1 DEF IInv, SnapshotsInv
<1>7. \E n \in Committed' : \A m \in Committed' : m <= n
  <2>1. Committed \in SUBSET Nat
    BY CommittedBounded
  <2>2. CASE snapshots = {}
    <3>1. Committed' = {g.seq}
      BY Zenon, <1>5, <2>2 DEF Committed
    <3> QED BY <1>1, <3>1
  <2>3. CASE snapshots # {}
    <3>1. PICK n \in Committed : \A m \in Committed : m <= n
      BY <2>3 DEF IInv, SnapshotsInv
    <3>2. CASE g.seq <= n
      BY <1>5, <3>1, <3>2
    <3>3. CASE ~(g.seq <= n)
      BY <1>1, <1>5, <2>1, <3>1, <3>3
    <3> QED BY <3>2, <3>3
  <2> QED BY <2>2, <2>3
<1>8. LogVerifies'
  <2>1. ASSUME NEW i \in DOMAIN log' PROVE \E s \in snapshots' : s.seq = log'[i] /\ s.tree = i - 1
    <3>1. CASE i \in DOMAIN log
      <4>1. PICK s \in snapshots : s.seq = log[i] /\ s.tree = i - 1
        BY <3>1 DEF IInv, SnapshotsInv, LogVerifies
      <4> QED BY <1>3, <3>1, <4>1
    <3>2. CASE i = Len(log) + 1
      <4>1. Len(log) = i - 1
        BY <1>2, <3>2
      <4> QED BY <1>1, <1>3, <3>2, <4>1 DEF g
    <3> QED BY <1>3, <3>1, <3>2
  <2>2. ASSUME NEW s \in snapshots' PROVE \E i \in DOMAIN log' : log'[i] = s.seq
    <3>1. s.seq \in Committed'
      BY DEF Committed
    <3> QED BY Zenon, <1>6, <3>1
  <2> QED BY Zenon, <2>1, <2>2 DEF LogVerifies
<1>9. snapshots' \subseteq generations' /\ \A a, b \in generations' : a.seq = b.seq => a = b
  BY Zenon DEF IInv, SnapshotsInv
<1>10. ASSUME NEW s \in snapshots'
       PROVE  \E f \in EventIds : job'[f].state = "completed" /\ job'[f].seq = s.seq
  BY DEF IInv, SnapshotsInv, Grows
<1> QED BY Zenon, <1>4, <1>5, <1>6, <1>7, <1>8, <1>9, <1>10 DEF SnapshotsInv, g

(* Where the new Catalog is the first of its package, or has none, what a  *)
(* release's own Catalog says does not change.                             *)
LEMMA CommitPublishes ==
    ASSUME IInv, NEW g \in Contents, g.seq \notin Committed, g.seq # 0,
           snapshots' = snapshots \cup {g}, Committed' = Committed \cup {g.seq},
           g.package # NoRelease =>
               /\ release[g.package].seq = 0 /\ g.package \in g.apps
               /\ release'[g.package].state = "published" /\ release'[g.package].seq = g.seq,
           \A q \in Releases : q # g.package => release'[q] = release[q]
    PROVE  UnpublishedIsNew' /\ PublishedWasCommitted'
<1>1. NoRelease \notin Releases
  BY PublisherAssumption
<1>2. \A s \in snapshots : s.seq # g.seq
  BY Zenon DEF Committed
<1>3. ASSUME NEW q \in Releases, q # g.package
      PROVE  /\ release'[q].seq = 0 => \A s \in snapshots' : s.package # q
             /\ release'[q].state = "none" => release'[q].version = 0
             /\ release'[q].state \in {"published", "paused"} => release'[q].seq # 0
             /\ release'[q].seq # 0 =>
                  /\ release'[q].state \in {"published", "paused", "removed"}
                  /\ {s \in snapshots' : s.package = q} =
                        {s \in snapshots' : s.seq = release'[q].seq /\ q \in s.apps}
                  /\ release'[q].seq \in Committed'
  <2>1. release'[q] = release[q]
    BY <1>3
  <2>2. /\ release[q].seq = 0 => \A s \in snapshots : s.package # q
        /\ release[q].state = "none" => release[q].version = 0
        /\ release[q].state \in {"published", "paused"} => release[q].seq # 0
        /\ release[q].seq # 0 =>
             /\ release[q].state \in {"published", "paused", "removed"}
             /\ {s \in snapshots : s.package = q} =
                   {s \in snapshots : s.seq = release[q].seq /\ q \in s.apps}
             /\ release[q].seq \in Committed
    BY DEF IInv, UnpublishedIsNew, PublicationRecorded, PublishedWasCommitted
  <2>3. {s \in snapshots' : s.package = q} = {s \in snapshots : s.package = q}
    BY <1>3
  <2>4. release[q].seq # 0 =>
          {s \in snapshots' : s.seq = release[q].seq /\ q \in s.apps} =
             {s \in snapshots : s.seq = release[q].seq /\ q \in s.apps}
    BY <2>2
  <2> QED BY Zenon, <1>3, <2>1, <2>2, <2>3, <2>4
<1>4. ASSUME NEW q \in Releases, q = g.package
      PROVE  /\ release'[q].seq = g.seq /\ release'[q].state = "published"
             /\ {s \in snapshots' : s.package = q} =
                   {s \in snapshots' : s.seq = release'[q].seq /\ q \in s.apps}
             /\ release'[q].seq \in Committed'
  <2>1. release[q].seq = 0 /\ q \in g.apps /\ release'[q].state = "published" /\ release'[q].seq = g.seq
    BY <1>1, <1>4
  <2>2. \A s \in snapshots : s.package # q
    BY <2>1 DEF IInv, UnpublishedIsNew
  <2>3. {s \in snapshots' : s.package = q} = {g}
    BY <1>4, <2>2
  <2>4. {s \in snapshots' : s.seq = g.seq /\ q \in s.apps} = {g}
    BY <1>2, <2>1
  <2> QED BY <2>1, <2>3, <2>4
<1>5. UnpublishedIsNew'
  BY <1>3, <1>4 DEF UnpublishedIsNew
<1>6. PublishedWasCommitted'
  BY <1>3, <1>4 DEF PublishedWasCommitted
<1> QED BY <1>5, <1>6

(* What a commit does to the release of the job. *)
LEMMA CommitReleases ==
    ASSUME IInv, NEW e \in EventIds, job[e].state = "running", Current(e), NEW seq \in Nat,
           release' = IF job[e].kind = "publish-release"
                      THEN [release EXCEPT ![job[e].release].state = "published",
                              ![job[e].release].version = @ + 1, ![job[e].release].seq = seq]
                      ELSE release
    PROVE  /\ release' \in [Releases -> ReleaseRecord] /\ VersionsGrow
           /\ job[e].release \in Releases
           /\ \A q \in Releases : q # Target(e) => release'[q] = release[q]
           /\ job[e].kind = "publish-release" =>
                 /\ release[job[e].release].state = "publishing"
                 /\ release[job[e].release].seq = 0
                 /\ release'[job[e].release].state = "published"
                 /\ release'[job[e].release].seq = seq
           /\ job[e].kind # "publish-release" => job[e].source # "publishing"
<1> DEFINE r == job[e].release
           n == release[r].version + 1
           v == [state |-> "published", version |-> n, seq |-> seq]
<1>1. Emitted(e)
  BY DEF IInv, JobsInv
<1>2. release \in [Releases -> ReleaseRecord] /\ r \in Releases
  BY <1>1, TypeParts DEF IInv, Emitted
<1>3. CASE job[e].kind # "publish-release"
  BY Zenon, <1>1, <1>2, <1>3 DEF Emitted, VersionsGrow
<1>4. CASE job[e].kind = "publish-release"
  <2>1. release[r].state = "publishing" /\ release[r].seq = 0
    BY <1>1, <1>2, <1>4 DEF Emitted, Current, IInv, PublicationRecorded, PublishedWasCommitted
  <2>2. release[r].version \in Nat /\ n \in Nat /\ n > release[r].version
    BY <1>2 DEF ReleaseRecord
  <2> HIDE DEF r
  <2>3. /\ v \in ReleaseRecord /\ v.state = "published" /\ v.version = n /\ v.seq = seq
    BY <2>2 DEF ReleaseRecord, ReleaseStates
  <2>4. release' = [release EXCEPT ![r] = v]
    BY <1>2, <1>4 DEF r, ReleaseRecord
  <2> HIDE DEF v, n
  <2>5. /\ release' \in [Releases -> ReleaseRecord] /\ release'[r] = v
        /\ \A q \in Releases \ {r} : release'[q] = release[q]
    BY Zenon, <1>2, <2>3, <2>4
  <2>6. VersionsGrow
    BY Zenon, <2>2, <2>3, <2>5 DEF VersionsGrow
  <2> QED BY Zenon, <1>2, <1>4, <2>1, <2>3, <2>5, <2>6 DEF Target, r
<1> QED BY Zenon, <1>3, <1>4

LEMMA CommitPublicationKeeps ==
    ASSUME IInv, NEW w \in Workers, CommitPublication(w)
    PROVE  IInv'
<1> DEFINE e == worker[w].event
           r == job[e].release
<1>1. worker[w].pc = "commit" /\ UNCHANGED <<layouts, last_sequence, generations, current>>
  BY Zenon DEF CommitPublication, origin
<1>2. CASE Goto(w, "down") /\ UNCHANGED <<release, job, snapshots, log, orders>>
  <2>1. UNCHANGED <<database, origin>>
    BY <1>1, <1>2 DEF database, origin
  <2> QED BY <1>2, <2>1, IdleSteps
<1>3. CASE /\ LeaseHeld(w) /\ ~Current(e) /\ Finish(e, "superseded") /\ Goto(w, "start")
           /\ UNCHANGED <<release, snapshots, log>>
  <2>1. e \in EventIds /\ job[e].state = "running"
    BY Zenon, <1>1, <1>3, HeldRuns DEF Attempting
  <2> HIDE DEF e
  <2> QED BY Zenon, <1>1, <1>3, <2>1, SupersedeKeeps
<1>4. CASE /\ LeaseHeld(w) /\ Current(e) /\ worker[w].tree = Len(log)
           /\ snapshots' = snapshots \cup {Prepared(w)}
           /\ log' = Append(log, worker[w].seq)
           /\ Finish(e, "completed")
           /\ release' = IF job[e].kind = "publish-release"
                         THEN [release EXCEPT ![r].state = "published",
                                 ![r].version = @ + 1, ![r].seq = worker[w].seq]
                         ELSE release
           /\ Step(w, "switch")
  <2>1. /\ e \in EventIds /\ job[e].state = "running" /\ job[e].seq = worker[w].seq
        /\ worker[w].seq # 0 /\ worker[w].seq \in Nat
    BY Zenon, <1>1, <1>4, HeldRuns, WorkerTypes DEF Attempting
  <2>2. /\ Prepared(w) \in generations /\ Prepared(w) \in Contents /\ Prepared(w).seq = worker[w].seq
        /\ Prepared(w).package = Target(e) /\ Target(e) \in Prepared(w).apps \cup {NoRelease}
    <3>1. WorkerInv(w)
      BY DEF IInv, WorkersInv
    <3> QED BY Zenon, <1>1, <3>1, PreparedTyped DEF WorkerInv, Attempting, Projected, Prepared
  <2>3. /\ release' \in [Releases -> ReleaseRecord] /\ VersionsGrow /\ r \in Releases
        /\ \A q \in Releases : q # Target(e) => release'[q] = release[q]
        /\ job[e].kind = "publish-release" =>
              /\ release[r].state = "publishing" /\ release[r].seq = 0
              /\ release'[r].state = "published" /\ release'[r].seq = worker[w].seq
        /\ job[e].kind # "publish-release" => job[e].source # "publishing"
    <3> HIDE DEF e
    <3> QED BY ZenonT(30), <1>4, <2>1, CommitReleases
  <2> HIDE DEF e, r
  <2>4. Becomes(e, "completed") /\ TypedOrders' /\ OrdersInv'
    BY <1>4, <2>1, FinishLeaves
  <2>5. JobsInv' /\ OnePublication' /\ SequencesNotReused' /\ Grows
    BY Zenon, <1>1, <1>4, <2>1, <2>3, <2>4, BecomesKeeps DEF IInv, PublicationRecorded, Unfinished, JobStates
  <2>6. job' \in [EventIds -> JobRecord] /\ job'[e].state = "completed" /\ job'[e].seq = job[e].seq
    BY Zenon, <2>4 DEF Becomes, SameJob
  <2>7. Prepared(w).seq \notin Committed
    BY Zenon, <2>1, <2>2, SequenceIsNew
  <2>8. SnapshotsInv' /\ TypedLog' /\ Committed' = Committed \cup {Prepared(w).seq}
    BY <1>1, <1>4, <2>1, <2>2, <2>5, <2>6, <2>7, CommitLogged
  <2>9. UnpublishedIsNew' /\ PublishedWasCommitted'
    <3>1. NoRelease \notin Releases
      BY Zenon, PublisherAssumption
    <3> DEFINE g == Prepared(w)
    <3>2. g \in Contents /\ g.seq \notin Committed /\ g.seq # 0
          /\ snapshots' = snapshots \cup {g} /\ Committed' = Committed \cup {g.seq}
      BY Zenon, <1>4, <2>1, <2>2, <2>7, <2>8
    <3>3. g.package # NoRelease =>
            /\ release[g.package].seq = 0 /\ g.package \in g.apps
            /\ release'[g.package].state = "published" /\ release'[g.package].seq = g.seq
      <4>1. Target(e) # NoRelease => job[e].kind = "publish-release" /\ Target(e) = r
        BY DEF Target, r
      <4> QED BY Zenon, <2>2, <2>3, <3>1, <4>1
    <3>4. \A q \in Releases : q # g.package => release'[q] = release[q]
      BY Zenon, <2>2, <2>3
    <3> HIDE DEF g
    <3> QED BY Zenon, <3>2, <3>3, <3>4, CommitPublishes
  <2>10. PublishingIsPending'
    <3> SUFFICES ASSUME NEW q \in Releases, release'[q].state = "publishing"
                 PROVE  \E f \in EventIds : job'[f].state \in Unfinished /\ job'[f].release = q /\ Current(f)'
      BY Zenon DEF PublishingIsPending, Unfinished
    <3>1. release'[q] = release[q] /\ (job[e].kind = "publish-release" => q # r)
      BY Zenon, <2>3, PublisherAssumption DEF Target, r
    <3>2. PICK f \in EventIds : job[f].state \in Unfinished /\ job[f].release = q /\ Current(f)
      BY Zenon, <3>1 DEF IInv, PublicationRecorded, PublishingIsPending, Unfinished
    <3>3. f # e
      BY Zenon, <2>3, <3>1, <3>2 DEF Current, r
    <3>4. job'[f] = job[f]
      BY Zenon, <2>4, <3>3 DEF Becomes
    <3> QED BY Zenon, <3>1, <3>2, <3>4 DEF Current
  <2>11. WorkersInv' /\ worker' \in [Workers -> WorkerRecord]
    <3>1. /\ Moves(w) /\ worker'[w].pc = "switch"
          /\ worker'[w].event = worker[w].event /\ worker'[w].attempt = worker[w].attempt
          /\ worker'[w].seq = worker[w].seq
      BY <1>4, StepMoves DEF IInv, Steps
    <3>2. /\ worker'[w].event \in EventIds
          /\ worker'[w].attempt \in 1 .. Job(w)'.attempts
          /\ worker'[w].seq = Job(w)'.seq
      BY Zenon, <1>1, <2>5, <2>6, <3>1, ClaimKeeps DEF Attempting
    <3>3. worker'[w].seq \in Committed'
      BY Zenon, <2>2, <2>8, <3>1
    <3>4. WorkerInv(w)'
      BY Zenon, <3>1, <3>2, <3>3 DEF WorkerInv, Attempting, Projected
    <3> QED BY Zenon, <2>5, <2>6, <3>1, <3>4, WorkersKeep DEF Moves
  <2>12. current' \in Nat /\ ServesCommitted' /\ layouts' \in Seq(Releases) /\ last_sequence' \in Nat
    BY <1>1, <2>8, TypeParts DEF IInv, ServesCommitted
  <2> QED BY Zenon, <2>3, <2>4, <2>5, <2>6, <2>8, <2>9, <2>10, <2>11, <2>12, IInvParts
<1> QED BY Zenon, <1>2, <1>3, <1>4 DEF CommitPublication

-----------------------------------------------------------------------------
(* Every step, and what follows.                                           *)

LEMMA InitKeeps == Init => IInv
<1> SUFFICES ASSUME Init PROVE IInv
  OBVIOUS
<1>1. TypedOrders /\ TypedLog
  BY DEF Init, TypedOrders, TypedLog
<1>2. last_sequence \in Nat /\ current \in Nat /\ release \in [Releases -> ReleaseRecord]
      /\ layouts \in Seq(Releases) /\ job \in [EventIds -> JobRecord]
  BY PublisherAssumption DEF Init, ReleaseRecord, ReleaseStates, JobRecord, JobStates, Unused
<1>3. worker \in [Workers -> WorkerRecord]
  BY Zenon DEF Init, WorkerRecord, Steps, At
<1>4. TypeOK
  BY <1>1, <1>2, <1>3, TypeParts
<1>5. \A e \in EventIds : job[e] = Unused
  BY DEF Init
<1>6. OrdersInv
  BY <1>5 DEF Init, OrdersInv, Lists, Unused
<1>7. JobsInv /\ OnePublication
  <2>1. NoRelease \notin Releases
    BY Zenon, PublisherAssumption
  <2> QED BY <1>5, <2>1 DEF Init, JobsInv, OnePublication, Attempted, Unused
<1>8. WorkersInv
  BY Zenon DEF Init, WorkersInv, WorkerInv, At, Attempting, Projected
<1>9. SnapshotsInv
  <2>1. DOMAIN log = {} /\ Len(log) = 0
    BY DEF Init
  <2>2. Committed = {} /\ {log[i] : i \in DOMAIN log} = {}
    BY Zenon, <2>1 DEF Init, Committed
  <2> QED BY Zenon, <2>1, <2>2 DEF Init, SnapshotsInv, LogVerifies
<1>10. UnpublishedIsNew /\ ServesCommitted /\ PublishedWasCommitted /\ PublishingIsPending
  BY Zenon DEF Init, UnpublishedIsNew, ServesCommitted, PublishedWasCommitted, PublishingIsPending
<1>11. SequencesNotReused
  BY <1>5 DEF SequencesNotReused, Unused
<1> QED BY <1>4, <1>6, <1>7, <1>8, <1>9, <1>10, <1>11 DEF IInv, PublicationRecorded

LEMMA StepKeeps == IInv /\ [Next]_vars => IInv'
<1> SUFFICES ASSUME IInv, [Next]_vars PROVE IInv'
  OBVIOUS
<1>1. CASE UNCHANGED vars
  <2>1. UNCHANGED <<database, origin>> /\ \A v \in Workers : worker'[v] = worker[v]
    BY <1>1 DEF vars
  <2>2. Grows /\ job' \in [EventIds -> JobRecord]
    BY <2>1, NothingGrows
  <2>3. WorkersInv' /\ worker' \in [Workers -> WorkerRecord]
    BY <1>1, <2>1, <2>2, WorkerKeeps, TypeParts DEF WorkersInv, IInv, vars
  <2>4. /\ last_sequence' \in Nat /\ UNCHANGED <<release, layouts, snapshots, log, generations, current>>
        /\ TypedOrders' /\ OrdersInv' /\ JobsInv' /\ OnePublication'
        /\ SequencesNotReused' /\ PublishingIsPending'
    BY <2>1, DatabaseStays DEF database, origin
  <2> QED BY <2>2, <2>3, <2>4, JobStep
<1>2. CASE Control
  BY <1>2, ControlKeeps
<1>3. ASSUME NEW w \in Workers, Work(w) PROVE IInv'
  BY <1>3, OpenKeeps, ReconcileReadKeeps, SwitchKeeps, EnqueueOneKeeps, RecoverExpiredLeasesKeeps,
     ClaimOneKeeps, LoadReleaseSourceKeeps, PreparePublicationKeeps, EditorialReads,
     WriteGenerationKeeps, CommitPublicationKeeps,
     DeferJobKeeps, FinishSupersededKeeps, FinishFailedKeeps DEF Work
<1>4. ASSUME NEW w \in Workers, Crash(w) PROVE IInv'
  BY <1>4, OpenKeeps
<1>5. ASSUME NEW e \in EventIds, LeaseExpires(e) PROVE IInv'
  BY <1>5, LeaseExpiresKeeps
<1> QED BY <1>1, <1>2, <1>3, <1>4, <1>5 DEF Next

LEMMA IInvSound == IInv => PublisherSound
<1> SUFFICES ASSUME IInv PROVE OriginSound
  BY DEF PublisherSound, IInv
<1>1. LogVerifies /\ \A s \in snapshots : GenerationVerifies(s.seq)
  BY DEF IInv, SnapshotsInv, GenerationVerifies
<1> QED BY <1>1 DEF IInv, OriginSound, StartNeverRefused

(* Database, origin and jobs agree in every reachable state, for any       *)
(* number of releases, events, publisher workers and attempts: whatever    *)
(* worker stops, loses its lease or retries, open() is never refused, the  *)
(* `current' link names a committed Catalog, a release is made available   *)
(* by exactly one committed Catalog and one waiting in `publishing' is not *)
(* forgotten.                                                              *)
THEOREM PublicationIsSound == Spec => []PublisherSound
<1>1. Init => IInv
  BY InitKeeps
<1>2. IInv /\ [Next]_vars => IInv'
  BY StepKeeps
<1>3. IInv => PublisherSound
  BY IInvSound
<1> QED BY <1>1, <1>2, <1>3, PTL DEF Spec

-----------------------------------------------------------------------------
(* Catching up.                                                            *)

(* An event that announces r, and that does so after the step. *)
Announces(f, r) == job[f].state \in Unfinished /\ job[f].release = r /\ Current(f)

(* What a step may do to a release that the Catalogs need not notice: it   *)
(* changes neither what is listed nor what is announced, or is announced.  *)
Kept(r) ==
    \/ /\ Published(r)' <=> Published(r)
       /\ \A f \in EventIds : Announces(f, r) => Announces(f, r)'
    \/ \E n \in EventIds : job[n].state = "unused" /\ Announces(n, r)'

(* A worker holds what it held under the same lease, or reads it anew. *)
Reads(w) ==
    \A e \in EventIds, target \in Releases \cup {NoRelease} :
        Held(w, e, target)' => \/ Held(w, e, target) /\ worker'[w].apps = worker[w].apps
                               \/ worker'[w].apps = Projection(target)'

(* A step that commits no Catalog and gives up no current event. *)
NoCatalog ==
    /\ UNCHANGED <<snapshots, log>>
    /\ \A r \in Releases : release'[r].seq = release[r].seq /\ Kept(r)
    /\ \A e \in EventIds : job[e].state = "failed" => job'[e].state = "failed"
    /\ \A w \in Workers : Reads(w)

LEMMA ProjectionStays ==
    ASSUME \A q \in Releases : release'[q].seq = release[q].seq,
           NEW r \in Releases, Published(r)' <=> Published(r), NEW target
    PROVE  r \in Projection(target)' <=> r \in Projection(target)
BY Zenon DEF Projection

LEMMA AnnouncedBy ==
    ASSUME NEW r \in Releases, NEW F
    PROVE  /\ Announced(r, F) <=> \E f \in EventIds \ F : Announces(f, r)
           /\ Announced(r, F)' <=> \E f \in EventIds \ F : Announces(f, r)'
BY Zenon DEF Announced, Announces

(* What is known of r stays known, for any Catalog and any event that is   *)
(* already in use.                                                         *)
LEMMA KnownStays ==
    ASSUME \A q \in Releases : release'[q].seq = release[q].seq, NEW r \in Releases, Kept(r),
           NEW apps, NEW target, NEW F, \A f \in F : job[f].state # "unused",
           (r \in apps <=> r \in Projection(target)) \/ Announced(r, F)
    PROVE  (r \in apps <=> r \in Projection(target)') \/ Announced(r, F)'
<1>1. CASE \E n \in EventIds : job[n].state = "unused" /\ Announces(n, r)'
  <2>1. PICK n \in EventIds : job[n].state = "unused" /\ Announces(n, r)'
    BY Zenon, <1>1
  <2>2. n \in EventIds \ F
    BY Zenon, <2>1
  <2> QED BY Zenon, <2>1, <2>2, AnnouncedBy
<1>2. CASE /\ Published(r)' <=> Published(r)
           /\ \A f \in EventIds : Announces(f, r) => Announces(f, r)'
  <2>1. r \in Projection(target)' <=> r \in Projection(target)
    BY Zenon, <1>2, ProjectionStays
  <2>2. Announced(r, F) => Announced(r, F)'
    BY Zenon, <1>2, AnnouncedBy
  <2> QED BY Zenon, <2>1, <2>2
<1> QED BY Zenon, <1>1, <1>2 DEF Kept

LEMMA NoCatalogKeeps ==
    ASSUME CInv, NoCatalog
    PROVE  HeldProjection' /\ LastCatalog'
<1>1. \A q \in Releases : release'[q].seq = release[q].seq
  BY Zenon DEF NoCatalog
<1>2. HeldProjection'
  <2> SUFFICES ASSUME NEW w \in Workers, NEW e \in EventIds,
                      NEW target \in Releases \cup {NoRelease}, Held(w, e, target)',
                      NEW r \in Releases
               PROVE  (r \in worker'[w].apps <=> r \in Projection(target)') \/ Announced(r, {e})'
    BY Zenon DEF HeldProjection
  <2>1. Reads(w) /\ Kept(r)
    BY DEF NoCatalog
  <2>2. CASE worker'[w].apps = Projection(target)'
    BY <2>2
  <2>3. CASE Held(w, e, target) /\ worker'[w].apps = worker[w].apps
    <3>1. job[e].state # "unused"
      BY Zenon, <2>3, ClaimOf DEF CInv, Held, Projected, Attempting
    <3>2. (r \in worker[w].apps <=> r \in Projection(target)) \/ Announced(r, {e})
      BY Zenon, <2>3 DEF CInv, HeldProjection
    <3>3. \A f \in {e} : job[f].state # "unused"
      BY Zenon, <3>1
    <3>4. (r \in worker[w].apps <=> r \in Projection(target)') \/ Announced(r, {e})'
      BY SMTT(30), <1>1, <2>1, <3>2, <3>3, KnownStays
    <3> QED BY Zenon, <2>3, <3>4
  <2> QED BY Zenon, <2>1, <2>2, <2>3 DEF Reads
<1>3. LastCatalog'
  <2> SUFFICES ASSUME NoneFailed', InOrder', log' # << >>, NEW s \in snapshots',
                      s.seq = log'[Len(log')], NEW r \in Releases
               PROVE  (r \in s.apps <=> r \in Projection(NoRelease)') \/ Announced(r, {})'
    BY DEF LastCatalog
  <2>1. snapshots' = snapshots /\ log' = log /\ Kept(r)
    BY DEF NoCatalog
  <2>2. NoneFailed
    BY DEF NoCatalog, NoneFailed
  <2>3. InOrder
    BY <2>1 DEF InOrder
  <2>4. (r \in s.apps <=> r \in Projection(NoRelease)) \/ Announced(r, {})
    BY <2>1, <2>2, <2>3 DEF CInv, LastCatalog
  <2> QED BY SMTT(30), <1>1, <2>1, <2>4, KnownStays
<1> QED BY <1>2, <1>3

(* No job is claimed: one that runs after the step ran before it. *)
NoClaim ==
    \A f \in EventIds : job[f].state # "unused" =>
        /\ job'[f].kind = job[f].kind /\ job'[f].release = job[f].release
        /\ job'[f].state = "running" =>
              job[f].state = "running" /\ job'[f].attempts = job[f].attempts

LEMMA SameReads ==
    ASSUME IInv, NoClaim, NEW v \in Workers, worker[v].pc \in Projected,
           worker'[v].event = worker[v].event, worker'[v].attempt = worker[v].attempt,
           worker'[v].apps = worker[v].apps
    PROVE  Reads(v)
<1> SUFFICES ASSUME NEW e \in EventIds, NEW target \in Releases \cup {NoRelease}, Held(v, e, target)'
             PROVE  Held(v, e, target)
  BY Zenon DEF Reads
<1>1. worker[v].event = e /\ Target(e)' = target
  BY DEF Held
<1>2. job[e].state # "unused"
  BY Zenon, <1>1, ClaimOf DEF Projected, Attempting
<1>3. Target(e) = target
  BY Zenon, <1>1, <1>2 DEF NoClaim, Target
<1>4. job'[e].state = "running" /\ job'[e].attempts = worker[v].attempt
  BY Zenon, <1>1 DEF Held, LeaseHeld, Job
<1>5. LeaseHeld(v)
  BY Zenon, <1>1, <1>2, <1>4 DEF NoClaim, LeaseHeld, Job
<1> QED BY Zenon, <1>1, <1>3, <1>5 DEF Held

LEMMA OthersRead ==
    ASSUME IInv, NoClaim, NEW v \in Workers, worker'[v] = worker[v]
    PROVE  Reads(v)
<1>1. CASE worker[v].pc \in Projected
  BY <1>1, SameReads
<1>2. CASE worker[v].pc \notin Projected
  BY Zenon, <1>2 DEF Reads, Held
<1> QED BY <1>1, <1>2

(* A step of one worker. *)
LEMMA WorkerCatalog ==
    ASSUME IInv, UNCHANGED database, NEW w \in Workers, Reads(w),
           \A v \in Workers \ {w} : worker'[v] = worker[v]
    PROVE  NoCatalog
<1>1. UNCHANGED <<job, release, snapshots, log>>
  BY Zenon DEF database
<1>2. NoClaim
  BY Zenon, <1>1 DEF NoClaim
<1>3. \A v \in Workers : Reads(v)
  BY <1>2, OthersRead
<1>4. ASSUME NEW r \in Releases PROVE Kept(r)
  BY <1>1 DEF Kept, Published, Announces, Current
<1> QED BY Zenon, <1>1, <1>3, <1>4 DEF NoCatalog

(* A step of one job, at most, that is not a claim. *)
LEMMA JobCatalog ==
    ASSUME IInv, UNCHANGED <<release, snapshots, log>>,
           \A f \in EventIds :
               \/ job'[f] = job[f]
               \/ /\ SameJob(job[f], job'[f]) /\ job[f].state \in Unfinished
                  /\ job'[f].state \in Unfinished \/ ~Current(f)
                  /\ job'[f].state = "running" => job[f].state = "running",
           \A v \in Workers : worker'[v] = worker[v] \/ worker'[v].pc \notin Projected
    PROVE  NoCatalog
<1>1. NoClaim
  BY Zenon DEF NoClaim, SameJob
<1>2. ASSUME NEW v \in Workers PROVE Reads(v)
  <2>1. CASE worker'[v] = worker[v]
    BY Zenon, <1>1, <2>1, OthersRead
  <2>2. CASE worker'[v].pc \notin Projected
    BY Zenon, <2>2 DEF Reads, Held
  <2> QED BY Zenon, <2>1, <2>2
<1>3. ASSUME NEW r \in Releases PROVE Kept(r)
  <2>1. ASSUME NEW f \in EventIds, Announces(f, r) PROVE Announces(f, r)'
    <3>1. CASE job'[f] = job[f]
      BY Zenon, <2>1, <3>1 DEF Announces, Current
    <3>2. CASE SameJob(job[f], job'[f]) /\ (job'[f].state \in Unfinished \/ ~Current(f))
      BY Zenon, <2>1, <3>2 DEF Announces, Current, SameJob
    <3> QED BY Zenon, <3>1, <3>2
  <2> QED BY Zenon, <2>1 DEF Kept, Published
<1>4. \A f \in EventIds : job[f].state = "failed" => job'[f].state = "failed"
  BY Zenon DEF Unfinished
<1> QED BY Zenon, <1>2, <1>3, <1>4 DEF NoCatalog

(* A mutation that has no event, of a release that no Catalog shows. *)
LEMMA SilentCatalog ==
    ASSUME IInv, NEW r \in Releases, NEW state, NEW version \in Nat, Changes(r, state, version),
           release[r].state \in {"none", "ready"}, state \in {"ready", "scheduled"},
           UNCHANGED <<job, snapshots, log, worker>>
    PROVE  NoCatalog
<1>1. NoClaim
  BY Zenon DEF NoClaim
<1>2. \A v \in Workers : Reads(v)
  BY <1>1, OthersRead
<1>3. ASSUME NEW q \in Releases PROVE Kept(q) /\ release'[q].seq = release[q].seq
  <2>1. CASE q # r
    BY <2>1 DEF Changes, Kept, Published, Announces, Current
  <2>2. CASE q = r
    <3>1. ASSUME NEW f \in EventIds, Announces(f, r) PROVE FALSE
      <4>1. Emitted(f)
        BY Zenon, <3>1 DEF IInv, JobsInv, Announces, Unfinished
      <4> QED BY Zenon, <3>1, <4>1 DEF Announces, Current, Emitted
    <3> QED BY Zenon, <2>2, <3>1 DEF Changes, Kept, Published
  <2> QED BY Zenon, <2>1, <2>2
<1> QED BY Zenon, <1>2, <1>3 DEF NoCatalog

(* A mutation with an event. *)
LEMMA EmitCatalog ==
    ASSUME IInv, NEW n, NEW r \in Releases, NEW kind, NEW version, NEW source,
           Adds(n, r, kind, version, source),
           release'[r].state = source, release'[r].version = version,
           release'[r].seq = release[r].seq,
           \A q \in Releases \ {r} : release'[q] = release[q],
           UNCHANGED <<snapshots, log, worker>>
    PROVE  NoCatalog
<1>1. /\ n \in EventIds /\ job[n].state = "unused"
      /\ \A f \in EventIds : job[f].state # "unused" => job'[f] = job[f]
  BY SMTT(30) DEF Adds, Unused
<1>2. NoClaim
  BY Zenon, <1>1 DEF NoClaim
<1>3. \A v \in Workers : Reads(v)
  BY Zenon, <1>2, OthersRead
<1>4. ASSUME NEW q \in Releases PROVE Kept(q) /\ release'[q].seq = release[q].seq
  <2>1. CASE q # r
    <3>1. release'[q] = release[q]
      BY Zenon, <2>1
    <3>2. ASSUME NEW f \in EventIds, Announces(f, q) PROVE Announces(f, q)'
      BY Zenon, <1>1, <3>1, <3>2 DEF Announces, Current, Unfinished
    <3> QED BY Zenon, <3>1, <3>2 DEF Kept, Published
  <2>2. CASE q = r
    <3>1. Announces(n, r)'
      BY Zenon DEF Adds, Announces, Current, Unfinished
    <3> QED BY Zenon, <1>1, <2>2, <3>1 DEF Kept
  <2> QED BY Zenon, <2>1, <2>2
<1>5. \A f \in EventIds : job[f].state = "failed" => job'[f].state = "failed"
  BY Zenon, <1>1
<1> QED BY Zenon, <1>3, <1>4, <1>5 DEF NoCatalog

LEMMA ControlCatalog ==
    ASSUME IInv, Control
    PROVE  NoCatalog
<1>1. ASSUME NEW r \in Releases, CreateRelease(r) PROVE NoCatalog
  <2>1. /\ release[r].state = "none" /\ UNCHANGED <<job, snapshots, log, worker>>
        /\ release' = [release EXCEPT ![r].state = "ready", ![r].version = 1]
    BY <1>1 DEF CreateRelease
  <2>2. Changes(r, "ready", 1)
    BY Zenon, <2>1, ReleaseChanges DEF IInv, ReleaseStates
  <2> QED BY <2>1, <2>2, SilentCatalog
<1>2. ASSUME NEW r \in Releases, NEW action \in {"schedule", "publish", "pause", "resume", "remove"},
             MutateRelease(r, action)
      PROVE  NoCatalog
  <2> DEFINE version == release[r].version + 1
             target == Transitions(action).to
  <2>1. /\ release[r].state \in Transitions(action).from
        /\ release' = [release EXCEPT ![r].state = target, ![r].version = version]
        /\ UNCHANGED <<snapshots, log, worker>>
    BY <1>2 DEF MutateRelease
  <2>2. version \in Nat /\ target \in ReleaseStates
    BY TypeParts DEF IInv, ReleaseRecord, Transitions, ReleaseStates
  <2>3. Changes(r, target, version)
    BY Zenon, <2>1, <2>2, ReleaseChanges DEF IInv
  <2>4. CASE action = "schedule" /\ UNCHANGED job
    <3>1. target = "scheduled" /\ release[r].state = "ready"
      BY <2>1, <2>4 DEF Transitions
    <3> HIDE DEF version, target
    <3> QED BY <2>1, <2>2, <2>3, <2>4, <3>1, SilentCatalog
  <2>5. CASE action # "schedule" /\ Emit(r, Topic(action), version, target, 0)
    <3> DEFINE n == NextId
    <3>1. Topic(action) \in {"publish-release", "rebuild-catalog"}
      BY DEF Topic
    <3>2. Adds(n, r, Topic(action), version, target)
      BY <2>2, <2>5, <3>1, EmitAdds DEF IInv
    <3> HIDE DEF version, target, n
    <3> QED BY SMTT(30), <2>1, <2>3, <3>2, EmitCatalog DEF Changes
  <2> QED BY <1>2, <2>4, <2>5 DEF MutateRelease
<1>3. ASSUME NEW r \in Releases, ReplaceEditorial(r) PROVE NoCatalog
  <2> DEFINE version == release[r].version
             n == NextId
  <2>1. /\ release[r].state = "published" /\ UNCHANGED <<release, snapshots, log, worker>>
        /\ Emit(r, "rebuild-catalog", version, "published", Len(layouts) + 1)
    BY <1>3 DEF ReplaceEditorial, Published
  <2>2. version \in Nat /\ Len(layouts) + 1 \in Nat /\ "published" \in ReleaseStates
    BY TypeParts DEF IInv, ReleaseRecord, ReleaseStates
  <2>3. Adds(n, r, "rebuild-catalog", version, "published")
    BY Zenon, <2>1, <2>2, EmitAdds DEF IInv
  <2>4. release'[r].state = "published" /\ release'[r].version = version
    BY <2>1
  <2> HIDE DEF version, n
  <2> QED BY Zenon, <2>1, <2>3, <2>4, EmitCatalog
<1> QED BY <1>1, <1>2, <1>3 DEF Control

(* The steps of a worker that leave the database alone. *)
LEMMA WorkerStepCatalog ==
    ASSUME IInv, NEW w \in Workers,
           \/ Open(w) \/ Crash(w) \/ ReconcileRead(w) \/ ReconcileSwitch(w) \/ SwitchCommitted(w)
           \/ LoadReleaseSource(w) \/ PreparePublication(w)
           \/ LoadEditorial(w) \/ CheckBindings(w) \/ PrepareTransparency(w) \/ WriteGeneration(w)
    PROVE  NoCatalog
<1>1. worker \in [Workers -> WorkerRecord]
  BY TypeParts DEF IInv
<1>2. UNCHANGED database
  BY Zenon, EditorialReads DEF Open, Crash, ReconcileRead, ReconcileSwitch, SwitchCommitted,
         LoadReleaseSource, PreparePublication, WriteGeneration, Reading
<1>3. NoClaim
  BY Zenon, <1>2 DEF NoClaim, database
<1>4. ASSUME NEW u, worker' = [worker EXCEPT ![w] = u], u.pc \notin Projected
      PROVE  NoCatalog
  <2>1. worker'[w].pc \notin Projected /\ \A v \in Workers \ {w} : worker'[v] = worker[v]
    BY <1>1, <1>4
  <2> QED BY Zenon, <1>2, <2>1, WorkerCatalog DEF Reads, Held
<1>5. CASE Open(w) \/ Crash(w) \/ ReconcileSwitch(w) \/ SwitchCommitted(w)
  <2>1. PICK pc \in {"start", "down", "enqueue"} : worker' = [worker EXCEPT ![w] = At(pc)]
    BY Zenon, <1>5 DEF Open, Crash, ReconcileSwitch, SwitchCommitted, Goto
  <2>2. At(pc).pc \notin Projected
    BY DEF At, Projected
  <2> QED BY Zenon, <1>4, <2>1, <2>2
<1>6. CASE ReconcileRead(w)
  <2>1. CASE Goto(w, IF current = 0 THEN "enqueue" ELSE "down")
    <3> DEFINE u == At(IF current = 0 THEN "enqueue" ELSE "down")
    <3>1. u.pc \notin Projected /\ worker' = [worker EXCEPT ![w] = u]
      BY Zenon, <2>1 DEF At, Projected, Goto
    <3> HIDE DEF u
    <3> QED BY Zenon, <1>4, <3>1
  <2>2. CASE worker' = [worker EXCEPT ![w] = [At("reconcile") EXCEPT !.seq = Highest(Committed)]]
    <3> DEFINE u == [At("reconcile") EXCEPT !.seq = Highest(Committed)]
    <3>1. u.pc \notin Projected
      BY DEF At, Projected
    <3> HIDE DEF u
    <3> QED BY Zenon, <1>4, <2>2, <3>1 DEF u
  <2> QED BY <1>6, <2>1, <2>2 DEF ReconcileRead
<1>7. ASSUME Moves(w), worker'[w].pc \notin Projected PROVE NoCatalog
  BY <1>2, <1>7, WorkerCatalog DEF Reads, Held, Moves
<1>8. CASE LoadReleaseSource(w)
  <2>1. CASE \E pc \in {"supersede", "project"} : Step(w, pc)
    BY Zenon, <1>7, <2>1, StepMoves DEF IInv, Steps, Projected
  <2>2. CASE \E permanent \in BOOLEAN : Refuse(w, permanent)
    BY Zenon, <1>7, <2>2, RefuseSteps DEF Projected
  <2> QED BY Zenon, <1>8, <2>1, <2>2 DEF LoadReleaseSource
<1>9. CASE PreparePublication(w)
  <2> DEFINE P == Projection(Target(worker[w].event))
  <2>1. worker' = [worker EXCEPT ![w].pc = "editorial", ![w].apps = P]
    BY <1>9 DEF PreparePublication
  <2> HIDE DEF P
  <2>2. /\ worker'[w].apps = P /\ worker'[w].event = worker[w].event
        /\ \A v \in Workers \ {w} : worker'[v] = worker[v]
    BY <1>1, <2>1 DEF WorkerRecord
  <2>3. ASSUME NEW e \in EventIds, NEW target \in Releases \cup {NoRelease}, Held(w, e, target)'
        PROVE  worker'[w].apps = Projection(target)'
    <3>1. worker[w].event = e /\ Target(e)' = target
      BY Zenon, <2>2, <2>3 DEF Held
    <3>2. Target(e) = target /\ Projection(target)' = Projection(target)
      BY Zenon, <1>2, <3>1 DEF database, Target, Projection, Published
    <3> QED BY Zenon, <2>2, <3>1, <3>2 DEF P
  <2> QED BY Zenon, <1>2, <2>2, <2>3, WorkerCatalog DEF Reads
<1>10. CASE LoadEditorial(w) \/ CheckBindings(w) \/ PrepareTransparency(w)
  <2>1. Reading(w)
    BY <1>10, EditorialReads
  <2>2. Reads(w)
    BY Zenon, <1>3, <2>1, SameReads DEF Reading
  <2> QED BY Zenon, <1>2, <2>1, <2>2, WorkerCatalog DEF Reading, Moves
<1>11. CASE WriteGeneration(w)
  <2>1. CASE Refuse(w, FALSE)
    BY Zenon, <1>7, <2>1, RefuseSteps DEF Projected
  <2>2. CASE Step(w, "commit")
    <3>1. /\ Moves(w) /\ worker'[w].event = worker[w].event
          /\ worker'[w].attempt = worker[w].attempt /\ worker'[w].apps = worker[w].apps
      BY Zenon, <2>2, StepMoves DEF IInv, Steps
    <3>2. worker[w].pc \in Projected
      BY Zenon, <1>11 DEF WriteGeneration, Projected
    <3>3. Reads(w)
      BY Zenon, <1>3, <3>1, <3>2, SameReads
    <3> QED BY <1>2, <3>1, <3>3, WorkerCatalog DEF Moves
  <2> QED BY Zenon, <1>11, <2>1, <2>2 DEF WriteGeneration
<1> QED BY <1>5, <1>6, <1>8, <1>9, <1>10, <1>11

LEMMA BecomesCatalog ==
    ASSUME IInv, UNCHANGED <<release, snapshots, log>>, NEW e \in EventIds, NEW state,
           Becomes(e, state), job[e].state \in Unfinished,
           state \in Unfinished \/ ~Current(e),
           state = "running" => job[e].state = "running",
           \A v \in Workers : worker'[v] = worker[v] \/ worker'[v].pc \notin Projected
    PROVE  NoCatalog
BY Zenon, JobCatalog DEF Becomes

(* The steps of jobs that are no claim and give up no current event. *)
LEMMA JobStepCatalog ==
    ASSUME IInv,
           \/ \E w \in Workers : EnqueueOne(w) \/ RecoverExpiredLeases(w) \/ DeferJob(w)
           \/ \E e \in EventIds : LeaseExpires(e)
    PROVE  NoCatalog
<1>1. worker \in [Workers -> WorkerRecord] /\ job \in [EventIds -> JobRecord]
  BY TypeParts DEF IInv
<1>2. ASSUME NEW w \in Workers, NEW pc \in {"start", "down", "recover", "claim"}, Goto(w, pc)
      PROVE  \A v \in Workers : worker'[v] = worker[v] \/ worker'[v].pc \notin Projected
  BY <1>1, <1>2 DEF Goto, At, Projected
<1>3. ASSUME NEW w \in Workers, EnqueueOne(w) PROVE NoCatalog
  <2> DEFINE e == Head(outbox)
  <2>1. UNCHANGED <<release, snapshots, log>> /\ Goto(w, "recover")
    BY <1>3 DEF EnqueueOne
  <2>2. CASE UNCHANGED job
    BY Zenon, <1>2, <2>1, <2>2, JobCatalog
  <2>3. CASE outbox # << >> /\ job' = [job EXCEPT ![e].state = "queued"]
    <3> DEFINE O == {f \in EventIds : job[f].state = "outbox"}
    <3>1. outbox \in Seq(EventIds) /\ Lists(outbox, O)
      BY TypeParts DEF IInv, TypedOrders, OrdersInv
    <3>2. e \in O
      <4> HIDE DEF O
      <4> QED BY Zenon, <2>3, <3>1, TailLists
    <3>3. Becomes(e, "queued")
      BY Zenon, <2>3, <3>2, StateChanges DEF IInv, JobStates
    <3> HIDE DEF e
    <3> QED BY Zenon, <1>2, <2>1, <3>2, <3>3, BecomesCatalog DEF Unfinished
  <2> QED BY <1>3, <2>2, <2>3 DEF EnqueueOne
<1>4. ASSUME NEW w \in Workers, RecoverExpiredLeases(w) PROVE NoCatalog
  <2> DEFINE Expired == {e \in EventIds : job[e].state = "running" /\ job[e].expired}
  <2>1. /\ job' = [e \in EventIds |->
                     IF e \in Expired /\ job[e].attempts < MaxAttempts
                     THEN [job[e] EXCEPT !.state = "queued", !.expired = FALSE]
                     ELSE job[e]]
        /\ UNCHANGED <<release, snapshots, log>>
    BY Zenon, <1>4 DEF RecoverExpiredLeases
  <2>2. \A v \in Workers : worker'[v] = worker[v] \/ worker'[v].pc \notin Projected
    <3>1. CASE Goto(w, "claim")
      BY Zenon, <1>2, <3>1
    <3>2. ASSUME NEW e \in Expired,
                 worker' = [worker EXCEPT ![w] = [At("exhausted") EXCEPT
                        !.event = e, !.attempt = job[e].attempts, !.seq = job[e].seq]]
          PROVE  \A v \in Workers : worker'[v] = worker[v] \/ worker'[v].pc \notin Projected
      <4> DEFINE u == [At("exhausted") EXCEPT
                        !.event = e, !.attempt = job[e].attempts, !.seq = job[e].seq]
      <4>1. u.pc \notin Projected
        BY Zenon DEF At, Projected
      <4> HIDE DEF u
      <4> QED BY <1>1, <3>2, <4>1 DEF u
    <3> QED BY Zenon, <1>4, <3>1, <3>2 DEF RecoverExpiredLeases
  <2>3. ASSUME NEW f \in EventIds
        PROVE  \/ job'[f] = job[f]
               \/ /\ SameJob(job[f], job'[f]) /\ job[f].state \in Unfinished
                  /\ job'[f].state \in Unfinished /\ job'[f].state # "running"
    <3>1. CASE f \in Expired /\ job[f].attempts < MaxAttempts
      <4> DEFINE u == [job[f] EXCEPT !.state = "queued", !.expired = FALSE]
      <4>1. SameJob(job[f], u) /\ u.state = "queued"
        BY <1>1 DEF SameJob, JobRecord
      <4>2. job'[f] = u
        BY Zenon, <2>1, <3>1
      <4> HIDE DEF u
      <4> QED BY Zenon, <3>1, <4>1, <4>2 DEF Unfinished
    <3>2. CASE ~(f \in Expired /\ job[f].attempts < MaxAttempts)
      BY Zenon, <2>1, <3>2
    <3> QED BY Zenon, <3>1, <3>2
  <2> HIDE DEF Expired
  <2> QED BY Zenon, <2>1, <2>2, <2>3, JobCatalog
<1>5. ASSUME NEW w \in Workers, DeferJob(w) PROVE NoCatalog
  <2> DEFINE e == worker[w].event
  <2>1. worker[w].pc = "defer" /\ UNCHANGED <<release, snapshots, log>>
    BY <1>5 DEF DeferJob, EndAttempt
  <2>2. CASE LeaseHeld(w) /\ Goto(w, "start")
             /\ job' = [job EXCEPT ![e].state = "queued", ![e].expired = FALSE]
    <3>1. e \in EventIds /\ job[e].state = "running"
      BY <2>1, <2>2, HeldRuns DEF Attempting
    <3>2. Becomes(e, "queued")
      BY Zenon, <2>2, <3>1, StateChanges DEF IInv, JobStates
    <3> HIDE DEF e
    <3> QED BY <1>2, <2>1, <2>2, <3>1, <3>2, BecomesCatalog DEF Unfinished
  <2>3. CASE UNCHANGED job /\ Goto(w, "down")
    BY Zenon, <1>2, <2>1, <2>3, JobCatalog
  <2> QED BY <1>5, <2>2, <2>3 DEF DeferJob, EndAttempt
<1>6. ASSUME NEW e \in EventIds, LeaseExpires(e) PROVE NoCatalog
  <2>1. /\ job[e].state = "running" /\ job' = [job EXCEPT ![e].expired = TRUE]
        /\ UNCHANGED <<release, snapshots, log, worker>>
    BY <1>6 DEF LeaseExpires
  <2>2. Becomes(e, "running")
    BY Zenon, <1>1, <2>1 DEF Becomes, SameJob, JobRecord
  <2> QED BY <2>1, <2>2, BecomesCatalog DEF Unfinished
<1> QED BY <1>3, <1>4, <1>5, <1>6

(* An old lease is not taken up by a new claim: it has a higher number. *)
LEMMA ClaimCatalog ==
    ASSUME IInv, NEW w \in Workers, ClaimOne(w)
    PROVE  NoCatalog
<1> DEFINE e == Head(queue)
           seq == IF job[e].attempts = 0 THEN last_sequence + 1 ELSE job[e].seq
           n == job[e].attempts + 1
<1>1. UNCHANGED <<release, snapshots, log>>
  BY DEF ClaimOne
<1>2. worker \in [Workers -> WorkerRecord] /\ job \in [EventIds -> JobRecord]
  BY TypeParts DEF IInv
<1>3. CASE Goto(w, "start") /\ UNCHANGED job
  <2>1. \A v \in Workers : worker'[v] = worker[v] \/ worker'[v].pc \notin Projected
    BY <1>2, <1>3 DEF Goto, At, Projected
  <2> QED BY <1>1, <1>3, <2>1, JobCatalog
<1>4. CASE /\ queue # << >> /\ \A f \in EventIds : job[f].state # "running"
           /\ job' = [job EXCEPT ![e].state = "running", ![e].seq = seq, ![e].attempts = @ + 1]
           /\ worker' = [worker EXCEPT ![w] = [At("source") EXCEPT
                             !.event = e, !.attempt = n, !.seq = seq]]
  <2> DEFINE Q == {f \in EventIds : job[f].state \in {"queued", "running"}}
  <2>1. e \in EventIds /\ job[e].state = "queued" /\ job[e].attempts \in Nat
    <3>1. queue \in Seq(EventIds) /\ Lists(queue, Q)
      BY TypeParts DEF IInv, TypedOrders, OrdersInv
    <3>2. e \in Q
      <4> HIDE DEF Q
      <4> QED BY Zenon, <1>4, <3>1, TailLists
    <3> QED BY <1>2, <1>4, <3>2, JobFields
  <2> HIDE DEF e, seq
  <2> DEFINE u == [job[e] EXCEPT !.state = "running", !.seq = seq, !.attempts = n]
             x == [At("source") EXCEPT !.event = e, !.attempt = n, !.seq = seq]
  <2>2. /\ u.state = "running" /\ u.attempts = n
        /\ u.kind = job[e].kind /\ u.release = job[e].release /\ u.version = job[e].version
        /\ u.source = job[e].source
    BY <1>2, <2>1 DEF JobRecord
  <2>3. x.pc = "source"
    BY DEF At
  <2>4. job'[e] = u /\ \A f \in EventIds \ {e} : job'[f] = job[f]
    <3>1. job' = [job EXCEPT ![e] = u]
      BY Zenon, <1>2, <1>4, <2>1
    <3> HIDE DEF u
    <3> QED BY <1>2, <2>1, <3>1
  <2>5. worker'[w].pc = "source" /\ \A v \in Workers \ {w} : worker'[v] = worker[v]
    <3>1. worker' = [worker EXCEPT ![w] = x]
      BY Zenon, <1>4
    <3> HIDE DEF x
    <3> QED BY <1>2, <2>3, <3>1
  <2> HIDE DEF u, x, Q
  <2>6. ASSUME NEW v \in Workers PROVE Reads(v)
    <3> SUFFICES ASSUME NEW f \in EventIds, NEW target \in Releases \cup {NoRelease},
                        Held(v, f, target)'
                 PROVE  FALSE
      BY Zenon DEF Reads
    <3>1. v # w
      BY Zenon, <2>5 DEF Held, Projected
    <3>2. worker'[v] = worker[v]
      BY Zenon, <2>5, <3>1
    <3>3. worker[v].pc \in Attempting /\ worker[v].event = f
      BY Zenon, <3>2 DEF Held, Projected, Attempting
    <3>4. job'[f].state = "running" /\ job'[f].attempts = worker[v].attempt
      BY Zenon, <3>2, <3>3 DEF Held, LeaseHeld, Job
    <3>5. f = e
      BY <1>4, <2>4, <3>4
    <3>6. worker[v].attempt \in 1 .. job[e].attempts
      BY Zenon, <3>3, <3>5 DEF IInv, WorkersInv, WorkerInv, Job
    <3> QED BY <2>1, <2>2, <2>4, <3>4, <3>5, <3>6
  <2>7. ASSUME NEW r \in Releases PROVE Kept(r)
    <3>1. ASSUME NEW f \in EventIds, Announces(f, r) PROVE Announces(f, r)'
      <4>1. /\ job'[f].state \in Unfinished /\ job'[f].release = job[f].release
            /\ job'[f].version = job[f].version /\ job'[f].source = job[f].source
        BY Zenon, <2>2, <2>4, <3>1 DEF Announces, Unfinished
      <4> QED BY Zenon, <1>1, <3>1, <4>1 DEF Announces, Current
    <3> QED BY Zenon, <1>1, <3>1 DEF Kept, Published
  <2>8. \A f \in EventIds : job[f].state = "failed" => job'[f].state = "failed"
    BY Zenon, <2>1, <2>4
  <2> QED BY <1>1, <2>6, <2>7, <2>8 DEF NoCatalog
<1> QED BY <1>3, <1>4 DEF ClaimOne

(* One job runs at a time: when it ends no worker holds a lease. *)
LEMMA NoneRuns ==
    ASSUME IInv, NEW e \in EventIds, job[e].state = "running", NEW state,
           Becomes(e, state), state # "running"
    PROVE  HeldProjection'
<1>1. \A f \in EventIds : job'[f].state # "running"
  BY Zenon DEF Becomes, IInv, PublicationRecorded, SequencesNotReused
<1>2. ASSUME NEW w \in Workers, NEW f \in EventIds, NEW target, Held(w, f, target)' PROVE FALSE
  BY Zenon, <1>1, <1>2 DEF Held, LeaseHeld, Job
<1> QED BY Zenon, <1>2 DEF HeldProjection

(* A job that ends as superseded was of an event that announced nothing. *)
LEMMA SupersedeCatalog ==
    ASSUME CInv, NEW w \in Workers, NEW e \in EventIds, job[e].state = "running", ~Current(e),
           Finish(e, "superseded"), Goto(w, "start"), UNCHANGED <<release, snapshots, log>>
    PROVE  HeldProjection' /\ LastCatalog'
<1>1. Becomes(e, "superseded")
  BY Zenon, FinishLeaves DEF CInv
<1>2. \A v \in Workers : worker'[v] = worker[v] \/ worker'[v].pc \notin Projected
  BY Zenon, GotoMoves DEF CInv, IInv, Steps, Moves, Projected
<1> QED BY Zenon, <1>1, <1>2, BecomesCatalog, NoCatalogKeeps DEF CInv, Unfinished

LEMMA DownCatalog ==
    ASSUME CInv, NEW w \in Workers, Goto(w, "down"), UNCHANGED <<release, job, snapshots, log>>
    PROVE  HeldProjection' /\ LastCatalog'
<1>1. \A v \in Workers : worker'[v] = worker[v] \/ worker'[v].pc \notin Projected
  BY Zenon, GotoMoves DEF CInv, IInv, Steps, Moves, Projected
<1> QED BY Zenon, <1>1, JobCatalog, NoCatalogKeeps DEF CInv

LEMMA FinishSupersededCatalog ==
    ASSUME CInv, NEW w \in Workers, FinishSuperseded(w)
    PROVE  HeldProjection' /\ LastCatalog'
<1> DEFINE e == worker[w].event
<1>1. worker[w].pc = "supersede" /\ UNCHANGED <<release, snapshots, log>>
  BY DEF FinishSuperseded, EndAttempt
<1>2. CASE LeaseHeld(w) /\ Finish(e, "superseded") /\ Goto(w, "start")
  <2>1. e \in EventIds /\ job[e].state = "running"
    BY Zenon, <1>1, <1>2, HeldRuns DEF Attempting, CInv
  <2>2. ~Current(e)
    BY Zenon, <1>1, <2>1, OutdatedOrCurrent DEF CInv, IInv, WorkersInv, WorkerInv
  <2> HIDE DEF e
  <2> QED BY Zenon, <1>1, <1>2, <2>1, <2>2, SupersedeCatalog
<1>3. CASE UNCHANGED job /\ Goto(w, "down")
  BY Zenon, <1>1, <1>3, DownCatalog
<1> QED BY <1>2, <1>3 DEF FinishSuperseded, EndAttempt

(* A current event that is given up has failed for good. *)
LEMMA FinishFailedCatalog ==
    ASSUME CInv, NEW w \in Workers, FinishFailed(w)
    PROVE  HeldProjection' /\ LastCatalog'
<1> DEFINE e == worker[w].event
<1>1. worker[w].pc \in {"fail", "exhausted"} /\ UNCHANGED <<snapshots, log>>
  BY Zenon DEF FinishFailed, EndAttempt
<1>2. CASE UNCHANGED <<release, job>> /\ Goto(w, "down")
  BY <1>1, <1>2, DownCatalog
<1>3. CASE /\ LeaseHeld(w) /\ Goto(w, "start") /\ (~Current(e) => UNCHANGED release)
           /\ Finish(e, IF Current(e) THEN "failed" ELSE "superseded")
  <2>1. e \in EventIds /\ job[e].state = "running"
    BY Zenon, <1>1, <1>3, HeldRuns DEF Attempting, CInv
  <2> HIDE DEF e
  <2>2. CASE ~Current(e)
    BY Zenon, <1>1, <1>3, <2>1, <2>2, SupersedeCatalog
  <2>3. CASE Current(e)
    <3>1. Becomes(e, "failed")
      BY Zenon, <1>3, <2>1, <2>3, FinishLeaves DEF CInv
    <3>2. ~NoneFailed'
      BY <2>1, <3>1 DEF NoneFailed, Becomes
    <3> QED BY Zenon, <2>1, <3>1, <3>2, NoneRuns DEF LastCatalog, CInv
  <2> QED BY Zenon, <2>2, <2>3
<1> QED BY Zenon, <1>2, <1>3 DEF FinishFailed, EndAttempt

(* The Catalog of a publication is the projection without a target, once   *)
(* the release has the highest sequence.                                   *)
LEMMA PublishedProjection ==
    ASSUME IInv, NEW p \in Releases, NEW seq \in Nat \ {0}, release[p].seq = 0,
           \A n \in Committed : n < seq,
           release'[p].state = "published", release'[p].seq = seq,
           \A q \in Releases \ {p} : release'[q] = release[q],
           NEW r \in Releases
    PROVE  r \in Projection(p) <=> r \in Projection(NoRelease)'
<1>1. p # NoRelease /\ r # NoRelease
  BY Zenon, PublisherAssumption
<1>2. \A q \in Releases : release[q].seq \in Nat /\ (release[q].seq # 0 => release[q].seq < seq)
  BY Zenon, TypeParts DEF IInv, ReleaseRecord, PublicationRecorded, PublishedWasCommitted
<1> DEFINE Latest == /\ release[r].seq # 0
                     /\ \A q \in Releases : release[q].seq # 0 /\ AppOf[q] = AppOf[r] =>
                           release[q].seq <= release[r].seq
<1>3. r \in Projection(p) <=> r = p \/ (Latest /\ Published(r) /\ AppOf[r] # AppOf[p])
  BY Zenon, <1>1 DEF Projection
<1>4. r \in Projection(NoRelease)' <=>
        /\ release'[r].seq # 0
        /\ \A q \in Releases : release'[q].seq # 0 /\ AppOf[q] = AppOf[r] =>
              release'[q].seq <= release'[r].seq
        /\ release'[r].state = "published"
  BY Zenon, <1>1 DEF Projection, Published
<1>5. CASE r = p
  <2>1. \A q \in Releases : release'[q].seq # 0 => release'[q].seq <= seq
    BY <1>2
  <2> QED BY Zenon, <1>3, <1>4, <1>5, <2>1
<1>6. CASE r # p
  <2>1. release'[r] = release[r]
    BY Zenon, <1>6
  <2>2. CASE AppOf[r] = AppOf[p]
    <3>1. release[r].seq # 0 => ~(release'[p].seq <= release[r].seq)
      BY <1>2
    <3> QED BY Zenon, <1>3, <1>4, <1>6, <2>1, <2>2, <3>1
  <2>3. CASE AppOf[r] # AppOf[p]
    <3>1. \A q \in Releases : AppOf[q] = AppOf[r] => release'[q] = release[q]
      BY <2>3
    <3> QED BY Zenon, <1>3, <1>4, <1>6, <2>1, <2>3, <3>1 DEF Published
  <2> QED BY Zenon, <2>2, <2>3
<1> QED BY <1>5, <1>6

LEMMA CommitCatalog ==
    ASSUME CInv, NEW w \in Workers, CommitPublication(w)
    PROVE  HeldProjection' /\ LastCatalog'
<1> DEFINE e == worker[w].event
           r == job[e].release
<1>1. worker[w].pc = "commit" /\ IInv
  BY Zenon DEF CommitPublication, CInv
<1>2. CASE Goto(w, "down") /\ UNCHANGED <<release, job, snapshots, log>>
  BY <1>2, DownCatalog
<1>3. CASE /\ LeaseHeld(w) /\ ~Current(e) /\ Finish(e, "superseded") /\ Goto(w, "start")
           /\ UNCHANGED <<release, snapshots, log>>
  <2>1. e \in EventIds /\ job[e].state = "running"
    BY Zenon, <1>1, <1>3, HeldRuns DEF Attempting
  <2> HIDE DEF e
  <2> QED BY <1>3, <2>1, SupersedeCatalog
<1>4. CASE /\ LeaseHeld(w) /\ Current(e)
           /\ snapshots' = snapshots \cup {Prepared(w)}
           /\ log' = Append(log, worker[w].seq)
           /\ Finish(e, "completed")
           /\ release' = IF job[e].kind = "publish-release"
                         THEN [release EXCEPT ![r].state = "published",
                                 ![r].version = @ + 1, ![r].seq = worker[w].seq]
                         ELSE release
  <2>1. /\ e \in EventIds /\ job[e].state = "running" /\ job[e].seq = worker[w].seq
        /\ worker[w].seq \in Nat \ {0}
    BY Zenon, <1>1, <1>4, HeldRuns, WorkerTypes DEF Attempting
  <2>2. /\ r \in Releases /\ \A q \in Releases : q # Target(e) => release'[q] = release[q]
        /\ job[e].kind = "publish-release" =>
              /\ release[r].state = "publishing" /\ release[r].seq = 0
              /\ release'[r].state = "published" /\ release'[r].seq = worker[w].seq
    BY Zenon, <1>1, <1>4, <2>1, CommitReleases
  <2>3. Held(w, e, Target(e)) /\ Target(e) \in Releases \cup {NoRelease}
    BY Zenon, <1>1, <1>4, <2>2 DEF Held, Projected, Target
  <2>4. Becomes(e, "completed")
    BY Zenon, <1>1, <1>4, <2>1, FinishLeaves
  <2>5. HeldProjection'
    BY <1>1, <2>1, <2>4, NoneRuns
  <2>6. worker[w].seq \notin Committed
    BY <1>1, <2>1, SequenceIsNew
  <2>7. /\ log \in Seq(Nat) /\ Committed = {log[i] : i \in DOMAIN log} /\ Committed \in SUBSET Nat
        /\ log' # << >> /\ log'[Len(log')] = worker[w].seq
        /\ DOMAIN log' = 1 .. Len(log) + 1 /\ DOMAIN log = 1 .. Len(log) /\ Len(log) \in Nat
        /\ \A i \in DOMAIN log : log'[i] = log[i]
    <3>1. log \in Seq(Nat) /\ Committed \in SUBSET Nat
      BY <1>1, TypeParts, CommittedBounded DEF IInv, TypedLog
    <3>2. Committed = {log[i] : i \in DOMAIN log}
      BY <1>1 DEF IInv, SnapshotsInv
    <3>3. log' = Append(log, worker[w].seq) /\ worker[w].seq \in Nat
      BY Zenon, <1>4, <2>1
    <3>4. /\ log' # << >> /\ log'[Len(log')] = worker[w].seq
          /\ DOMAIN log' = 1 .. Len(log) + 1 /\ DOMAIN log = 1 .. Len(log) /\ Len(log) \in Nat
          /\ \A i \in DOMAIN log : log'[i] = log[i]
      BY <3>1, <3>3
    <3> QED BY Zenon, <3>1, <3>2, <3>4
  <2>8. Prepared(w).seq = worker[w].seq /\ Prepared(w).apps = worker[w].apps
    BY DEF Prepared
  <2> HIDE DEF e, r
  <2>9. ASSUME InOrder', NEW q \in Releases
        PROVE  (q \in worker[w].apps <=> q \in Projection(NoRelease)') \/ Announced(q, {})'
    <3>1. (q \in worker[w].apps <=> q \in Projection(Target(e))) \/ Announced(q, {e})
      BY Zenon, <2>1, <2>3 DEF CInv, HeldProjection
    <3>2. CASE Announced(q, {e})
      <4>1. PICK f \in EventIds \ {e} : Announces(f, q)
        BY <3>2, AnnouncedBy
      <4>2. job'[f] = job[f]
        BY Zenon, <2>4, <4>1 DEF Becomes
      <4>3. release'[q] = release[q]
        <5> SUFFICES ASSUME q = Target(e) PROVE FALSE
          BY Zenon, <2>2
        <5>1. job[e].kind = "publish-release" /\ q = r
          BY Zenon, PublisherAssumption DEF Target, r
        <5>2. Emitted(f)
          BY Zenon, <1>1, <4>1 DEF IInv, JobsInv, Announces, Unfinished
        <5>3. job[f].kind = "publish-release"
          BY Zenon, <2>2, <4>1, <5>1, <5>2 DEF Announces, Current, Emitted
        <5>4. job[f].release = job[e].release /\ job[f].version = job[e].version
          BY Zenon, <1>4, <4>1, <5>1 DEF Announces, Current, r
        <5> QED BY Zenon, <1>1, <2>1, <4>1, <5>1, <5>3, <5>4 DEF IInv, OnePublication
      <4>4. Announces(f, q)'
        BY Zenon, <4>1, <4>2, <4>3 DEF Announces, Current
      <4> QED BY Zenon, <4>1, <4>4, AnnouncedBy
    <3>3. CASE q \in worker[w].apps <=> q \in Projection(Target(e))
      <4>1. CASE job[e].kind # "publish-release"
        <5>1. Target(e) = NoRelease /\ release' = release
          BY <1>4, <4>1 DEF Target
        <5>2. Projection(NoRelease)' = Projection(NoRelease)
          BY <5>1 DEF Projection, Published
        <5> QED BY <3>3, <5>1, <5>2
      <4>2. CASE job[e].kind = "publish-release"
        <5>1. Target(e) = r
          BY Zenon, <4>2 DEF Target, r
        <5>2. \A n \in Committed : n < worker[w].seq
          <6> TAKE n \in Committed
          <6>1. PICK i \in DOMAIN log : n = log[i]
            BY <2>7
          <6>2. i \in DOMAIN log' /\ Len(log) + 1 \in DOMAIN log' /\ i < Len(log) + 1
            BY <2>7
          <6>3. log'[Len(log) + 1] = worker[w].seq
            BY <1>4, <2>1, <2>7
          <6> QED BY Zenon, <2>7, <2>9, <6>1, <6>2, <6>3 DEF InOrder
        <5>3. q \in Projection(r) <=> q \in Projection(NoRelease)'
          <6>1. \E p \in Releases : p = r
            BY <2>2
          <6>2. PICK p \in Releases : p = r
            BY Zenon, <6>1
          <6>3. q \in Projection(p) <=> q \in Projection(NoRelease)'
            BY Zenon, <1>1, <2>1, <2>2, <4>2, <5>1, <5>2, <6>2, PublishedProjection
          <6> QED BY <6>2, <6>3
        <5> QED BY Zenon, <3>3, <5>1, <5>3
      <4> QED BY <4>1, <4>2
    <3> QED BY Zenon, <3>1, <3>2, <3>3
  <2>10. LastCatalog'
    <3> SUFFICES ASSUME InOrder', NEW s \in snapshots', s.seq = log'[Len(log')], NEW q \in Releases
                 PROVE  (q \in s.apps <=> q \in Projection(NoRelease)') \/ Announced(q, {})'
      BY Zenon DEF LastCatalog
    <3>1. s = Prepared(w)
      BY <1>4, <2>6, <2>7 DEF Committed
    <3> QED BY Zenon, <2>8, <2>9, <3>1
  <2> QED BY <2>5, <2>10
<1> QED BY Zenon, <1>2, <1>3, <1>4 DEF CommitPublication

LEMMA StepCatalog ==
    ASSUME CInv, [Next]_vars
    PROVE  HeldProjection' /\ LastCatalog'
<1>1. CASE UNCHANGED vars
  <2>1. UNCHANGED <<release, job, snapshots, log, worker>>
    BY <1>1 DEF vars, database
  <2> QED BY Zenon, <2>1, JobCatalog, NoCatalogKeeps DEF CInv
<1>2. CASE Control
  BY <1>2, ControlCatalog, NoCatalogKeeps DEF CInv
<1>3. ASSUME NEW w \in Workers, Work(w) PROVE HeldProjection' /\ LastCatalog'
  <2>1. CASE \/ Open(w) \/ ReconcileRead(w) \/ ReconcileSwitch(w) \/ SwitchCommitted(w)
             \/ LoadReleaseSource(w) \/ PreparePublication(w)
             \/ LoadEditorial(w) \/ CheckBindings(w) \/ PrepareTransparency(w) \/ WriteGeneration(w)
    BY <2>1, WorkerStepCatalog, NoCatalogKeeps DEF CInv
  <2>2. CASE EnqueueOne(w) \/ RecoverExpiredLeases(w) \/ DeferJob(w)
    BY <2>2, JobStepCatalog, NoCatalogKeeps DEF CInv
  <2>3. CASE ClaimOne(w)
    BY <2>3, ClaimCatalog, NoCatalogKeeps DEF CInv
  <2>4. CASE CommitPublication(w) \/ FinishSuperseded(w) \/ FinishFailed(w)
    BY <2>4, CommitCatalog, FinishSupersededCatalog, FinishFailedCatalog
  <2> QED BY <1>3, <2>1, <2>2, <2>3, <2>4 DEF Work
<1>4. ASSUME NEW w \in Workers, Crash(w) PROVE HeldProjection' /\ LastCatalog'
  BY <1>4, WorkerStepCatalog, NoCatalogKeeps DEF CInv
<1>5. ASSUME NEW e \in EventIds, LeaseExpires(e) PROVE HeldProjection' /\ LastCatalog'
  BY Zenon, <1>5, JobStepCatalog, NoCatalogKeeps DEF CInv
<1> QED BY Zenon, <1>1, <1>2, <1>3, <1>4, <1>5 DEF Next

(* In order, the newest Catalog is the one committed last. *)
LEMMA CatalogUpToDate == CInv => CatalogCatchesUp
<1> SUFFICES ASSUME CInv, Quiescent, InOrder, snapshots # {}, NoneFailed,
                    NEW s \in snapshots, s.seq = Highest(Committed)
             PROVE  s.apps = Projection(NoRelease)
  BY DEF CatalogCatchesUp, NoneFailed
<1>1. IInv
  BY DEF CInv
<1>2. /\ Committed \in SUBSET Nat /\ last_sequence \in Nat /\ Committed # {}
      /\ \A n \in Committed : n <= last_sequence
  BY <1>1, CommittedBounded DEF Committed
<1>3. Highest(Committed) \in Committed /\ \A m \in Committed : m <= Highest(Committed)
  BY Zenon, <1>1, HighestExists
<1>4. log \in Seq(Nat) /\ Committed = {log[i] : i \in DOMAIN log}
  BY Zenon, <1>1, TypeParts DEF IInv, TypedLog, SnapshotsInv
<1>5. PICK i \in DOMAIN log : Highest(Committed) = log[i]
  BY Zenon, <1>3, <1>4
<1>6. DOMAIN log = 1 .. Len(log) /\ Len(log) \in DOMAIN log /\ log # << >> /\ i \in 1 .. Len(log)
  BY <1>4, <1>5
<1>7. log[Len(log)] \in Committed /\ log[Len(log)] \in Nat /\ log[i] \in Nat
  BY <1>2, <1>4, <1>5, <1>6
<1>8. i = Len(log)
  <2>1. ~(i < Len(log))
    BY <1>3, <1>5, <1>6, <1>7 DEF InOrder
  <2> QED BY <1>4, <1>6, <2>1
<1>9. ASSUME NEW r \in Releases PROVE r \in s.apps <=> r \in Projection(NoRelease)
  <2>1. ~Announced(r, {})
    BY Zenon DEF Announced, Quiescent, Unfinished
  <2> QED BY Zenon, <1>5, <1>6, <1>8, <2>1 DEF CInv, LastCatalog
<1>10. s.apps \subseteq Releases
  BY <1>1, TypeParts DEF IInv, TypedLog, Contents
<1>11. Projection(NoRelease) \subseteq Releases
  BY ProjectionOf
<1> QED BY Zenon, <1>9, <1>10, <1>11

(* The newest Catalog lists exactly the published releases, the latest of  *)
(* each application, whenever every request of the control server has been *)
(* handled, none was given up and the Catalogs were committed in the order *)
(* of their sequences: for any number of releases, events, workers and     *)
(* attempts, although an attempt reads the releases, the layout and the    *)
(* log at different moments and changes are announced meanwhile.           *)
THEOREM CatalogIsUpToDate == Spec => []CatalogCatchesUp
<1>1. Init => CInv
  <2> SUFFICES ASSUME Init PROVE CInv
    OBVIOUS
  <2>1. HeldProjection /\ LastCatalog
    BY Zenon DEF Init, HeldProjection, LastCatalog, Held, At, Projected
  <2> QED BY Zenon, <2>1, InitKeeps DEF CInv
<1>2. CInv /\ [Next]_vars => CInv'
  <2> SUFFICES ASSUME CInv, [Next]_vars PROVE CInv'
    OBVIOUS
  <2>1. IInv'
    BY StepKeeps DEF CInv
  <2>2. HeldProjection' /\ LastCatalog'
    BY StepCatalog
  <2> QED BY <2>1, <2>2 DEF CInv
<1>3. CInv => CatalogCatchesUp
  BY CatalogUpToDate
<1> QED BY <1>1, <1>2, <1>3, PTL DEF Spec
=============================================================================
