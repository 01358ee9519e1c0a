------------------------ MODULE PackageInstallProofs ------------------------
(***************************************************************************)
(* The registry of installed packages is sound for any number of           *)
(* applications, versions, accounts and rollback versions: no account      *)
(* changes hands, validate never refuses what the code built, and what the *)
(* registry offers has its files (PackagesSound).                          *)
(***************************************************************************)
EXTENDS PackageInstall, TLAPS

(* Two sequences joined. *)
LEMMA Joined ==
    ASSUME NEW S, NEW a \in Seq(S), NEW b \in Seq(S)
    PROVE  /\ a \o b \in Seq(S)
           /\ Len(a \o b) = Len(a) + Len(b)
           /\ \A j \in 1 .. (Len(a) + Len(b)) :
                 (a \o b)[j] = IF j <= Len(a) THEN a[j] ELSE b[j - Len(a)]
OBVIOUS

(* What RemoveAt leaves: the other elements, in their order. *)
LEMMA RemoveAtElements ==
    ASSUME NEW S, NEW s \in Seq(S), NEW i \in 1 .. Len(s)
    PROVE  /\ RemoveAt(s, i) \in Seq(S)
           /\ Len(RemoveAt(s, i)) = Len(s) - 1
           /\ \A j \in 1 .. (Len(s) - 1) : RemoveAt(s, i)[j] = s[IF j < i THEN j ELSE j + 1]
<1> DEFINE a == SubSeq(s, 1, i - 1)
           b == SubSeq(s, i + 1, Len(s))
<1>1. a \in Seq(S) /\ Len(a) = i - 1 /\ \A j \in 1 .. (i - 1) : a[j] = s[j]
  OBVIOUS
<1>2. b \in Seq(S) /\ Len(b) = Len(s) - i /\ \A j \in 1 .. (Len(s) - i) : b[j] = s[i + j]
  OBVIOUS
<1>3. RemoveAt(s, i) = a \o b
  BY DEF RemoveAt
<1> HIDE DEF a, b
<1>4. /\ a \o b \in Seq(S)
      /\ Len(a \o b) = Len(a) + Len(b)
      /\ \A j \in 1 .. (Len(a) + Len(b)) :
            (a \o b)[j] = IF j <= Len(a) THEN a[j] ELSE b[j - Len(a)]
  BY Zenon, <1>1, <1>2, Joined
<1>5. i \in Nat /\ Len(s) \in Nat
  OBVIOUS
<1>6. ASSUME NEW j \in 1 .. (Len(s) - 1)
      PROVE  (a \o b)[j] = s[IF j < i THEN j ELSE j + 1]
  <2>1. CASE j < i
    BY <1>1, <1>2, <1>4, <1>5, <2>1
  <2>2. CASE ~(j < i)
    <3>1. j - Len(a) \in 1 .. (Len(s) - i) /\ i + (j - Len(a)) = j + 1
      BY <1>1, <1>5, <2>2
    <3>2. (a \o b)[j] = b[j - Len(a)]
      BY <1>1, <1>2, <1>4, <1>5, <2>2
    <3>3. b[j - Len(a)] = s[i + (j - Len(a))]
      BY <1>2, <3>1
    <3> QED BY <2>2, <3>1, <3>2, <3>3
  <2> QED BY Zenon, <2>1, <2>2
<1> QED BY <1>1, <1>2, <1>3, <1>4, <1>5, <1>6

(* What RemoveFirst leaves of a sequence without repetitions. *)
LEMMA RemoveFirstElements ==
    ASSUME NEW S, NEW s \in Seq(S), IsInjective(s), NEW x
    PROVE  /\ RemoveFirst(s, x) \in Seq(S)
           /\ Len(RemoveFirst(s, x)) <= Len(s)
           /\ IsInjective(RemoveFirst(s, x))
           /\ ToSet(RemoveFirst(s, x)) = ToSet(s) \ {x}
<1>1. DOMAIN s = 1 .. Len(s) /\ Len(s) \in Nat /\ \A i \in 1 .. Len(s) : s[i] \in S
  OBVIOUS
<1>2. CASE ~\E i \in 1 .. Len(s) : s[i] = x
  <2>1. RemoveFirst(s, x) = s
    BY <1>2 DEF RemoveFirst
  <2> QED BY <1>1, <1>2, <2>1 DEF ToSet
<1>3. ASSUME NEW i \in 1 .. Len(s), s[i] = x
      PROVE  /\ RemoveFirst(s, x) \in Seq(S)
             /\ Len(RemoveFirst(s, x)) <= Len(s)
             /\ IsInjective(RemoveFirst(s, x))
             /\ ToSet(RemoveFirst(s, x)) = ToSet(s) \ {x}
  <2>1. \A j \in 1 .. Len(s) : s[j] = x <=> j = i
    BY <1>1, <1>3 DEF IsInjective
  <2>2. {j \in 1 .. Len(s) : s[j] = x} = {i}
    BY <2>1
  <2>3. Min({i}) = i
    BY DEF Min
  <2>4. RemoveFirst(s, x) = RemoveAt(s, i)
    BY Zenon, <1>3, <2>2, <2>3 DEF RemoveFirst, SelectInSeq
  <2> DEFINE t == RemoveAt(s, i)
  <2>5. /\ t \in Seq(S) /\ Len(t) = Len(s) - 1
        /\ \A j \in 1 .. (Len(s) - 1) : t[j] = s[IF j < i THEN j ELSE j + 1]
    BY RemoveAtElements
  <2> HIDE DEF t
  <2>6. DOMAIN t = 1 .. (Len(s) - 1)
    BY <2>5
  <2>7. IsInjective(t)
    <3> SUFFICES ASSUME NEW j \in 1 .. (Len(s) - 1), NEW k \in 1 .. (Len(s) - 1), t[j] = t[k]
                 PROVE  j = k
      BY <2>6 DEF IsInjective
    <3>1. (IF j < i THEN j ELSE j + 1) = (IF k < i THEN k ELSE k + 1)
      <4>1. s[IF j < i THEN j ELSE j + 1] = s[IF k < i THEN k ELSE k + 1]
        BY <2>5
      <4>2. (IF j < i THEN j ELSE j + 1) \in DOMAIN s /\ (IF k < i THEN k ELSE k + 1) \in DOMAIN s
        BY <1>1
      <4> QED BY Zenon, <4>1, <4>2 DEF IsInjective
    <3> QED BY <3>1, <1>1
  <2>8. ToSet(t) \subseteq ToSet(s) \ {x}
    <3> SUFFICES ASSUME NEW j \in 1 .. (Len(s) - 1) PROVE t[j] \in ToSet(s) /\ t[j] # x
      BY <2>6 DEF ToSet
    <3>1. /\ (IF j < i THEN j ELSE j + 1) \in 1 .. Len(s)
          /\ (IF j < i THEN j ELSE j + 1) # i
      BY <1>1
    <3>2. t[j] = s[IF j < i THEN j ELSE j + 1]
      BY <2>5
    <3> QED BY Zenon, <1>1, <2>1, <3>1, <3>2 DEF ToSet
  <2>9. ToSet(s) \ {x} \subseteq ToSet(t)
    <3> SUFFICES ASSUME NEW j \in 1 .. Len(s), s[j] # x PROVE \E k \in 1 .. (Len(s) - 1) : t[k] = s[j]
      BY <1>1, <2>6 DEF ToSet
    <3>1. j # i
      BY <1>3
    <3>2. CASE j < i
      BY <1>1, <2>5, <3>2
    <3>3. CASE j > i
      <4>1. j - 1 \in 1 .. (Len(s) - 1) /\ ~(j - 1 < i) /\ (j - 1) + 1 = j
        BY <1>1, <3>3
      <4> QED BY Zenon, <2>5, <4>1
    <3> QED BY <1>1, <3>1, <3>2, <3>3
  <2> QED BY <1>1, <2>4, <2>5, <2>7, <2>8, <2>9 DEF t
<1> QED BY <1>2, <1>3

(* An element put in front of a sequence. *)
LEMMA PrependElements ==
    ASSUME NEW S, NEW s \in Seq(S), NEW x \in S
    PROVE  /\ <<x>> \o s \in Seq(S)
           /\ Len(<<x>> \o s) = Len(s) + 1
           /\ ToSet(<<x>> \o s) = ToSet(s) \cup {x}
           /\ IsInjective(s) /\ x \notin ToSet(s) => IsInjective(<<x>> \o s)
<1> DEFINE t == <<x>> \o s
<1>1. /\ t \in Seq(S) /\ Len(t) = Len(s) + 1 /\ DOMAIN t = 1 .. (Len(s) + 1)
      /\ t[1] = x /\ \A j \in 2 .. (Len(s) + 1) : t[j] = s[j - 1]
  OBVIOUS
<1>2. DOMAIN s = 1 .. Len(s) /\ Len(s) \in Nat
  OBVIOUS
<1> HIDE DEF t
<1>3. ToSet(t) \subseteq ToSet(s) \cup {x}
  <2> SUFFICES ASSUME NEW j \in 1 .. (Len(s) + 1) PROVE t[j] \in ToSet(s) \cup {x}
    BY <1>1 DEF ToSet
  <2>1. j = 1 \/ (j \in 2 .. (Len(s) + 1) /\ j - 1 \in DOMAIN s)
    BY <1>2
  <2> QED BY <1>1, <2>1 DEF ToSet
<1>4. ToSet(s) \cup {x} \subseteq ToSet(t)
  <2>1. x \in ToSet(t)
    BY <1>1, <1>2 DEF ToSet
  <2>2. ASSUME NEW j \in 1 .. Len(s) PROVE s[j] \in ToSet(t)
    <3>1. j + 1 \in DOMAIN t /\ t[j + 1] = s[j]
      BY <1>1, <1>2
    <3> QED BY <3>1 DEF ToSet
  <2> QED BY <1>2, <2>1, <2>2 DEF ToSet
<1>5. ASSUME IsInjective(s), x \notin ToSet(s) PROVE IsInjective(t)
  <2> SUFFICES ASSUME NEW j \in 1 .. (Len(s) + 1), NEW k \in 1 .. (Len(s) + 1), t[j] = t[k], j < k
               PROVE  FALSE
    BY <1>1, <1>2 DEF IsInjective
  <2>1. k \in 2 .. (Len(s) + 1) /\ k - 1 \in DOMAIN s /\ t[k] = s[k - 1]
    BY <1>1, <1>2
  <2>2. CASE j = 1
    BY <1>1, <1>5, <2>1, <2>2 DEF ToSet
  <2>3. CASE j # 1
    <3>1. j \in 2 .. (Len(s) + 1) /\ j - 1 \in DOMAIN s /\ t[j] = s[j - 1]
      BY <1>1, <1>2, <2>3
    <3>2. j - 1 = k - 1
      BY Zenon, <1>5, <2>1, <3>1 DEF IsInjective
    <3> QED BY <3>1, <3>2, <1>2
  <2> QED BY <2>2, <2>3
<1> QED BY <1>1, <1>3, <1>4, <1>5 DEF t

(* The beginning of a sequence. *)
LEMMA PrefixElements ==
    ASSUME NEW S, NEW s \in Seq(S), NEW n \in 0 .. Len(s)
    PROVE  /\ SubSeq(s, 1, n) \in Seq(S)
           /\ Len(SubSeq(s, 1, n)) = n
           /\ ToSet(SubSeq(s, 1, n)) \subseteq ToSet(s)
           /\ IsInjective(s) => IsInjective(SubSeq(s, 1, n))
<1> DEFINE t == SubSeq(s, 1, n)
<1>1. /\ t \in Seq(S) /\ Len(t) = n /\ DOMAIN t = 1 .. n /\ \A j \in 1 .. n : t[j] = s[j]
  OBVIOUS
<1>2. DOMAIN s = 1 .. Len(s) /\ 1 .. n \subseteq 1 .. Len(s)
  OBVIOUS
<1> HIDE DEF t
<1>3. ToSet(t) \subseteq ToSet(s)
  BY <1>1, <1>2 DEF ToSet
<1>4. IsInjective(s) => IsInjective(t)
  BY <1>1, <1>2 DEF IsInjective
<1> QED BY <1>1, <1>3, <1>4 DEF t

-----------------------------------------------------------------------------
(* An account that reached the file is the one in memory: a failed save    *)
(* leaves memory ahead of the file, never beside it.                       *)
AccountsAgree ==
    \A a \in Apps : disk.apps[a].account_id # 0 =>
        registry.apps[a].account_id = disk.apps[a].account_id

(* Whoever was installed under an account still has it in the file. *)
OwnersKeepAccounts ==
    \A n \in DOMAIN owner : \A a \in owner[n] : disk.apps[a].account_id = n

(* remove_dir_all only ever meets a tree that no registry offers. *)
RemovedIsNotOffered ==
    op.pc = "unregistered" => Offered(registry, op.app) = {} /\ Offered(disk, op.app) = {}

(* Until the save is decided nothing is in the way of renaming back. *)
StagedIsMoved == op.pc = "staged" => dirs[op.app] = NoTree

IInv ==
    /\ TypeOK
    /\ Valid(registry) /\ Valid(disk)
    /\ AccountsAgree /\ OwnersKeepAccounts
    /\ RegisteredHasFiles /\ RemovedIsNotOffered /\ StagedIsMoved

-----------------------------------------------------------------------------
(* What the operations of AppRegistry make of a registry.                  *)

(* q is r after a change of the versions of a. *)
Changes(r, q, a) ==
    /\ q \in Registries
    /\ q.next_account_id = r.next_account_id
    /\ \A b \in Apps : q.apps[b].account_id = r.apps[b].account_id
    /\ \A b \in Apps \ {a} : q.apps[b] = r.apps[b]
    /\ HistoryValid(q.apps[a])

LEMMA ChangesValid ==
    ASSUME NEW r \in Registries, NEW q, NEW a \in Apps, Valid(r), Changes(r, q, a)
    PROVE  Valid(q)
BY DEF Changes, Valid

LEMMA RegistryParts ==
    ASSUME NEW r \in Registries, NEW a \in Apps
    PROVE  /\ r.apps \in [Apps -> Accounts]
           /\ r.next_account_id \in Nat
           /\ r.apps[a] \in Accounts
           /\ r.apps[a].account_id \in {0} \cup (FirstAccount .. LastAccount)
           /\ r.apps[a].installed_version \in Versions \cup {NoVersion}
           /\ r.apps[a].previous_versions \in Seq(Versions)
BY AccountAssumption DEF Registries, Accounts

(* What HistoryValid asks, of the two fields. *)
VersionsValid(installed, previous) ==
    /\ Len(previous) <= MaxRollback
    /\ installed = NoVersion => previous = <<>>
    /\ installed \notin ToSet(previous)
    /\ IsInjective(previous)

(* One account of a registry replaced by one with the same identity. *)
LEMMA ReplaceAccount ==
    ASSUME NEW r \in Registries, NEW a \in Apps,
           NEW installed \in Versions \cup {NoVersion}, NEW previous \in Seq(Versions),
           VersionsValid(installed, previous)
    PROVE  /\ Changes(r, WithVersions(r, a, installed, previous), a)
           /\ Offered(WithVersions(r, a, installed, previous), a) =
                 ToSet(previous) \cup ({installed} \ {NoVersion})
<1> DEFINE account == [r.apps[a] EXCEPT !.installed_version = installed, !.previous_versions = previous]
           q == [r EXCEPT !.apps[a] = account]
<1>1. /\ account \in Accounts
      /\ account.account_id = r.apps[a].account_id
      /\ account.installed_version = installed
      /\ account.previous_versions = previous
  BY Zenon, RegistryParts DEF Accounts
<1> HIDE DEF account
<1>2. /\ q \in Registries /\ q.next_account_id = r.next_account_id
      /\ q.apps[a] = account /\ \A b \in Apps \ {a} : q.apps[b] = r.apps[b]
  BY <1>1 DEF Registries
<1> HIDE DEF q
<1>3. HistoryValid(q.apps[a])
  BY <1>1, <1>2 DEF HistoryValid, VersionsValid
<1>4. Changes(r, q, a)
  BY <1>1, <1>2, <1>3 DEF Changes
<1>5. Offered(q, a) = ToSet(previous) \cup ({installed} \ {NoVersion})
  BY <1>1, <1>2 DEF Offered
<1> QED BY <1>4, <1>5 DEF q, account, WithVersions

LEMMA TruncateElements ==
    ASSUME NEW s \in Seq(Versions), IsInjective(s)
    PROVE  /\ Truncate(s) \in Seq(Versions) /\ Len(Truncate(s)) <= MaxRollback
           /\ IsInjective(Truncate(s)) /\ ToSet(Truncate(s)) \subseteq ToSet(s)
<1>1. CASE Len(s) > MaxRollback
  <2>1. MaxRollback \in 0 .. Len(s)
    BY <1>1, RollbackAssumption
  <2> QED BY <1>1, <2>1, PrefixElements, RollbackAssumption DEF Truncate
<1>2. CASE ~(Len(s) > MaxRollback)
  BY <1>2, RollbackAssumption DEF Truncate
<1> QED BY <1>1, <1>2

(* The version that is replaced comes first among the earlier ones. *)
LEMMA PushVersion ==
    ASSUME NEW s \in Seq(Versions), IsInjective(s), NEW x \in Versions
    PROVE  LET t == Truncate(<<x>> \o Without(s, x))
           IN  /\ t \in Seq(Versions) /\ Len(t) <= MaxRollback /\ IsInjective(t)
               /\ ToSet(t) \subseteq ToSet(s) \cup {x}
<1> DEFINE k == RemoveFirst(s, x)
           u == <<x>> \o k
<1>1. k \in Seq(Versions) /\ IsInjective(k) /\ ToSet(k) = ToSet(s) \ {x}
  BY RemoveFirstElements
<1>2. u \in Seq(Versions) /\ IsInjective(u) /\ ToSet(u) = ToSet(s) \cup {x}
  BY <1>1, PrependElements
<1> QED BY ZenonT(40), <1>2, TruncateElements DEF Without

LEMMA MarkInstalledChanges ==
    ASSUME NEW r \in Registries, NEW a \in Apps, NEW v \in Versions, HistoryValid(r.apps[a])
    PROVE  /\ Changes(r, MarkInstalled(r, a, v), a)
           /\ Offered(MarkInstalled(r, a, v), a) \subseteq Offered(r, a) \cup {v}
<1> DEFINE account == r.apps[a]
           current == account.installed_version
           kept == Without(account.previous_versions, v)
           previous == IF current = NoVersion THEN kept
                       ELSE Truncate(<<current>> \o Without(kept, current))
<1>1. /\ account.previous_versions \in Seq(Versions) /\ current \in Versions \cup {NoVersion}
      /\ IsInjective(account.previous_versions) /\ Len(account.previous_versions) <= MaxRollback
      /\ v # NoVersion
  BY RegistryParts, VersionAssumption DEF HistoryValid
<1>2. CASE current = v
  <2>1. MarkInstalled(r, a, v) = r
    BY <1>2 DEF MarkInstalled
  <2> QED BY <2>1 DEF Changes
<1>3. CASE current # v
  <2>1. /\ kept \in Seq(Versions) /\ IsInjective(kept) /\ Len(kept) <= MaxRollback
        /\ ToSet(kept) = ToSet(account.previous_versions) \ {v}
    <3>1. /\ kept \in Seq(Versions) /\ IsInjective(kept)
          /\ Len(kept) <= Len(account.previous_versions)
          /\ ToSet(kept) = ToSet(account.previous_versions) \ {v}
      BY <1>1, RemoveFirstElements DEF Without
    <3>2. Len(kept) \in Nat /\ Len(account.previous_versions) \in Nat
      BY SMTT(40), <1>1, <3>1
    <3> QED BY <1>1, <3>1, <3>2, RollbackAssumption
  <2>2. /\ previous \in Seq(Versions) /\ Len(previous) <= MaxRollback /\ IsInjective(previous)
        /\ ToSet(previous) \subseteq (ToSet(account.previous_versions) \ {v}) \cup ({current} \ {NoVersion})
    <3>1. CASE current = NoVersion
      BY <2>1, <3>1
    <3>2. CASE current # NoVersion
      <4>1. current \in Versions
        BY <1>1, <3>2
      <4> HIDE DEF kept
      <4> QED BY <2>1, <3>2, <4>1, PushVersion
    <3> QED BY <3>1, <3>2
  <2>3. MarkInstalled(r, a, v) = WithVersions(r, a, v, previous)
    BY <1>3 DEF MarkInstalled
  <2> HIDE DEF previous
  <2>4. VersionsValid(v, previous)
    BY <1>1, <1>3, <2>2 DEF VersionsValid
  <2>5. /\ Changes(r, MarkInstalled(r, a, v), a)
        /\ Offered(MarkInstalled(r, a, v), a) = ToSet(previous) \cup ({v} \ {NoVersion})
    BY <1>1, <2>2, <2>3, <2>4, ReplaceAccount
  <2> QED BY <2>2, <2>5 DEF Offered
<1> QED BY <1>2, <1>3

LEMMA RollbackChanges ==
    ASSUME NEW r \in Registries, NEW a \in Apps, HistoryValid(r.apps[a]),
           r.apps[a].installed_version # NoVersion, r.apps[a].previous_versions # <<>>
    PROVE  /\ Changes(r, RegistryRollback(r, a), a)
           /\ Offered(RegistryRollback(r, a), a) \subseteq Offered(r, a)
<1> DEFINE s == r.apps[a].previous_versions
           current == r.apps[a].installed_version
           previous == Truncate(<<current>> \o Without(Tail(s), current))
<1>1. s \in Seq(Versions) /\ s # <<>> /\ current \in Versions /\ current \notin ToSet(s) /\ IsInjective(s)
  BY RegistryParts DEF HistoryValid
<1>2. RegistryRollback(r, a) = WithVersions(r, a, Head(s), previous)
  BY DEF RegistryRollback
<1> HIDE DEF s, current
<1>3. /\ Len(s) \in Nat \ {0} /\ DOMAIN s = 1 .. Len(s) /\ Head(s) = s[1] /\ Head(s) \in Versions
      /\ Tail(s) \in Seq(Versions) /\ DOMAIN Tail(s) = 1 .. (Len(s) - 1)
      /\ \A i \in 1 .. (Len(s) - 1) : Tail(s)[i] = s[i + 1] /\ i + 1 \in 1 .. Len(s) /\ i + 1 # 1
  BY <1>1
<1>4. Head(s) \in ToSet(s) /\ ToSet(Tail(s)) \subseteq ToSet(s) \ {Head(s)}
  BY <1>1, <1>3 DEF ToSet, IsInjective
<1>5. IsInjective(Tail(s))
  BY <1>1, <1>3 DEF IsInjective
<1>6. /\ previous \in Seq(Versions) /\ Len(previous) <= MaxRollback /\ IsInjective(previous)
      /\ ToSet(previous) \subseteq ToSet(Tail(s)) \cup {current}
  BY Zenon, <1>1, <1>3, <1>5, PushVersion
<1> HIDE DEF previous
<1>7. Head(s) # NoVersion /\ current # NoVersion /\ VersionsValid(Head(s), previous)
  BY <1>1, <1>3, <1>4, <1>6, VersionAssumption DEF VersionsValid
<1>8. /\ Changes(r, RegistryRollback(r, a), a)
      /\ Offered(RegistryRollback(r, a), a) = ToSet(previous) \cup ({Head(s)} \ {NoVersion})
  BY <1>2, <1>3, <1>6, <1>7, ReplaceAccount
<1>9. Offered(r, a) = ToSet(s) \cup {current}
  BY <1>7 DEF Offered, s, current
<1> QED BY <1>4, <1>6, <1>8, <1>9

LEMMA UninstallChanges ==
    ASSUME NEW r \in Registries, NEW a \in Apps
    PROVE  /\ Changes(r, RegistryUninstall(r, a), a)
           /\ Offered(RegistryUninstall(r, a), a) = {}
<1>1. <<>> \in Seq(Versions) /\ Len(<<>>) <= MaxRollback
  BY RollbackAssumption
<1>2. ToSet(<<>>) = {} /\ IsInjective(<<>>)
  BY DEF ToSet, IsInjective
<1>3. VersionsValid(NoVersion, <<>>) /\ NoVersion \in Versions \cup {NoVersion}
  BY <1>1, <1>2 DEF VersionsValid
<1>4. /\ Changes(r, WithVersions(r, a, NoVersion, <<>>), a)
      /\ Offered(WithVersions(r, a, NoVersion, <<>>), a) = ToSet(<<>>) \cup ({NoVersion} \ {NoVersion})
  <2>1. PICK none \in Seq(Versions) : none = <<>>
    BY Zenon, <1>1
  <2>2. VersionsValid(NoVersion, none)
    BY <1>3, <2>1
  <2>3. /\ Changes(r, WithVersions(r, a, NoVersion, none), a)
        /\ Offered(WithVersions(r, a, NoVersion, none), a) = ToSet(none) \cup ({NoVersion} \ {NoVersion})
    BY <1>3, <2>2, ReplaceAccount
  <2> QED BY <2>1, <2>3
<1> QED BY <1>2, <1>4 DEF RegistryUninstall

(* A new identity is above every one that was given. *)
LEMMA AssignGives ==
    ASSUME NEW r \in Registries, NEW a \in Apps, Valid(r), CanAssign(r, a)
    PROVE  /\ Assign(r, a) \in Registries /\ Valid(Assign(r, a))
           /\ \A b \in Apps :
                 /\ r.apps[b].account_id # 0 => Assign(r, a).apps[b].account_id = r.apps[b].account_id
                 /\ Offered(Assign(r, a), b) = Offered(r, b)
<1> DEFINE n == r.next_account_id
           account == [r.apps[a] EXCEPT !.account_id = n]
           q == Assign(r, a)
<1>1. CASE r.apps[a].account_id # 0
  BY <1>1 DEF Assign
<1>2. CASE r.apps[a].account_id = 0
  <2>1. n \in FirstAccount .. LastAccount /\ n \in Nat \ {0}
    BY <1>2, RegistryParts, AccountAssumption DEF CanAssign, Registries
  <2>2. q = [apps |-> [r.apps EXCEPT ![a] = account], next_account_id |-> n + 1]
    BY <1>2 DEF Assign
  <2>3. /\ account \in Accounts /\ account.account_id = n
        /\ account.installed_version = r.apps[a].installed_version
        /\ account.previous_versions = r.apps[a].previous_versions
    BY <2>1, RegistryParts DEF Accounts
  <2> HIDE DEF account
  <2>4. /\ q.next_account_id = n + 1 /\ q.apps = [r.apps EXCEPT ![a] = account]
        /\ q.apps[a] = account /\ \A b \in Apps \ {a} : q.apps[b] = r.apps[b]
    BY <2>2, RegistryParts
  <2>5. q \in Registries
    <3>1. q.next_account_id \in FirstAccount .. LastAccount + 1
      BY <2>1, <2>4, AccountAssumption
    <3>2. q.apps \in [Apps -> Accounts]
      BY <2>3, <2>4, RegistryParts
    <3> QED BY <2>2, <2>4, <3>1, <3>2 DEF Registries
  <2>6. \A b \in Apps : HistoryValid(q.apps[b]) /\ Offered(q, b) = Offered(r, b)
    <3>1. \A b \in Apps : HistoryValid(r.apps[b])
      BY DEF Valid
    <3> QED BY <2>3, <2>4, <3>1 DEF HistoryValid, Offered
  <2>7. \A b \in Apps : r.apps[b].account_id \in Nat /\ (r.apps[b].account_id # 0 => r.apps[b].account_id \in FirstAccount .. n - 1)
    BY RegistryParts, AccountAssumption DEF Valid
  <2> HIDE DEF q
  <2>8. \A b \in Apps : q.apps[b].account_id # 0 => q.apps[b].account_id \in FirstAccount .. n
    BY <2>1, <2>3, <2>4, <2>7, AccountAssumption
  <2>9. \A b, c \in Apps : q.apps[b].account_id # 0 /\ q.apps[b].account_id = q.apps[c].account_id => b = c
    <3> SUFFICES ASSUME NEW b \in Apps, NEW c \in Apps, b # c,
                        q.apps[b].account_id # 0, q.apps[b].account_id = q.apps[c].account_id
                 PROVE  FALSE
      OBVIOUS
    <3>1. CASE b # a /\ c # a
      BY <2>4, <3>1 DEF Valid
    <3>2. CASE b = a
      BY SMTT(40), <2>1, <2>3, <2>4, <2>7, <3>2, AccountAssumption
    <3>3. CASE c = a
      BY SMTT(40), <2>1, <2>3, <2>4, <2>7, <3>3, AccountAssumption
    <3> QED BY <3>1, <3>2, <3>3
  <2>10. Valid(q)
    <3>1. q.next_account_id \in FirstAccount .. LastAccount + 1 /\ q.next_account_id - 1 = n
      BY <2>1, <2>4, <2>5 DEF Registries
    <3> QED BY Zenon, <2>6, <2>8, <2>9, <3>1 DEF Valid
  <2> QED BY <1>2, <2>4, <2>5, <2>6, <2>10 DEF q
<1> QED BY <1>1, <1>2

-----------------------------------------------------------------------------
(* The inductive invariant implies the property and holds at the start.    *)

LEMMA InvariantIsSound == IInv => PackagesSound
<1> SUFFICES ASSUME IInv PROVE PackagesSound
  OBVIOUS
<1>1. TypeOK /\ registry \in Registries /\ Valid(registry) /\ RegisteredHasFiles
  BY DEF IInv, TypeOK
<1>2. AccountNeverRecycled
  <2> SUFFICES ASSUME NEW n \in DOMAIN owner, NEW a \in owner[n], NEW b \in owner[n] PROVE a = b
    BY DEF AccountNeverRecycled
  <2>1. n # 0 /\ a \in Apps /\ b \in Apps
    BY AccountAssumption DEF IInv, TypeOK
  <2>2. disk.apps[a].account_id = n /\ disk.apps[b].account_id = n
    BY DEF IInv, OwnersKeepAccounts
  <2> QED BY <2>1, <2>2 DEF IInv, Valid
<1>3. ValidateNeverRefuses
  <2> SUFFICES ASSUME NEW a \in Apps
               PROVE  /\ CanAssign(registry, a) =>
                            \A v \in Versions : Valid(MarkInstalled(Assign(registry, a), a, v))
                      /\ registry.apps[a].installed_version # NoVersion =>
                            /\ Valid(RegistryUninstall(registry, a))
                            /\ registry.apps[a].previous_versions # <<>> => Valid(RegistryRollback(registry, a))
    BY DEF ValidateNeverRefuses, IInv
  <2>1. ASSUME CanAssign(registry, a), NEW v \in Versions
        PROVE  Valid(MarkInstalled(Assign(registry, a), a, v))
    <3>1. Assign(registry, a) \in Registries /\ Valid(Assign(registry, a))
      BY <1>1, <2>1, AssignGives
    <3>2. HistoryValid(Assign(registry, a).apps[a])
      BY <3>1 DEF Valid
    <3> QED BY <3>1, <3>2, MarkInstalledChanges, ChangesValid
  <2>2. Valid(RegistryUninstall(registry, a))
    BY <1>1, UninstallChanges, ChangesValid
  <2>3. ASSUME registry.apps[a].installed_version # NoVersion, registry.apps[a].previous_versions # <<>>
        PROVE  Valid(RegistryRollback(registry, a))
    <3>1. HistoryValid(registry.apps[a])
      BY <1>1 DEF Valid
    <3> QED BY <1>1, <2>3, <3>1, RollbackChanges, ChangesValid
  <2> QED BY <2>1, <2>2, <2>3
<1> QED BY <1>1, <1>2, <1>3 DEF PackagesSound, RegistryUsable

LEMMA InvariantInit == Init => IInv
<1> SUFFICES ASSUME Init PROVE IInv
  OBVIOUS
<1>1. <<>> \in Seq(Versions) /\ Len(<<>>) = 0 /\ ToSet(<<>>) = {} /\ IsInjective(<<>>)
  BY DEF ToSet, IsInjective
<1>2. NoAccount \in Accounts /\ HistoryValid(NoAccount)
  BY <1>1, RollbackAssumption DEF NoAccount, Accounts, HistoryValid
<1>3. registry \in Registries /\ disk = registry /\ \A a \in Apps : registry.apps[a] = NoAccount
  BY <1>2, AccountAssumption DEF Init, Registries
<1>4. NoAccount.account_id = 0 /\ NoAccount.installed_version = NoVersion /\ NoAccount.previous_versions = <<>>
  BY DEF NoAccount
<1>5. NoTree \in Trees
  BY DEF NoTree, Trees
<1>6. TypeOK
  BY <1>3, <1>5 DEF Init, TypeOK
<1>7. Valid(registry)
  BY <1>2, <1>3, <1>4, AccountAssumption DEF Init, Valid
<1>8. AccountsAgree /\ OwnersKeepAccounts
  BY <1>3, <1>4 DEF Init, AccountsAgree, OwnersKeepAccounts
<1>9. RegisteredHasFiles
  BY <1>1, <1>3, <1>4 DEF RegisteredHasFiles, Offered
<1>10. RemovedIsNotOffered /\ StagedIsMoved
  BY DEF Init, Idle, RemovedIsNotOffered, StagedIsMoved
<1> QED BY SMTT(40), <1>3, <1>6, <1>7, <1>8, <1>9, <1>10 DEF IInv

-----------------------------------------------------------------------------
(* Saving                                                                  *)

(* The file after a save is the old one or the new one, and nobody loses   *)
(* an account that was in it.                                              *)
LEMMA SaveKeeps ==
    ASSUME IInv, NEW next \in Registries, Valid(next), NEW outcome, Save(next, outcome),
           \A a \in Apps : registry.apps[a].account_id # 0 =>
               next.apps[a].account_id = registry.apps[a].account_id
    PROVE  /\ disk' = disk \/ disk' = next
           /\ disk' \in Registries /\ Valid(disk')
           /\ \A a \in Apps : disk.apps[a].account_id # 0 =>
                 disk'.apps[a].account_id = disk.apps[a].account_id
           /\ owner' \in [FirstAccount .. LastAccount -> SUBSET Apps]
           /\ OwnersKeepAccounts'
<1>1. /\ disk' = disk \/ disk' = next
      /\ disk' \in Registries /\ Valid(disk')
  BY DEF Save, IInv, TypeOK
<1>2. \A a \in Apps : disk.apps[a].account_id # 0 => disk'.apps[a].account_id = disk.apps[a].account_id
  BY <1>1 DEF IInv, AccountsAgree
<1>3. /\ DOMAIN owner = FirstAccount .. LastAccount
      /\ owner' = [n \in FirstAccount .. LastAccount |->
                      owner[n] \cup {a \in Apps : disk'.apps[a].account_id = n
                                                 /\ disk'.apps[a].installed_version # NoVersion}]
  BY DEF Save, IInv, TypeOK
<1>4. owner' \in [FirstAccount .. LastAccount -> SUBSET Apps]
  BY <1>3 DEF IInv, TypeOK
<1>5. OwnersKeepAccounts'
  <2> SUFFICES ASSUME NEW n \in FirstAccount .. LastAccount, NEW a \in owner'[n]
               PROVE  disk'.apps[a].account_id = n
    BY <1>3 DEF OwnersKeepAccounts
  <2>1. n # 0
    BY AccountAssumption
  <2>2. CASE a \in owner[n]
    <3>1. disk.apps[a].account_id = n /\ a \in Apps
      BY <1>3, <2>2 DEF IInv, OwnersKeepAccounts, TypeOK
    <3> QED BY <1>2, <2>1, <3>1
  <2> QED BY <1>3, <2>2
<1> QED BY <1>1, <1>2, <1>4, <1>5

(* Where the files of a version are. *)
Present(a, v) == dirs[a][v] # 0 \/ \E tree \in tombstone[a] : tree[v] # 0

LEMMA FilesPresent ==
    IInv => \A a \in Apps : \A v \in Offered(registry, a) \cup Offered(disk, a) : Present(a, v)
BY DEF IInv, RegisteredHasFiles, Present

LEMMA OperationType ==
    ASSUME TypeOK
    PROVE  /\ op.pc = "prepared" => op.app \in Apps /\ op.version \in Versions
           /\ op.pc \in {"staged", "unregistered"} => op.app \in Apps
BY DEF TypeOK, Idle

-----------------------------------------------------------------------------
(* The actions                                                             *)

LEMMA PublishKeeps ==
    ASSUME IInv, NEW a \in Apps, NEW v \in Versions, NEW c \in Contents, NEW ok \in BOOLEAN,
           Publish(a, v, c, ok)
    PROVE  IInv'
<1>1. UNCHANGED <<registry, disk, tombstone, owner>> /\ dirs' = [dirs EXCEPT ![a][v] = c]
  BY DEF Publish
<1>2. op' = Idle \/ op' = [pc |-> "prepared", app |-> a, version |-> v]
  BY DEF Publish
<1>3. c # 0 /\ dirs \in [Apps -> Trees]
  BY ContentAssumption DEF IInv, TypeOK
<1>4. /\ dirs' \in [Apps -> Trees]
      /\ \A b \in Apps, w \in Versions : dirs[b][w] # 0 => dirs'[b][w] # 0
  BY <1>1, <1>3 DEF Trees
<1>5. TypeOK'
  BY <1>1, <1>2, <1>4 DEF IInv, TypeOK
<1>6. RegisteredHasFiles'
  <2>1. \A r \in {registry, disk}, b \in Apps : Offered(r, b) \subseteq Versions
    BY RegistryParts DEF IInv, TypeOK, Offered, ToSet
  <2> QED BY <1>1, <1>4, <2>1 DEF IInv, RegisteredHasFiles, Offered
<1>7. RemovedIsNotOffered' /\ StagedIsMoved'
  BY SMTT(40), <1>2 DEF RemovedIsNotOffered, StagedIsMoved, Idle
<1> QED BY <1>1, <1>5, <1>6, <1>7 DEF IInv, AccountsAgree, OwnersKeepAccounts, Valid

(* The registry in memory and the one in the file after an operation that  *)
(* saves, when each offers only what has its files.                        *)
LEMMA SavedKeeps ==
    ASSUME IInv, UNCHANGED <<dirs, tombstone>>, op' = Idle,
           registry' \in Registries, Valid(registry'),
           \A a \in Apps : registry.apps[a].account_id # 0 =>
               registry'.apps[a].account_id = registry.apps[a].account_id,
           disk' \in Registries, Valid(disk'),
           \A a \in Apps : disk'.apps[a].account_id # 0 =>
               registry'.apps[a].account_id = disk'.apps[a].account_id,
           owner' \in [FirstAccount .. LastAccount -> SUBSET Apps], OwnersKeepAccounts',
           \A a \in Apps : \A v \in Offered(registry', a) \cup Offered(disk', a) : Present(a, v)
    PROVE  IInv'
<1>1. TypeOK'
  BY Zenon DEF IInv, TypeOK
<1>2. AccountsAgree'
  BY DEF AccountsAgree
<1>3. RegisteredHasFiles'
  BY DEF RegisteredHasFiles, Offered, Present
<1>4. RemovedIsNotOffered' /\ StagedIsMoved'
  BY DEF RemovedIsNotOffered, StagedIsMoved, Idle
<1> QED BY Zenon, <1>1, <1>2, <1>3, <1>4 DEF IInv, Valid

LEMMA CommitKeeps ==
    ASSUME IInv, NEW outcome \in Outcomes, Commit(outcome)
    PROVE  IInv'
<1> DEFINE a == op.app
           v == op.version
           assigned == Assign(registry, a)
           next == MarkInstalled(assigned, a, v)
<1>1. /\ a \in Apps /\ v \in Versions /\ op' = Idle /\ UNCHANGED <<dirs, tombstone>>
      /\ registry \in Registries /\ disk \in Registries /\ Valid(registry) /\ Valid(disk)
      /\ owner \in [FirstAccount .. LastAccount -> SUBSET Apps]
  BY SMTT(40), OperationType DEF Commit, IInv, TypeOK
<1>2. CASE ~CanAssign(registry, a)
  <2>1. registry' = registry /\ disk' = disk /\ owner' = owner
    BY <1>2 DEF Commit
  <2> QED BY SMTT(40), <1>1, <2>1, FilesPresent, SavedKeeps DEF IInv, AccountsAgree, OwnersKeepAccounts
<1>3. CASE CanAssign(registry, a)
  <2>1. /\ assigned \in Registries /\ Valid(assigned)
        /\ \A b \in Apps :
              /\ registry.apps[b].account_id # 0 => assigned.apps[b].account_id = registry.apps[b].account_id
              /\ Offered(assigned, b) = Offered(registry, b)
    BY Zenon, <1>1, <1>3, AssignGives
  <2>2. CASE registry' = assigned /\ UNCHANGED <<disk, owner>>
    <3>1. \A b \in Apps : disk'.apps[b].account_id # 0 => registry'.apps[b].account_id = disk'.apps[b].account_id
      BY Zenon, <2>1, <2>2 DEF IInv, AccountsAgree
    <3> QED BY Zenon, <1>1, <2>1, <2>2, <3>1, FilesPresent, SavedKeeps DEF IInv, OwnersKeepAccounts
  <2>3. CASE /\ dirs[a][v] # 0 /\ Save(next, outcome)
             /\ registry' = IF Saved(next, outcome) THEN next ELSE assigned
    <3>1. HistoryValid(assigned.apps[a])
      BY Zenon, <1>1, <2>1 DEF Valid
    <3>2. /\ Changes(assigned, next, a)
          /\ Offered(next, a) \subseteq Offered(assigned, a) \cup {v}
      BY Zenon, <1>1, <2>1, <3>1, MarkInstalledChanges
    <3>3. next \in Registries /\ Valid(next)
      BY SMTT(40), <1>1, <2>1, <3>2, ChangesValid DEF Changes
    <3> HIDE DEF next, assigned, a, v
    <3>4. \A b \in Apps : /\ next.apps[b].account_id = assigned.apps[b].account_id
                          /\ Offered(next, b) \subseteq Offered(registry, b) \cup (IF b = a THEN {v} ELSE {})
      BY Zenon, <1>1, <2>1, <3>2 DEF Changes, Offered
    <3>5. \A b \in Apps : registry.apps[b].account_id # 0 => next.apps[b].account_id = registry.apps[b].account_id
      BY <2>1, <3>4
    <3>6. /\ disk' = disk \/ disk' = next
          /\ disk' \in Registries /\ Valid(disk')
          /\ owner' \in [FirstAccount .. LastAccount -> SUBSET Apps] /\ OwnersKeepAccounts'
      BY Zenon, <2>3, <3>3, <3>5, SaveKeeps
    <3>7. /\ registry' = next \/ registry' = assigned
          /\ registry' \in Registries /\ Valid(registry')
      BY Zenon, <2>1, <2>3, <3>3
    <3>8. \A b \in Apps : /\ registry'.apps[b].account_id = next.apps[b].account_id
                          /\ disk'.apps[b].account_id # 0 => registry'.apps[b].account_id = disk'.apps[b].account_id
      BY Zenon, <3>4, <3>5, <3>6, <3>7 DEF IInv, AccountsAgree
    <3>9. \A b \in Apps : \A w \in Offered(registry', b) \cup Offered(disk', b) : Present(b, w)
      <4>1. Present(a, v)
        BY Zenon, <2>3 DEF Present
      <4> QED BY Zenon, <2>1, <3>4, <3>6, <3>7, <4>1, FilesPresent
    <3> QED BY Zenon, <1>1, <3>5, <3>6, <3>7, <3>8, <3>9, SavedKeeps
  <2> QED BY SMTT(40), <1>3, <2>2, <2>3 DEF Commit
<1> QED BY <1>2, <1>3

LEMMA RollbackKeeps ==
    ASSUME IInv, NEW a \in Apps, NEW outcome \in Outcomes, Rollback(a, outcome)
    PROVE  IInv'
<1> DEFINE next == RegistryRollback(registry, a)
<1>1. /\ op' = Idle /\ UNCHANGED <<dirs, tombstone>>
      /\ registry \in Registries /\ Valid(registry) /\ HistoryValid(registry.apps[a])
      /\ registry.apps[a].installed_version # NoVersion /\ registry.apps[a].previous_versions # <<>>
      /\ Save(next, outcome) /\ registry' = IF Saved(next, outcome) THEN next ELSE registry
  BY Zenon, SMTT(40) DEF Rollback, IInv, TypeOK, Valid
<1>2. Changes(registry, next, a) /\ Offered(next, a) \subseteq Offered(registry, a)
  BY Zenon, <1>1, RollbackChanges
<1>3. next \in Registries /\ Valid(next)
  BY <1>1, <1>2, ChangesValid DEF Changes
<1> HIDE DEF next
<1>4. \A b \in Apps : /\ next.apps[b].account_id = registry.apps[b].account_id
                      /\ Offered(next, b) \subseteq Offered(registry, b)
  BY <1>2 DEF Changes, Offered
<1>5. /\ disk' = disk \/ disk' = next
      /\ disk' \in Registries /\ Valid(disk')
      /\ owner' \in [FirstAccount .. LastAccount -> SUBSET Apps] /\ OwnersKeepAccounts'
  BY <1>1, <1>3, <1>4, SaveKeeps
<1>6. /\ registry' = next \/ registry' = registry
      /\ registry' \in Registries /\ Valid(registry')
  BY <1>1, <1>3
<1>7. \A b \in Apps : /\ registry'.apps[b].account_id = registry.apps[b].account_id
                      /\ disk'.apps[b].account_id # 0 => registry'.apps[b].account_id = disk'.apps[b].account_id
  BY <1>4, <1>5, <1>6 DEF IInv, AccountsAgree
<1>8. \A b \in Apps : \A w \in Offered(registry', b) \cup Offered(disk', b) : Present(b, w)
  BY Zenon, <1>4, <1>5, <1>6, FilesPresent
<1> QED BY Zenon, <1>1, <1>5, <1>6, <1>7, <1>8, SavedKeeps

LEMMA StageKeeps ==
    ASSUME IInv, NEW a \in Apps, Stage(a)
    PROVE  IInv'
<1>1. /\ UNCHANGED <<registry, disk, owner>> /\ op' = [pc |-> "staged", app |-> a]
      /\ tombstone' = [tombstone EXCEPT ![a] = {dirs[a]}] /\ tombstone[a] = {}
      /\ dirs' = [dirs EXCEPT ![a] = NoTree]
      /\ dirs \in [Apps -> Trees] /\ tombstone \in [Apps -> {{}} \cup {{tree} : tree \in Trees}]
  BY DEF Stage, IInv, TypeOK
<1>2. NoTree \in Trees
  BY DEF NoTree, Trees
<1>3. TypeOK'
  BY <1>1, <1>2 DEF IInv, TypeOK
<1>4. RegisteredHasFiles'
  <2>1. \A b \in Apps : b # a => dirs'[b] = dirs[b] /\ tombstone'[b] = tombstone[b]
    BY <1>1
  <2>2. tombstone'[a] = {dirs[a]}
    BY <1>1
  <2> QED BY <1>1, <2>1, <2>2 DEF IInv, RegisteredHasFiles, Offered
<1>5. RemovedIsNotOffered' /\ StagedIsMoved'
  BY Zenon, <1>1 DEF RemovedIsNotOffered, StagedIsMoved
<1> QED BY Zenon, <1>1, <1>3, <1>4, <1>5 DEF IInv, AccountsAgree, OwnersKeepAccounts, Valid

LEMMA RemoveTreeKeeps ==
    ASSUME IInv, NEW ok \in BOOLEAN, RemoveTree(ok)
    PROVE  IInv'
<1> DEFINE a == op.app
<1>1. /\ UNCHANGED <<registry, disk, dirs, owner>> /\ op' = Idle /\ a \in Apps
      /\ tombstone' = [tombstone EXCEPT ![a] = IF ok THEN {} ELSE {NoTree}]
      /\ tombstone \in [Apps -> {{}} \cup {{tree} : tree \in Trees}]
  BY OperationType DEF RemoveTree, IInv, TypeOK
<1>2. NoTree \in Trees
  BY DEF NoTree, Trees
<1>3. TypeOK'
  BY SMTT(40), <1>1, <1>2 DEF IInv, TypeOK
<1>4. RegisteredHasFiles'
  <2>1. \A b \in Apps : b # a => tombstone'[b] = tombstone[b]
    BY <1>1
  <2>2. Offered(registry, a) = {} /\ Offered(disk, a) = {}
    BY DEF IInv, RemovedIsNotOffered, RemoveTree
  <2> QED BY <1>1, <2>1, <2>2 DEF IInv, RegisteredHasFiles, Offered
<1>5. RemovedIsNotOffered' /\ StagedIsMoved'
  BY Zenon, <1>1 DEF RemovedIsNotOffered, StagedIsMoved, Idle
<1> QED BY Zenon, <1>1, <1>3, <1>4, <1>5 DEF IInv, AccountsAgree, OwnersKeepAccounts, Valid

LEMMA CrashKeeps ==
    ASSUME IInv, Crash
    PROVE  IInv'
<1>1. registry' = disk /\ op' = Idle /\ UNCHANGED <<disk, dirs, tombstone, owner>>
  BY DEF Crash
<1>2. TypeOK'
  BY <1>1 DEF IInv, TypeOK
<1>3. RegisteredHasFiles'
  BY <1>1 DEF IInv, RegisteredHasFiles, Offered
<1>4. RemovedIsNotOffered' /\ StagedIsMoved'
  BY <1>1 DEF RemovedIsNotOffered, StagedIsMoved, Idle
<1> QED BY Zenon, <1>1, <1>2, <1>3, <1>4 DEF IInv, AccountsAgree, OwnersKeepAccounts, Valid

LEMMA UnregisterKeeps ==
    ASSUME IInv, NEW outcome \in Outcomes, Unregister(outcome)
    PROVE  IInv'
<1> DEFINE a == op.app
           next == RegistryUninstall(registry, a)
<1>1. /\ op.pc = "staged" /\ a \in Apps /\ Save(next, outcome)
      /\ registry \in Registries /\ Valid(registry)
      /\ dirs \in [Apps -> Trees] /\ tombstone \in [Apps -> {{}} \cup {{tree} : tree \in Trees}]
      /\ op \in [pc : {"staged", "unregistered"}, app : Apps]
  BY OperationType DEF Unregister, IInv, TypeOK, Idle
<1>2. Changes(registry, next, a) /\ Offered(next, a) = {}
  BY <1>1, UninstallChanges
<1>3. next \in Registries /\ Valid(next)
  BY <1>1, <1>2, ChangesValid DEF Changes
<1> HIDE DEF next
<1>4. \A b \in Apps : /\ next.apps[b].account_id = registry.apps[b].account_id
                      /\ Offered(next, b) \subseteq Offered(registry, b)
  BY <1>2 DEF Changes, Offered
<1>5. /\ disk' = disk \/ disk' = next
      /\ disk' \in Registries /\ Valid(disk')
      /\ owner' \in [FirstAccount .. LastAccount -> SUBSET Apps] /\ OwnersKeepAccounts'
  BY SMTT(40), <1>1, <1>3, <1>4, SaveKeeps
<1>6. CASE Saved(next, outcome)
  <2>1. /\ registry' = next /\ op' = [op EXCEPT !.pc = "unregistered"] /\ UNCHANGED <<dirs, tombstone>>
        /\ disk' = next
    BY Zenon, <1>6 DEF Unregister, next, Saved, Save
  <2>2. op' \in [pc : {"staged", "unregistered"}, app : Apps] /\ op'.app = a
    BY <1>1, <2>1
  <2>3. TypeOK'
    BY <1>3, <1>5, <2>1, <2>2 DEF IInv, TypeOK
  <2>4. AccountsAgree'
    BY <2>1 DEF AccountsAgree
  <2>5. RegisteredHasFiles'
    <3>1. \A b \in Apps : \A v \in Offered(next, b) : Present(b, v)
      BY <1>4, FilesPresent
    <3> QED BY <2>1, <3>1 DEF RegisteredHasFiles, Offered, Present
  <2>6. RemovedIsNotOffered' /\ StagedIsMoved'
    BY <1>1, <1>2, <2>1, <2>2 DEF RemovedIsNotOffered, StagedIsMoved, Offered
  <2> QED BY Zenon, <1>3, <1>5, <2>1, <2>3, <2>4, <2>5, <2>6 DEF IInv, Valid
<1>7. CASE ~Saved(next, outcome)
  <2>1. registry' = registry /\ op' = Idle
    BY <1>7 DEF Unregister, next
  <2>2. \A b \in Apps : disk'.apps[b].account_id # 0 => registry'.apps[b].account_id = disk'.apps[b].account_id
    BY <1>4, <1>5, <2>1 DEF IInv, AccountsAgree
  <2>3. \A b \in Apps : \A v \in Offered(registry', b) \cup Offered(disk', b) : Present(b, v)
    BY Zenon, <1>4, <1>5, <2>1, FilesPresent
  <2>4. CASE UNCHANGED <<dirs, tombstone>>
    BY Zenon, <1>1, <1>5, <2>1, <2>2, <2>3, <2>4, SavedKeeps
  <2>5. ASSUME NEW tree \in tombstone[a], dirs' = [dirs EXCEPT ![a] = tree],
               tombstone' = [tombstone EXCEPT ![a] = {}]
        PROVE  IInv'
    <3>1. tombstone[a] = {tree} /\ tree \in Trees
      BY <1>1, <2>5
    <3>2. TypeOK'
      BY Zenon, <1>1, <1>5, <2>1, <2>5, <3>1 DEF IInv, TypeOK
    <3>3. \A b \in Apps : b # a => dirs'[b] = dirs[b] /\ tombstone'[b] = tombstone[b]
      BY Zenon, <1>1, <2>5
    <3>4. dirs'[a] = tree
      BY <1>1, <2>5
    <3>5. RegisteredHasFiles'
      <4> SUFFICES ASSUME NEW b \in Apps, NEW v \in Offered(registry', b) \cup Offered(disk', b)
                   PROVE  dirs'[b][v] # 0 \/ \E t \in tombstone'[b] : t[v] # 0
        BY DEF RegisteredHasFiles, Offered
      <4>1. CASE b = a
        <5>1. dirs[a] = NoTree
          BY Zenon, <1>1 DEF IInv, StagedIsMoved
        <5>2. v \in Versions
          BY SMTT(40), <1>1, <1>5, <2>1, RegistryParts, VersionAssumption DEF Offered, ToSet
        <5>3. dirs[a][v] = 0
          BY Zenon, <5>1, <5>2 DEF NoTree
        <5> QED BY Zenon, <2>3, <3>1, <3>4, <4>1, <5>3 DEF Present
      <4>2. CASE b # a
        BY Zenon, <2>3, <3>3, <4>2 DEF Present
      <4> QED BY <4>1, <4>2
    <3>6. AccountsAgree' /\ RemovedIsNotOffered' /\ StagedIsMoved'
      BY Zenon, <2>1, <2>2 DEF AccountsAgree, RemovedIsNotOffered, StagedIsMoved, Idle
    <3> QED BY Zenon, <1>1, <1>5, <2>1, <3>2, <3>5, <3>6 DEF IInv, Valid
  <2> QED BY <1>7, <2>4, <2>5 DEF Unregister, next
<1> QED BY <1>6, <1>7

-----------------------------------------------------------------------------

LEMMA InvariantStep == IInv /\ [Next]_vars => IInv'
<1> SUFFICES ASSUME IInv, [Next]_vars PROVE IInv'
  BY Zenon, SMTT(40)
<1>1. CASE UNCHANGED vars
  BY <1>1 DEF vars, IInv, TypeOK, Valid, AccountsAgree, OwnersKeepAccounts, RegisteredHasFiles,
              RemovedIsNotOffered, StagedIsMoved, Offered
<1>2. CASE Next
  BY Zenon, <1>2, PublishKeeps, CommitKeeps, UnregisterKeeps, RollbackKeeps, StageKeeps,
     RemoveTreeKeeps, CrashKeeps DEF Next
<1> QED BY <1>1, <1>2

(* Whatever fails or is cut off in install, rollback and uninstall, for    *)
(* any number of applications, versions and accounts: no account is given  *)
(* to a second application (AppRegistry::assign), validate accepts the     *)
(* file and whatever the next operation builds, and every version that the *)
(* registry offers has its files (uninstall_stopped).                      *)
THEOREM PackagesAreSound == Spec => []PackagesSound
<1>1. Spec => []IInv
  BY InvariantInit, InvariantStep, PTL DEF Spec
<1> QED BY <1>1, InvariantIsSound, PTL
===============================================================================
