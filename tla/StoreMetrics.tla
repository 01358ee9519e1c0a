---------------------------- MODULE StoreMetrics ----------------------------
(***************************************************************************)
(* The opt-in weekly counters of cp0-stored (metrics.json and the state it *)
(* mirrors) and the aggregate the control plane keeps of them: consent,    *)
(* counting, the batch of the previous week, its upload, its receipt.      *)
(* The service's request thread, its install workers and its scheduler     *)
(* check the consent and read the clock before they take the state lock.   *)
(***************************************************************************)
EXTENDS Integers, FiniteSets, Functions

CONSTANTS Apps, Published,   \* application versions; those with an artifact
          Threads,           \* "serve", "worker", "scheduler"
          MAX_METRIC_RECORDS, MAX_WEEKLY_INSTALLS, MAX_WEEKLY_LAUNCHES,
          MaxWeek,           \* bound: weeks of the two clocks
          MaxEvents,         \* bound: events recorded
          MaxFaults          \* bound: failed saves, crashes, policy changes

VARIABLES policy,     \* store_metrics_allowed, or the policy cannot be read
          clock,      \* the device's week
          memory,     \* MutableState.metrics
          disk,       \* metrics.json
          up,         \* the service runs
          checked,    \* per thread: what it was about to do when it left the check
          upload,     \* the report of the upload thread: metrics_upload_running
          wire,       \* reports on their way to the server, late ones included
          answers,    \* what the upload thread may still hear
          server,     \* the server's week, its receipts and its aggregates
          issued,     \* batch identifiers drawn
          recorded,   \* history: events counted per week and application
          stale,      \* history: a thread counted with a clock read in an earlier week
          events, faults

device == <<policy, clock, memory, disk, up, checked, upload, issued>>
vars == <<device, wire, answers, server, recorded, stale, events, faults>>

Weeks == 1 .. MaxWeek
Zero == [installs |-> 0, launches |-> 0, crashes |-> 0]
Default == [enabled |-> FALSE, weeks |-> <<>>, pending |-> {}]

MetricsConstants ==
    /\ Published \subseteq Apps
    /\ Threads \subseteq {"serve", "worker", "scheduler"}
    /\ {MAX_METRIC_RECORDS, MAX_WEEKLY_INSTALLS, MAX_WEEKLY_LAUNCHES} \subseteq Nat \ {0}
    /\ {MaxWeek, MaxEvents, MaxFaults} \subseteq Nat

(***************************************************************************)
(* The report and the persistent state.                                    *)
(***************************************************************************)
ReportValid(records) ==
    /\ Cardinality(DOMAIN records) \in 1 .. MAX_METRIC_RECORDS
    /\ \A a \in DOMAIN records :
         /\ records[a].installs <= MAX_WEEKLY_INSTALLS
         /\ records[a].launches <= MAX_WEEKLY_LAUNCHES
         /\ records[a].crashes <= records[a].launches
         /\ records[a] # Zero

validate_metrics_state(m) ==
    /\ ~m.enabled => DOMAIN m.weeks = {} /\ m.pending = {}
    /\ Cardinality(DOMAIN m.weeks) <= 2
    /\ \A w \in DOMAIN m.weeks : ReportValid(m.weeks[w])
    /\ \A p \in m.pending : p.week \in DOMAIN m.weeks /\ m.weeks[p.week] = p.records

normalize_metrics_state(m, now) ==
    [m EXCEPT !.weeks = Restrict(m.weeks, DOMAIN m.weeks \cap {now, now - 1}),
              !.pending = {p \in m.pending : p.week = now - 1}]

\* save_metrics_state and the assignment after it.  A refused state changes
\* nothing; a write that fails may fail after the rename.
Saved(next) ==
    /\ validate_metrics_state(next)
    /\ memory' = next
    /\ disk' = next
    /\ UNCHANGED faults

NotSaved(next) ==
    /\ UNCHANGED memory
    /\ \/ ~validate_metrics_state(next) /\ UNCHANGED <<disk, faults>>
       \/ /\ validate_metrics_state(next)
          /\ faults < MaxFaults
          /\ faults' = faults + 1
          /\ disk' \in {disk, next}

Finished(t) == checked' = [checked EXCEPT ![t] = {}]
Continue(t, op) == checked' = [checked EXCEPT ![t] = {op}]

(***************************************************************************)
(* metrics_status: what is not allowed is cleared first.                   *)
(***************************************************************************)
clear_metrics ==
    \/ memory = Default /\ UNCHANGED <<memory, disk, faults>>
    \/ memory # Default /\ (Saved(Default) \/ NotSaved(Default))

metrics_status(t, op) ==
    \/ /\ policy # "allowed"
       /\ clear_metrics
       /\ Finished(t)
    \/ /\ policy = "allowed"
       /\ IF memory.enabled /\ op.kind # "status" THEN Continue(t, op) ELSE Finished(t)
       /\ UNCHANGED <<memory, disk, faults>>

Elsewhere == UNCHANGED <<policy, clock, up, wire, answers, server>>

GetMetrics(t) ==
    /\ up /\ t = "serve"
    /\ \/ checked[t] = {}
       \/ \E op \in checked[t] : op.kind = "status"
    /\ metrics_status(t, [kind |-> "status"])
    /\ UNCHANGED <<upload, issued, recorded, stale, events>> /\ Elsewhere

\* set_metrics: the policy is read before the lock, and the status read after.
set_metrics(t, enabled) ==
    /\ up /\ t = "serve"
    /\ \/ /\ enabled /\ checked[t] = {}
          /\ policy = "allowed"
          /\ Continue(t, [kind |-> "enable"])
          /\ UNCHANGED <<memory, disk, faults>>
       \/ /\ enabled /\ checked[t] = {[kind |-> "enable"]}
          /\ \/ /\ IF memory.enabled THEN UNCHANGED <<memory, disk, faults>>
                   ELSE Saved([memory EXCEPT !.enabled = TRUE])
                /\ Continue(t, [kind |-> "status"])
             \/ ~memory.enabled /\ NotSaved([memory EXCEPT !.enabled = TRUE]) /\ Finished(t)
       \/ /\ ~enabled /\ checked[t] = {}
          /\ clear_metrics
          /\ IF memory' = Default THEN Continue(t, [kind |-> "status"]) ELSE Finished(t)
    /\ UNCHANGED <<upload, issued, recorded, stale, events>> /\ Elsewhere

(***************************************************************************)
(* record_runtime_metric and record_install_metric.  `now` is read between *)
(* the status and the lock.                                                *)
(***************************************************************************)
Counted(r, event) ==
    CASE event = "install" -> [r EXCEPT !.installs = IF @ < MAX_WEEKLY_INSTALLS THEN @ + 1 ELSE @]
      [] event = "launch" -> [r EXCEPT !.launches = IF @ < MAX_WEEKLY_LAUNCHES THEN @ + 1 ELSE @]
      [] event = "crash" -> [r EXCEPT !.crashes = IF @ < r.launches THEN @ + 1 ELSE @]

StartRecord(t) ==
    /\ up /\ t \in {"serve", "worker"} /\ checked[t] = {} /\ events < MaxEvents
    /\ \E a \in Apps, e \in IF t = "worker" THEN {"install"} ELSE {"launch", "crash"} :
         metrics_status(t, [kind |-> "record", app |-> a, event |-> e, now |-> clock])
    /\ events' = events + 1
    /\ UNCHANGED <<upload, issued, recorded, stale>> /\ Elsewhere

record_metric(t) ==
    /\ up
    /\ \E op \in checked[t] :
         LET base == normalize_metrics_state(memory, op.now)
             records == IF op.now \in DOMAIN base.weeks THEN base.weeks[op.now] ELSE <<>>
             old == IF op.app \in DOMAIN records THEN records[op.app] ELSE Zero
             new == Counted(old, op.event)
             full == op.app \notin DOMAIN records
                       /\ Cardinality(DOMAIN records) = MAX_METRIC_RECORDS
             next == [base EXCEPT !.weeks =
                        [w \in DOMAIN base.weeks \cup {op.now} |->
                           IF w # op.now THEN base.weeks[w]
                           ELSE [a \in DOMAIN records \cup {op.app} |->
                                   IF a = op.app THEN new ELSE records[a]]]]
         IN  /\ op.kind = "record"
             /\ \/ /\ full \/ (new.installs = 0 /\ new.launches = 0)
                   /\ UNCHANGED <<memory, disk, faults, recorded, stale>>
                \/ /\ ~full /\ ~(new.installs = 0 /\ new.launches = 0)
                   /\ Saved(next) \/ NotSaved(next)
                   /\ recorded' = [recorded EXCEPT ![op.now][op.app] = Counted(@, op.event)]
                   /\ stale' = (stale \/ op.now < clock)
    /\ Finished(t)
    /\ UNCHANGED <<upload, issued, events>> /\ Elsewhere

(***************************************************************************)
(* The upload: the scheduler draws a batch for the previous week, or takes *)
(* the pending one, saves it, and lets a thread send it.                   *)
(***************************************************************************)
StartUpload(t) ==
    /\ up /\ t = "scheduler" /\ checked[t] = {}
    /\ metrics_status(t, [kind |-> "start", now |-> clock])
    /\ UNCHANGED <<upload, issued, recorded, stale, events>> /\ Elsewhere

start_metrics_upload(t) ==
    /\ up
    /\ \E op \in checked[t] :
         LET base == normalize_metrics_state(memory, op.now)
             week == op.now - 1
             fresh == [batch |-> issued + 1, week |-> week, records |-> base.weeks[week]]
             next == IF base.pending # {} THEN base ELSE [base EXCEPT !.pending = {fresh}]
         IN  /\ op.kind = "start"
             /\ \/ /\ upload # {} \/ (base.pending = {} /\ week \notin DOMAIN base.weeks)
                   /\ UNCHANGED <<memory, disk, faults, upload, issued, wire>>
                \/ /\ upload = {}
                   /\ base.pending # {} \/ week \in DOMAIN base.weeks
                   /\ issued' = IF base.pending = {} THEN issued + 1 ELSE issued
                   /\ \/ /\ Saved(next)
                         /\ upload' = next.pending
                         /\ wire' = wire \cup {[report |-> r, late |-> FALSE] : r \in next.pending}
                      \/ NotSaved(next) /\ UNCHANGED <<upload, wire>>
    /\ Finished(t)
    /\ UNCHANGED <<policy, clock, up, answers, server, recorded, stale, events>>

\* The control plane's ingest_aggregate_metrics, a transaction.  A receipt
\* lives 15 days, so at the earliest it is gone two weeks later.
ingest_aggregate_metrics(report, heard) ==
    LET Answer(ok) == answers' = answers \cup
            (IF heard THEN {[batch |-> report.batch, ok |-> ok]} ELSE {})
        live == {b \in server.batches : server.clock < b.received + 2}
        known == {b \in live : b.report.batch = report.batch}
    IN  IF known # {}
        THEN /\ server' = [server EXCEPT !.batches = live]
             /\ Answer(\A b \in known : b.report = report)
        ELSE IF report.week + 1 # server.clock \/ ~(DOMAIN report.records \subseteq Published)
        THEN /\ Answer(FALSE)
             /\ UNCHANGED server
        ELSE /\ server' = [server EXCEPT
                  !.batches = live \cup {[report |-> report, received |-> server.clock]},
                  !.aggregate[report.week] = [a \in Apps |->
                     IF a \notin DOMAIN report.records THEN @[a]
                     ELSE [count |-> @[a].count + 1,
                           total |-> [k \in DOMAIN Zero |-> @[a].total[k] + report.records[a][k]]]]]
             /\ Answer(TRUE)

Ingest ==
    /\ \E r \in wire :
         /\ ingest_aggregate_metrics(r.report, ~r.late)
         /\ wire' \in {wire, wire \ {r}}   \* a request may arrive twice
    /\ UNCHANGED <<device, recorded, stale, events, faults>>

\* The upload thread hears 202 with the batch, or an error, or nothing.
finish_metrics_upload ==
    /\ up
    /\ \E report \in upload, ok \in BOOLEAN :
         /\ ok => [batch |-> report.batch, ok |-> TRUE] \in answers
         /\ upload' = {}
         /\ \/ /\ policy # "allowed"
               /\ Saved(Default) \/ NotSaved(Default)
            \/ /\ policy = "allowed"
               /\ ~ok \/ memory.pending # {report}
               /\ UNCHANGED <<memory, disk, faults>>
            \/ /\ policy = "allowed"
               /\ ok /\ memory.pending = {report}
               /\ LET next == [memory EXCEPT
                         !.pending = {},
                         !.weeks = Restrict(@, DOMAIN @ \ {report.week})]
                  IN  Saved(next) \/ NotSaved(next)
    /\ answers' = {}
    /\ wire' = {[r EXCEPT !.late = TRUE] : r \in wire}
    /\ UNCHANGED <<policy, clock, up, checked, server, issued, recorded, stale, events>>

(***************************************************************************)
(* The service's restart, the clocks and the device policy.                *)
(***************************************************************************)
Crash ==
    /\ up /\ faults < MaxFaults
    /\ faults' = faults + 1
    /\ up' = FALSE
    /\ memory' = Default
    /\ checked' = [t \in Threads |-> {}]
    /\ upload' = {}
    /\ answers' = {}
    /\ wire' = {[r EXCEPT !.late = TRUE] : r \in wire}
    /\ UNCHANGED <<policy, clock, disk, server, issued, recorded, stale, events>>

\* load_metrics_state, and what a policy that no longer allows it clears.
Restart ==
    /\ ~up
    /\ validate_metrics_state(disk)
    /\ \/ policy = "allowed" /\ memory' = disk /\ up' = TRUE /\ UNCHANGED <<disk, faults>>
       \/ /\ policy # "allowed"
          /\ \/ Saved(Default) /\ up' = TRUE
             \/ disk # Default /\ NotSaved(Default) /\ UNCHANGED up
    /\ UNCHANGED <<policy, clock, checked, upload, wire, answers, server, issued,
                   recorded, stale, events>>

WeekPasses ==
    /\ \/ clock < MaxWeek /\ clock' = clock + 1 /\ UNCHANGED server
       \/ server.clock < MaxWeek /\ server' = [server EXCEPT !.clock = @ + 1] /\ UNCHANGED clock
    /\ UNCHANGED <<policy, memory, disk, up, checked, upload, issued, wire, answers,
                   recorded, stale, events, faults>>

PolicyChanges ==
    /\ faults < MaxFaults
    /\ faults' = faults + 1
    /\ policy' \in {"allowed", "denied", "unreadable"} \ {policy}
    /\ UNCHANGED <<clock, memory, disk, up, checked, upload, issued, wire, answers, server,
                   recorded, stale, events>>

Init ==
    /\ policy = "allowed" /\ clock = 1
    /\ memory = Default /\ disk = Default /\ up = TRUE
    /\ checked = [t \in Threads |-> {}]
    /\ upload = {} /\ wire = {} /\ answers = {} /\ issued = 0
    /\ server = [clock |-> 1, batches |-> {},
                 aggregate |-> [w \in Weeks |-> [a \in Apps |-> [count |-> 0, total |-> Zero]]]]
    /\ recorded = [w \in Weeks |-> [a \in Apps |-> Zero]]
    /\ stale = FALSE /\ events = 0 /\ faults = 0

Next ==
    \/ \E t \in Threads :
         \/ GetMetrics(t) \/ set_metrics(t, TRUE) \/ set_metrics(t, FALSE)
         \/ StartRecord(t) \/ record_metric(t)
         \/ StartUpload(t) \/ start_metrics_upload(t)
    \/ Ingest \/ finish_metrics_upload
    \/ Crash \/ Restart \/ WeekPasses \/ PolicyChanges

Spec == Init /\ [][Next]_vars
-----------------------------------------------------------------------------
TypeOK ==
    /\ policy \in {"allowed", "denied", "unreadable"}
    /\ clock \in Weeks /\ server.clock \in Weeks
    /\ up \in BOOLEAN /\ stale \in BOOLEAN
    /\ DOMAIN checked = Threads
    /\ Cardinality(upload) <= 1 /\ Cardinality(memory.pending) <= 1

\* Without consent nothing is kept, in memory or on disk, whatever a thread
\* that checked the consent before it was withdrawn still had to record; and
\* what is on disk always loads again.
NothingWithoutConsent ==
    \A m \in {memory, disk} :
        /\ ~m.enabled => m.weeks = <<>> /\ m.pending = {}
        /\ validate_metrics_state(m)

\* One batch identifier is one report: no retry, however late, is answered
\* with an idempotency conflict.
RetriesAreExact ==
    LET sent == upload \cup {r.report : r \in wire} \cup {b.report : b \in server.batches}
    IN  \A r, q \in sent : r.batch = q.batch => r = q

\* The aggregate counts a device once a week and no event that it did not
\* record, over lost answers, late requests, failed saves and restarts.
CountedOnce ==
    \A w \in Weeks, a \in Apps :
        LET sum == server.aggregate[w][a]
        IN  /\ sum.total.crashes <= sum.total.launches
            /\ ~stale => /\ sum.count <= 1
                         /\ \A k \in DOMAIN Zero : sum.total[k] <= recorded[w][a][k]

\* A device's weekly counts are sent only with consent, under one identifier
\* per report, and are counted once.
MetricsSound == TypeOK /\ NothingWithoutConsent /\ RetriesAreExact /\ CountedOnce
=============================================================================
