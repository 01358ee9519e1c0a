----------------------------- MODULE StoreModeration -----------------------------
(***************************************************************************)
(* Content reports, the notices to developers that follow from them and    *)
(* the appeals against those notices.  Anybody may report a published      *)
(* release; an operator decides the report; the developer may appeal a     *)
(* notice until its deadline; an operator decides the appeal.  A request   *)
(* carries an idempotency key, and the version of what its sender had read *)
(* when it was sent; it is executed later, perhaps after other requests on *)
(* the same object, and may be sent again when its answer was lost.  Every *)
(* execution is one SERIALIZABLE transaction.  A notice is named by its    *)
(* report, and an appeal by its notice.                                    *)
(***************************************************************************)
EXTENDS Naturals, FiniteSets

CONSTANTS
    Reports,
    Keys,               \* idempotency keys, one per request
    MAX_UNTRIAGED_REPORTS,
    None

VARIABLES
    report, notice, appeal,
    request,            \* of each key: the request sent with it
    recorded            \* keys whose response is stored (idempotency_records)

vars == <<report, notice, appeal, request, recorded>>

Dispositions == [no_action |-> "closed-no-action", developer_notice |-> "notice-issued",
                 security_escalation |-> "security-escalated"]

Resolved == [accepted |-> "resolved-accepted", upheld |-> "resolved-upheld"]

Init ==
    /\ report = [r \in Reports |-> [state |-> "none", version |-> 0, disposition |-> None, by |-> None]]
    /\ notice = [r \in Reports |-> [state |-> "none", version |-> 0, lapsed |-> FALSE]]
    /\ appeal = [r \in Reports |-> [state |-> "none", version |-> 0]]
    /\ request = [k \in Keys |-> None]
    /\ recorded = {}

----------------------------------------------------------------------------
(* Requests                                                                *)

Body(op, r, version, to) == [op |-> op, report |-> r, version |-> version, to |-> to]

\* A client reads what it acts on and sends its request.
Send(k) ==
    /\ request[k] = None
    /\ \/ request' = [request EXCEPT ![k] = Body("submit", None, 0, None)]
       \/ \E r \in Reports :
            \/ \E d \in DOMAIN Dispositions :
                  report[r].state # "none"
                  /\ request' = [request EXCEPT ![k] = Body("decide", r, report[r].version, d)]
            \/ notice[r].state # "none"
               /\ request' = [request EXCEPT ![k] = Body("appeal", r, notice[r].version, None)]
            \/ \E d \in DOMAIN Resolved :
                  appeal[r].state # "none"
                  /\ request' = [request EXCEPT ![k] = Body("decide-appeal", r, appeal[r].version, d)]
    /\ UNCHANGED <<report, notice, appeal, recorded>>

\* reserve_idempotency finds nothing stored, and the response is stored with
\* what the request did.  A stored response is answered again and does nothing;
\* a refusal stores nothing.
Fresh(k, op) ==
    /\ request[k] # None /\ request[k].op = op
    /\ k \notin recorded
    /\ recorded' = recorded \union {k}
    /\ UNCHANGED request

Untriaged == {r \in Reports : report[r].state = "submitted"}

submit_content_report_once(k, r) ==
    /\ Fresh(k, "submit")
    /\ Cardinality(Untriaged) < MAX_UNTRIAGED_REPORTS
    /\ report[r].state = "none"
    /\ report' = [report EXCEPT ![r] = [state |-> "submitted", version |-> 1,
                                        disposition |-> None, by |-> k]]
    /\ UNCHANGED <<notice, appeal>>

\* insert_developer_notice
NoticeOpen == [state |-> "open", version |-> 1, lapsed |-> FALSE]

decide_content_report_once(k) ==
    LET r == request[k].report
        d == request[k].to
    IN  /\ Fresh(k, "decide")
        /\ report[r].version = request[k].version /\ report[r].state = "submitted"
        /\ report' = [report EXCEPT ![r].state = Dispositions[d], ![r].disposition = d, ![r].version = @ + 1]
        /\ notice' = IF d = "developer_notice" THEN [notice EXCEPT ![r] = NoticeOpen] ELSE notice
        /\ UNCHANGED appeal

\* Fault: the version is trusted, and the state and the deadline are not read again.
Fault_appeal_notice_once(k) ==
    LET r == request[k].report
    IN  /\ Fresh(k, "appeal")
        /\ appeal' = [appeal EXCEPT ![r] = [state |-> "pending", version |-> 1]]
        /\ notice' = [notice EXCEPT ![r].state = "appealed", ![r].version = 2]
        /\ UNCHANGED report

appeal_notice_once(k) ==
    LET r == request[k].report
    IN  /\ Fresh(k, "appeal")
        /\ notice[r].version = request[k].version
        /\ notice[r].state = "open" /\ ~notice[r].lapsed
        /\ appeal' = [appeal EXCEPT ![r] = [state |-> "pending", version |-> 1]]
        /\ notice' = [notice EXCEPT ![r].state = "appealed", ![r].version = 2]
        /\ UNCHANGED report

decide_appeal_once(k) ==
    LET r == request[k].report
        d == request[k].to
    IN  /\ Fresh(k, "decide-appeal")
        /\ appeal[r].version = request[k].version /\ appeal[r].state = "pending"
        /\ report[r].state = "notice-issued" /\ report[r].version = 2
        /\ appeal' = [appeal EXCEPT ![r] = [state |-> d, version |-> 2]]
        /\ notice' = IF notice[r].state = "appealed"
                     THEN [notice EXCEPT ![r].state = Resolved[d], ![r].version = 3] ELSE notice
        /\ report' = [report EXCEPT ![r].state = "closed-after-appeal", ![r].version = 3]

\* APPEAL_WINDOW_SECONDS have passed.
NoticeDeadline(r) ==
    /\ notice[r].state = "open" /\ ~notice[r].lapsed
    /\ notice' = [notice EXCEPT ![r].lapsed = TRUE]
    /\ UNCHANGED <<report, appeal, request, recorded>>

Next ==
    \/ \E k \in Keys :
        \/ Send(k)
        \/ \E r \in Reports : submit_content_report_once(k, r)
        \/ decide_content_report_once(k) \/ appeal_notice_once(k) \/ decide_appeal_once(k)
    \/ \E r \in Reports : NoticeDeadline(r)

Spec == Init /\ [][Next]_vars

----------------------------------------------------------------------------
(* Properties                                                              *)

NoticeStates == {"none", "open", "appealed", "resolved-accepted", "resolved-upheld"}

TypeOK ==
    /\ report \in [Reports -> [state : {"none", "submitted", "closed-no-action", "notice-issued",
                                        "security-escalated", "closed-after-appeal"},
                               version : 0..3, disposition : DOMAIN Dispositions \union {None},
                               by : Keys \union {None}]]
    /\ notice \in [Reports -> [state : NoticeStates, version : 0..3, lapsed : BOOLEAN]]
    /\ appeal \in [Reports -> [state : {"none", "pending", "accepted", "upheld"}, version : 0..2]]
    /\ recorded \subseteq {k \in Keys : request[k] # None}

\* A report, its notice and the appeal against it tell one story, in their
\* states and in their versions, which three tables hold and three handlers
\* write: a notice is there when a report led to one, appealed while an appeal
\* is pending, resolved the way the appeal was decided, and only then closed.
CaseIsConsistent ==
    \A r \in Reports :
        LET story == <<report[r].state, notice[r].state, appeal[r].state>>
        IN  \/ notice[r].state = "none" /\ appeal[r].state = "none"
               /\ report[r].state \notin {"notice-issued", "closed-after-appeal"}
               /\ report[r].version
                    = (CASE report[r].state = "none" -> 0 [] report[r].state = "submitted" -> 1
                         [] OTHER -> 2)
            \/ /\ report[r].disposition = "developer_notice"
               /\ <<report[r].version, notice[r].version, appeal[r].version>>
                    = (CASE notice[r].state = "open" -> <<2, 1, 0>>
                         [] notice[r].state = "appealed" -> <<2, 2, 1>>
                         [] OTHER -> <<3, 3, 2>>)
               /\ story \in {<<"notice-issued", "open", "none">>,
                             <<"notice-issued", "appealed", "pending">>,
                             <<"closed-after-appeal", "resolved-accepted", "accepted">>,
                             <<"closed-after-appeal", "resolved-upheld", "upheld">>}

\* What an operator or a developer was told had been done stays done: of two
\* requests on one object sent from the same version one is answered with
\* success, and a later one never takes its place.
AnsweredStands ==
    \A k \in recorded :
        LET q == request[k]
        IN  CASE q.op = "submit" -> Cardinality({r \in Reports : report[r].by = k}) = 1
              [] q.op = "decide" -> report[q.report].disposition = q.to
              [] q.op = "appeal" -> appeal[q.report].state # "none" /\ ~notice[q.report].lapsed
              [] q.op = "decide-appeal" -> appeal[q.report].state = q.to

\* The queue of reports nobody has looked at is bounded.
UntriagedBounded == Cardinality(Untriaged) <= MAX_UNTRIAGED_REPORTS

\* No two requests are both told that they decided the same thing.
DecidedOnce ==
    \A j, k \in recorded :
        j # k /\ request[j].op = request[k].op /\ request[j].op # "submit"
            => request[j].report # request[k].report

\* Reports, notices and appeals stay consistent, each is decided once, and an
\* answered request stays answered, whatever versions the senders had read.
ModerationSound ==
    /\ TypeOK /\ CaseIsConsistent /\ AnsweredStands /\ UntriagedBounded /\ DecidedOnce
================================================================================
