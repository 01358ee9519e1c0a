------------------------------ MODULE StoreUpload ------------------------------
(***************************************************************************)
(* A submission on its way into the Store.  `cp0ctl store submit' creates  *)
(* a submission, uploads its parts chunk by chunk and finalizes it; each   *)
(* call carries an idempotency key and the version it expects, and is      *)
(* repeated when its answer does not come.  A request that timed out may   *)
(* still be executed, even after the one that replaced it.                 *)
(*                                                                         *)
(* The control server executes a request in one SERIALIZABLE transaction.  *)
(* A chunk is written to the object store before that transaction commits; *)
(* meanwhile a garbage collector removes the chunks nothing refers to.     *)
(***************************************************************************)
EXTENDS Integers, Sequences, FiniteSets

CONSTANTS
    Clients,            \* runs of `cp0ctl store submit'
    Members,            \* the members of the team that owns the application
    Parts,              \* the parts of a bundle, in the order of their upload
    Bundle,             \* the chunk digests of each part
    Digests,            \* chunk digests
    Submissions,        \* submission identities
    Collectors,         \* runs of cp0-store-object-gc --apply
    MaxAttempts         \* MAX_RETRY_ATTEMPTS

VARIABLES
    submissions,        \* submissions, upload parts and upload chunks
    idempotency,        \* idempotency_records
    files,              \* the object store: is the chunk there, its inode, is it old
    requests,           \* requests sent and not yet answered for good
    client,             \* the runs of cp0ctl
    collector           \* the runs of the collector

vars == <<submissions, idempotency, files, requests, client, collector>>

PartNames == DOMAIN Bundle

NoFile == [there |-> FALSE, inode |-> 0, old |-> FALSE]
NoSubmission == [state |-> "none", version |-> 0, creator |-> {},
                 parts |-> [p \in PartNames |-> << >>]]

Init ==
    /\ submissions = [s \in Submissions |-> NoSubmission]
    /\ idempotency = {}
    /\ files = [d \in Digests |-> NoFile]
    /\ requests = {}
    /\ client = [c \in Clients |-> [pc |-> "authorize", call |-> <<"create">>, members |-> << >>,
                    sub |-> 0, etag |-> 0, attempt |-> 0, reauthorized |-> FALSE]]
    /\ collector = [g \in Collectors |-> [pc |-> "idle", seen |-> {}, orphans |-> {}]]

----------------------------------------------------------------------------
(* cp0ctl                                                                  *)

\* The call after this one: create, each chunk of each part, finalize.
FirstOf(k) == IF k > Len(Parts) THEN <<"finalize">> ELSE <<"upload", k, 1>>
NextCall(call) ==
    CASE call[1] = "create" -> FirstOf(1)
      [] call[1] = "upload" -> IF call[3] < Len(Bundle[Parts[call[2]]])
                               THEN <<"upload", call[2], call[3] + 1>>
                               ELSE FirstOf(call[2] + 1)
      [] call[1] = "finalize" -> <<"done">>

Member(c) == client[c].members[Len(client[c].members)]

\* authorize_with_retry: whoever enters the code becomes the actor.
Authorize(c) ==
    /\ client[c].pc = "authorize"
    /\ \/ \E m \in Members : client' = [client EXCEPT ![c].pc = "send",
                                                      ![c].members = Append(@, m)]
       \/ client' = [client EXCEPT ![c].pc = "denied"]
    /\ UNCHANGED <<submissions, idempotency, files, requests, collector>>

\* One round of call_with_retry.
Send(c) ==
    /\ client[c].pc = "send"
    /\ \/ /\ client[c].attempt < MaxAttempts
          /\ client' = [client EXCEPT ![c].pc = "wait", ![c].attempt = @ + 1]
          /\ requests' = requests \cup {[client |-> c, attempt |-> client[c].attempt + 1,
                member |-> Member(c), call |-> client[c].call, sub |-> client[c].sub,
                etag |-> client[c].etag, phase |-> "sent", answer |-> << >>]}
       \/ /\ client[c].attempt = MaxAttempts
          /\ client' = [client EXCEPT ![c].pc = "exhausted"]
          /\ UNCHANGED requests
    /\ UNCHANGED <<submissions, idempotency, files, collector>>

Awaited(q) == /\ client[q.client].pc = "wait"
              /\ client[q.client].call = q.call /\ client[q.client].attempt = q.attempt

\* HTTP_TIMEOUT or a broken connection: retried, whatever became of the request.
TransportFails(c) ==
    /\ client[c].pc = "wait"
    /\ client' = [client EXCEPT ![c].pc = "send"]
    /\ requests' = {q \in requests : ~(q.phase = "answered" /\ Awaited(q))}
    /\ UNCHANGED <<submissions, idempotency, files, collector>>

\* The answer of the present attempt arrives.
Receive(q) ==
    LET c == q.client
    IN  /\ q.phase = "answered" /\ Awaited(q)
        /\ requests' = requests \ {q}
        /\ client' = [client EXCEPT ![c] =
              CASE q.answer[1] = "ok" ->
                     [@ EXCEPT !.pc = IF q.call = <<"finalize">> THEN "done" ELSE "send",
                               !.call = NextCall(q.call), !.attempt = 0,
                               !.reauthorized = FALSE,
                               !.sub = q.answer[2], !.etag = q.answer[3]]
                [] q.answer[1] = "unavailable" -> [@ EXCEPT !.pc = "send"]
                [] q.answer[1] = "unauthorized" /\ ~client[c].reauthorized ->
                     [@ EXCEPT !.pc = "authorize", !.reauthorized = TRUE]
                [] q.answer[1] = "unauthorized" /\ client[c].reauthorized ->
                     [@ EXCEPT !.pc = "expired"]
                [] OTHER -> [@ EXCEPT !.pc = "failed"]]
        /\ UNCHANGED <<submissions, idempotency, files, collector>>

----------------------------------------------------------------------------
(* The control server                                                      *)

\* Nobody waits for the answer of an attempt that was given up.
Answer(q, answer) ==
    requests' = (requests \ {q}) \cup
        (IF Awaited(q) THEN {[q EXCEPT !.phase = "answered", !.answer = answer]} ELSE {})

\* An access token lives ACCESS_TOKEN_TTL_SECONDS; a failed or exhausted
\* transaction, or a server that dies, changes nothing and answers so.
Unserved(q) ==
    /\ q.phase \in {"sent", "locked", "stored"}
    /\ \/ Answer(q, <<"unavailable">>)
       \/ q.phase = "sent" /\ Answer(q, <<"unauthorized">>)
    /\ UNCHANGED <<submissions, idempotency, files, client, collector>>

\* reserve_idempotency: the records of this actor and key.
Recorded(q) == {r \in idempotency : r.member = q.member /\ r.client = q.client /\ r.call = q.call}
Fresh(q) == Recorded(q) = {}

\* A repeated request is answered from its record if it asks for the same.
Replay(q) ==
    /\ q.phase = "sent"
    /\ \E r \in Recorded(q) :
          Answer(q, IF r.sub = q.sub /\ r.etag = q.etag THEN r.answer ELSE <<"conflict">>)
    /\ UNCHANGED <<submissions, idempotency, files, client, collector>>

\* The mutation, its idempotency record and its answer.
Complete(q, s, version) ==
    LET answer == <<"ok", s, version>>
    IN  /\ idempotency' = idempotency \cup {[member |-> q.member, client |-> q.client,
              call |-> q.call, sub |-> q.sub, etag |-> q.etag, answer |-> answer]}
        /\ Answer(q, answer)

CreateSubmission(q) ==
    /\ q.phase = "sent" /\ q.call = <<"create">> /\ Fresh(q)
    /\ \E s \in Submissions :
          /\ submissions[s].state = "none" /\ \A t \in 1 .. s - 1 : submissions[t].state # "none"
          /\ submissions' = [submissions EXCEPT ![s] = [NoSubmission EXCEPT
                !.state = "uploading", !.version = 1, !.creator = {q.client}]]
          /\ Complete(q, s, 1)
    /\ UNCHANGED <<files, client, collector>>

\* The version and the state a request of this submission needs.
Matches(q) == submissions[q.sub].version = q.etag /\ submissions[q.sub].state = "uploading"

\* precondition_failed, invalid_transition, upload_range_conflict, digest_mismatch
Refused(q) ==
    /\ q.phase = "sent" /\ q.call[1] \in {"upload", "finalize"} /\ Fresh(q)
    /\ \/ ~Matches(q)
       \/ q.call[1] = "upload"
          /\ Len(submissions[q.sub].parts[Parts[q.call[2]]]) # q.call[3] - 1
       \/ q.call[1] = "finalize" /\ submissions[q.sub].parts # Bundle
    /\ Answer(q, <<"refused">>)
    /\ UNCHANGED <<submissions, idempotency, files, client, collector>>

Collecting == \E g \in Collectors : collector[g].pc = "collect"
Writing == \E q \in requests : q.phase \in {"locked", "stored"}

PartOf(q) == Parts[q.call[2]]
DigestOf(q) == Bundle[PartOf(q)][q.call[3]]

\* Uploads do not wait for a collector.
Fault_UploadLock(q) ==
    /\ q.phase = "sent" /\ q.call[1] = "upload" /\ Fresh(q) /\ Matches(q)
    /\ Len(submissions[q.sub].parts[PartOf(q)]) = q.call[3] - 1
    /\ requests' = (requests \ {q}) \cup {[q EXCEPT !.phase = "locked"]}
    /\ UNCHANGED <<submissions, idempotency, files, client, collector>>

\* Up to acquire_object_gc_upload_lock, which waits for a collector.
UploadLock(q) ==
    /\ q.phase = "sent" /\ q.call[1] = "upload" /\ Fresh(q) /\ Matches(q)
    /\ Len(submissions[q.sub].parts[PartOf(q)]) = q.call[3] - 1
    /\ ~Collecting
    /\ requests' = (requests \ {q}) \cup {[q EXCEPT !.phase = "locked"]}
    /\ UNCHANGED <<submissions, idempotency, files, client, collector>>

\* store_chunk keeps a file that is there.  A new file is a new inode.
StoreChunk(q) ==
    /\ q.phase = "locked"
    /\ files' = [files EXCEPT ![DigestOf(q)] =
          IF @.there THEN @ ELSE [there |-> TRUE, inode |-> @.inode + 1, old |-> FALSE]]
    /\ requests' = (requests \ {q}) \cup {[q EXCEPT !.phase = "stored"]}
    /\ UNCHANGED <<submissions, idempotency, client, collector>>

\* The commit, if nothing this transaction read has changed; otherwise the
\* transaction is repeated.
UploadCommit(q) ==
    /\ q.phase = "stored"
    /\ \/ /\ Fresh(q) /\ Matches(q)
          /\ submissions' = [submissions EXCEPT ![q.sub].version = @ + 1,
                ![q.sub].parts[PartOf(q)] = Append(@, DigestOf(q))]
          /\ Complete(q, q.sub, q.etag + 1)
       \/ /\ ~(Fresh(q) /\ Matches(q))
          /\ requests' = (requests \ {q}) \cup {[q EXCEPT !.phase = "sent"]}
          /\ UNCHANGED <<submissions, idempotency>>
    /\ UNCHANGED <<files, client, collector>>

\* verify_uploaded_part reads every chunk again.
FinalizeSubmission(q) ==
    /\ q.phase = "sent" /\ q.call = <<"finalize">> /\ Fresh(q) /\ Matches(q)
    /\ submissions[q.sub].parts = Bundle
    /\ \A p \in PartNames : \A i \in DOMAIN Bundle[p] : files[Bundle[p][i]].there
    /\ submissions' = [submissions EXCEPT ![q.sub].state = "processing", ![q.sub].version = @ + 1]
    /\ Complete(q, q.sub, q.etag + 1)
    /\ UNCHANGED <<files, client, collector>>

\* Another member withdraws the submission.
WithdrawSubmission(s) ==
    /\ submissions[s].state \in {"uploading", "processing"}
    /\ submissions' = [submissions EXCEPT ![s].state = "withdrawn", ![s].version = @ + 1]
    /\ UNCHANGED <<idempotency, files, requests, client, collector>>

Serve(q) ==
    \/ Replay(q) \/ CreateSubmission(q) \/ Refused(q) \/ UploadLock(q) \/ StoreChunk(q)
    \/ UploadCommit(q) \/ FinalizeSubmission(q)

----------------------------------------------------------------------------
(* The collector                                                           *)

Referenced == UNION {UNION {{submissions[s].parts[p][i] : i \in DOMAIN submissions[s].parts[p]} :
                            p \in PartNames} : s \in Submissions}

Stored == {d \in Digests : files[d].there}

\* The inventory is taken before the lock.
Inventory(g) ==
    /\ collector[g].pc = "idle"
    /\ collector' = [collector EXCEPT ![g] = [pc |-> "seen", orphans |-> {},
          seen |-> {<<d, files[d].inode>> : d \in Stored}]]
    /\ UNCHANGED <<submissions, idempotency, files, requests, client>>

\* Under the exclusive lock: resolve the references, and fail if a candidate is
\* not the file of the inventory any more.
ResolveReferences(g) ==
    LET Unchanged(f) == files[f[1]].there /\ files[f[1]].inode = f[2]
        Orphans == {f \in collector[g].seen :
                      f[1] \notin Referenced /\ (Unchanged(f) => files[f[1]].old)}
    IN  /\ collector[g].pc = "seen"
        /\ ~Collecting /\ ~Writing
        /\ collector' = [collector EXCEPT ![g] =
              IF \A f \in Orphans : Unchanged(f)
              THEN [pc |-> "collect", seen |-> {}, orphans |-> {f[1] : f \in Orphans}]
              ELSE [pc |-> "ended", seen |-> {}, orphans |-> {}]]
        /\ UNCHANGED <<submissions, idempotency, files, requests, client>>

DeleteOrphan(g) ==
    /\ collector[g].pc = "collect"
    /\ \E d \in collector[g].orphans :
          /\ files' = [files EXCEPT ![d].there = FALSE, ![d].old = FALSE]
          /\ collector' = [collector EXCEPT ![g].orphans = @ \ {d}]
    /\ UNCHANGED <<submissions, idempotency, requests, client>>

\* The end of the run, or a failure in the middle of it, releases the lock.
EndCollection(g) ==
    /\ collector[g].pc = "collect"
    /\ collector' = [collector EXCEPT ![g] = [pc |-> "ended", seen |-> {}, orphans |-> {}]]
    /\ UNCHANGED <<submissions, idempotency, files, requests, client>>

\* DEFAULT_OBJECT_GC_MINIMUM_AGE_SECONDS pass.
Age(d) ==
    /\ files[d].there /\ ~files[d].old
    /\ files' = [files EXCEPT ![d].old = TRUE]
    /\ UNCHANGED <<submissions, idempotency, requests, client, collector>>

Next ==
    \/ \E c \in Clients : Authorize(c) \/ Send(c) \/ TransportFails(c)
    \/ \E q \in requests : Receive(q) \/ Unserved(q) \/ Serve(q)
    \/ \E s \in Submissions : WithdrawSubmission(s)
    \/ \E g \in Collectors :
          Inventory(g) \/ ResolveReferences(g) \/ DeleteOrphan(g) \/ EndCollection(g)
    \/ \E d \in Digests : Age(d)

Spec == Init /\ [][Next]_vars

----------------------------------------------------------------------------
(* Properties                                                              *)

Ends == {"done", "denied", "exhausted", "expired", "failed"}

\* The types of the tables, the object store and the processes.
TypeOK ==
    /\ \A s \in Submissions :
          /\ submissions[s].state \in {"none", "uploading", "processing", "withdrawn"}
          /\ submissions[s].version \in Nat
          /\ submissions[s].creator \subseteq Clients
          /\ \A p \in PartNames : submissions[s].parts[p] \in Seq(Digests)
    /\ files \in [Digests -> [there : BOOLEAN, inode : Nat, old : BOOLEAN]]
    /\ \A c \in Clients :
          /\ client[c].pc \in {"authorize", "send", "wait"} \cup Ends
          /\ client[c].sub \in Submissions \cup {0}
          /\ client[c].attempt \in 0 .. MaxAttempts
    /\ \A q \in requests : q.phase \in {"sent", "locked", "stored", "answered"}
    /\ \A g \in Collectors :
          /\ collector[g].pc \in {"idle", "seen", "collect", "ended"}
          /\ collector[g].orphans \subseteq Digests

\* A chunk a submission refers to is never missing from the object store, and
\* none is about to be deleted: the upload that made the reference and the
\* collector exclude each other (upload_submission_part_once and
\* collect_content_objects, through the advisory lock).
ReferencedKept ==
    /\ Referenced \subseteq Stored
    /\ \A g \in Collectors : collector[g].orphans \cap Referenced = {}

OneMember(c) == \A i, j \in DOMAIN client[c].members : client[c].members[i] = client[c].members[j]

\* However often it is repeated, create_submission makes one submission for a
\* run of cp0ctl that the same member authorizes throughout (the records of
\* reserve_idempotency belong to a member).
OneSubmissionPerRun ==
    \A c \in Clients : OneMember(c) =>
        Cardinality({s \in Submissions : c \in submissions[s].creator}) <= 1

\* The chunks of a part are always the first ones of the bundle, each once and
\* in order, whatever requests are lost, repeated or late.
UploadedOnce ==
    \A s \in Submissions : \A p \in PartNames :
        /\ Len(submissions[s].parts[p]) <= Len(Bundle[p])
        /\ \A i \in DOMAIN submissions[s].parts[p] : submissions[s].parts[p][i] = Bundle[p][i]

\* The version a run expects is that of its submission, or the one before it
\* exactly when the present call was executed and its answer not yet taken.
InStep ==
    \A c \in Clients : \A s \in Submissions :
        (client[c].pc \in {"send", "wait"} /\ client[c].sub = s
            /\ submissions[s].state # "withdrawn") =>
        LET executed == \E r \in idempotency : r.client = c /\ r.call = client[c].call
        IN  submissions[s].version = client[c].etag + (IF executed THEN 1 ELSE 0)

\* A run of one member fails for good only when somebody withdrew its
\* submission: an answer that was lost never turns its repetition into an error
\* (execute_submission, call_with_retry).
FailsOnlyIfWithdrawn ==
    \A c \in Clients : (client[c].pc = "failed" /\ OneMember(c)) =>
        client[c].sub # 0 /\ submissions[client[c].sub].state = "withdrawn"

\* A run that reports success left a submission that holds the whole bundle and
\* was finalized.
DoneIsFinalized ==
    \A c \in Clients : client[c].pc = "done" =>
        /\ submissions[client[c].sub].state \in {"processing", "withdrawn"}
        /\ submissions[client[c].sub].parts = Bundle

\* Client and server agree on the upload: one submission, each chunk once, the
\* same version, and the outcome that the run reports; and the object store
\* keeps every chunk that is referred to.
UploadSound ==
    /\ TypeOK /\ ReferencedKept
    /\ OneSubmissionPerRun /\ UploadedOnce /\ InStep
    /\ FailsOnlyIfWithdrawn /\ DoneIsFinalized
===============================================================================
