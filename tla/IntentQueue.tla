---------------------------- MODULE IntentQueue ----------------------------
(***************************************************************************)
(* Intents between apps: the bounded queue of intent.rs and the broker     *)
(* thread of server.rs, which queues a message, answers the sender, takes  *)
(* the message back if the answer cannot be written, and otherwise starts  *)
(* the receiver.  The control thread starts, stops and removes apps at any *)
(* time.  The queue lives in memory and is lost with appd.                 *)
(***************************************************************************)
EXTENDS Integers, Sequences

CONSTANTS
    Apps,
    MaxPending,     \* MAX_PENDING_INTENTS
    U64Max          \* u64::MAX

ConstantsSound == MaxPending \in Nat /\ U64Max \in Nat

VARIABLES
    pending,        \* IntentQueue.pending: [id, target]
    next_id,        \* IntentQueue.next_id
    broker,         \* the broker thread's step and the intent it handles
    installed, running,
    accepted,       \* history: identifiers whose acknowledgement was written
    taken           \* history: identifiers per target in the order taken

appVars == <<installed, running>>
vars == <<pending, next_id, broker, appVars, accepted, taken>>

Idle == [pc |-> "idle"]

Init ==
    /\ pending = <<>>
    /\ next_id = 0
    /\ broker = Idle
    /\ installed = Apps
    /\ running = {}
    /\ accepted = {}
    /\ taken = [a \in Apps |-> <<>>]

\* IntentQueueError::Full otherwise
HasRoom == Len(pending) < MaxPending

\* dispatch_send_intent for an action with exactly one receiver; without one,
\* with several, or with a full queue nothing changes.
Send(sender, target) ==
    /\ broker = Idle
    /\ sender \in running
    /\ target \in installed
    /\ HasRoom
    /\ next_id < U64Max
    /\ next_id' = next_id + 1
    /\ pending' = Append(pending, [id |-> next_id + 1, target |-> target])
    /\ broker' = [pc |-> "respond", id |-> next_id + 1, target |-> target]
    /\ UNCHANGED <<appVars, accepted, taken>>

\* Iterator::position, for the places that match
Position(matching) == CHOOSE k \in matching : \A j \in matching : k <= j

\* VecDeque::remove
Remove(k) == SubSeq(pending, 1, k - 1) \o SubSeq(pending, k + 1, Len(pending))

\* IntentQueue::cancel; the receiver may already have taken it
Cancel(id) ==
    LET matching == {k \in DOMAIN pending : pending[k].id = id}
    IN  IF matching = {} THEN pending ELSE Remove(Position(matching))

\* Fault: the message stays when the sender is gone
Fault_Respond(ok) ==
    /\ broker.pc = "respond"
    /\ accepted' = IF ok THEN accepted \cup {broker.id} ELSE accepted
    /\ broker' = IF ok THEN [broker EXCEPT !.pc = "start"] ELSE Idle
    /\ UNCHANGED <<pending, next_id, appVars, taken>>

\* handle_broker_connection writes intent-accepted.
Respond(ok) ==
    /\ broker.pc = "respond"
    /\ pending' = IF ok THEN pending ELSE Cancel(broker.id)
    /\ accepted' = IF ok THEN accepted \cup {broker.id} ELSE accepted
    /\ broker' = IF ok THEN [broker EXCEPT !.pc = "start"] ELSE Idle
    /\ UNCHANGED <<next_id, appVars, taken>>

\* complete_intent_transition; a failure is logged and the message stays.
StartTarget(ok) ==
    /\ broker.pc = "start"
    /\ ok => broker.target \in installed
    /\ running' = IF ok THEN running \cup {broker.target} ELSE running
    /\ broker' = Idle
    /\ UNCHANGED <<pending, next_id, installed, accepted, taken>>

Waiting(a) == {k \in DOMAIN pending : pending[k].target = a}

\* TakeIntent of an authenticated process; the message is gone from the queue
\* even if the answer cannot be written
Take(a) ==
    /\ broker = Idle
    /\ a \in running
    /\ Waiting(a) # {}
    /\ LET k == Position(Waiting(a))
       IN  /\ taken' = [taken EXCEPT ![a] = Append(@, pending[k].id)]
           /\ pending' = Remove(k)
    /\ UNCHANGED <<next_id, broker, appVars, accepted>>

\* The control thread
Start(a) ==
    /\ a \in installed \ running
    /\ running' = running \cup {a}
    /\ UNCHANGED <<pending, next_id, broker, installed, accepted, taken>>

\* A stop, an eviction or an exit leaves the queue alone.
Stop(a) ==
    /\ a \in running
    /\ running' = running \ {a}
    /\ UNCHANGED <<pending, next_id, broker, installed, accepted, taken>>

\* Removal leaves the messages of the app in the queue.
Uninstall(a) ==
    /\ a \in installed \ running
    /\ installed' = installed \ {a}
    /\ UNCHANGED <<pending, next_id, broker, running, accepted, taken>>

Install(a) ==
    /\ a \notin installed
    /\ installed' = installed \cup {a}
    /\ UNCHANGED <<pending, next_id, broker, running, accepted, taken>>

Next ==
    \/ \E sender, target \in Apps : Send(sender, target)
    \/ \E ok \in BOOLEAN : Respond(ok) \/ StartTarget(ok)
    \/ \E a \in Apps : Take(a) \/ Start(a) \/ Stop(a) \/ Uninstall(a) \/ Install(a)

Spec == Init /\ [][Next]_vars

-----------------------------------------------------------------------------
(* Properties                                                              *)

\* Every variable has its type, and the queue is within its bound.
TypeOK ==
    /\ next_id \in 0 .. U64Max
    /\ pending \in Seq([id : 1 .. next_id, target : Apps])
    /\ Len(pending) <= MaxPending
    /\ broker \in {Idle} \cup [pc : {"respond", "start"}, id : 1 .. next_id, target : Apps]
    /\ running \subseteq installed
    /\ accepted \subseteq 1 .. next_id

\* IntentQueue::take gives every app its messages in the order they were sent
\* and each of them once, whatever was cancelled in between.
TakenOnceInOrder ==
    \A a \in Apps : \A j, k \in DOMAIN taken[a] : j < k => taken[a][j] < taken[a][k]

TakenIds == UNION {{taken[a][k] : k \in DOMAIN taken[a]} : a \in Apps}
PendingIds == {pending[k].id : k \in DOMAIN pending}

\* A message whose acknowledgement reached the sender is neither lost nor
\* taken back: it waits in the queue, across failed starts and removals of
\* the receiver, until its receiver takes it.
AcceptedNotLost == accepted \subseteq TakenIds \cup PendingIds

\* A message whose acknowledgement could not be written is delivered to
\* nobody: what apps take has been accepted.
OnlyAcceptedTaken == TakenIds \subseteq accepted

\* Exactly the accepted messages are delivered, each once and in order.
IntentsDelivered == TakenOnceInOrder /\ AcceptedNotLost /\ OnlyAcceptedTaken
====
