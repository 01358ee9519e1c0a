------------------------------ MODULE Prompts ------------------------------
(***************************************************************************)
(* The questions appd puts to the user: the permission engine and its      *)
(* prompt (permissions.rs, permission_prompt.rs), the document selection   *)
(* (document_prompt.rs, dispatch_document of server.rs) and the one dialog *)
(* of the System Shell that shows either of them (system-shell/src/main.c).*)
(*                                                                         *)
(* A capability request is two critical sections of the broker thread, one *)
(* that authenticates the caller and one that raises the prompt; in        *)
(* dispatch_document the list is fetched between the two.  The Shell is    *)
(* another process: what it shows is a copy that its timer refreshes, and  *)
(* it survives a restart of appd.  Prompt identifiers are u64 counters and *)
(* never wrap here.                                                        *)
(***************************************************************************)
EXTENDS Integers, FiniteSets

CONSTANTS
    Apps,
    Permissions,    \* capabilities every manifest declares
    Documents,
    None            \* no prompt, no dialog

Keys == Apps \X Permissions
Decisions == {"none", "allow", "deny"}
Choices == {"allow-once", "allow-always", "deny"}
Outcomes == {"ok", "failed", "unsynced"}

VARIABLES
    store, disk,        \* PermissionStore in memory and in permissions.json
    allow_once,         \* PermissionEngine.allow_once
    pending,            \* PermissionCoordinator.pending
    next_prompt_id,     \* PermissionCoordinator.next_prompt_id
    document,           \* DocumentCoordinator; picked_for (history): the app of the dialog
    broker,             \* what the broker thread is doing between its critical sections
    dialog,             \* the Shell's permission_prompt or document_prompt; stale
                        \* (history): appd has restarted since it was opened
    running,
    exited,             \* apps whose monitor has still to clear after an exit
    acked,              \* history: the decision last acknowledged per key
    answered            \* history: what the last answer was for, as shown and as applied

permissionVars == <<store, disk, allow_once, pending, next_prompt_id, acked>>
appVars == <<running, exited>>
vars == <<permissionVars, document, broker, appVars, dialog, answered>>

Idle == [op |-> "idle"]
NoDocuments == [pending |-> None, resolved |-> None, next_prompt_id |-> 0]

Init ==
    /\ store = [k \in Keys |-> "none"]
    /\ disk = store
    /\ acked = store
    /\ allow_once = {}
    /\ pending = None
    /\ next_prompt_id = 1
    /\ document = NoDocuments
    /\ broker = Idle
    /\ dialog = None
    /\ answered = None
    /\ running = {}
    /\ exited = {}

-----------------------------------------------------------------------------
(* Permissions                                                             *)

\* PermissionEngine::authorize for a declared permission
Authorize(k) ==
    IF k \in allow_once THEN "allow"
    ELSE IF store[k] = "none" THEN "prompt" ELSE store[k]

\* authenticate_broker_caller: the caller is a running app
Authenticate(k) ==
    /\ k[1] \in running
    /\ broker = Idle
    /\ broker' = [op |-> "permission", key |-> k]
    /\ UNCHANGED <<permissionVars, document, appVars, dialog, answered>>

\* authorize_broker_caller and PermissionCoordinator::request: a decision that
\* is there, and another pending prompt (busy), raise nothing.
Request(k) ==
    /\ broker = [op |-> "permission", key |-> k]
    /\ broker' = Idle
    /\ IF Authorize(k) = "prompt" /\ pending = None
       THEN /\ pending' = [id |-> next_prompt_id, key |-> k]
            /\ next_prompt_id' = next_prompt_id + 1
       ELSE UNCHANGED <<pending, next_prompt_id>>
    /\ UNCHANGED <<store, disk, allow_once, acked, document, appVars, dialog, answered>>

\* The memory is changed first, then save_atomic writes all of it; a failure
\* of the last sync reports an error although the file is in place.
Save(next, keys, outcome) ==
    /\ store' = next
    /\ disk' = IF outcome = "failed" THEN disk ELSE next
    /\ acked' = [k \in Keys |-> IF k \notin keys THEN acked[k]
                                ELSE IF outcome = "ok" THEN next[k] ELSE "unknown"]

\* PermissionEngine::resolve
Decide(k, choice, outcome) ==
    \/ /\ choice = "allow-once"
       /\ outcome = "ok"
       /\ allow_once' = allow_once \cup {k}
       /\ UNCHANGED <<store, disk, acked>>
    \/ /\ choice = "allow-always"
       /\ Save([store EXCEPT ![k] = "allow"], {k}, outcome)
       /\ UNCHANGED allow_once
    \/ /\ choice = "deny"
       /\ allow_once' = allow_once \ {k}
       /\ Save([store EXCEPT ![k] = "deny"], {k}, outcome)

\* Fault: the identifier of the answer is not compared
Fault_MatchesPrompt(id, prompt) == prompt # None

\* resolve refuses NoPendingPrompt and StalePrompt
MatchesPrompt(id, prompt) == prompt # None /\ prompt.id = id

\* The user answers the dialog, and resolve_permission of the control thread
\* runs.  The Shell takes the dialog away when appd reports success.
AnswerPermission(choice, outcome) ==
    /\ dialog # None
    /\ dialog.kind = "permission"
    /\ MatchesPrompt(dialog.id, pending)
    /\ Decide(pending.key, choice, outcome)
    /\ answered' = [shown |-> dialog.key, applied |-> pending.key, stale |-> dialog.stale]
    /\ pending' = IF outcome = "ok" THEN None ELSE pending
    /\ dialog' = IF outcome = "ok" THEN None ELSE dialog
    /\ UNCHANGED <<next_prompt_id, document, broker, appVars>>

\* ResetPermission, refused as busy while its own prompt is pending
Reset(k, outcome) ==
    /\ ~(pending # None /\ pending.key = k)
    /\ allow_once' = allow_once \ {k}
    /\ Save([store EXCEPT ![k] = "none"], {k}, outcome)
    /\ UNCHANGED <<pending, next_prompt_id, document, broker, appVars, dialog, answered>>

OfApp(a) == {a} \X Permissions
PendingWithout(a) == IF pending # None /\ pending.key[1] = a THEN None ELSE pending

-----------------------------------------------------------------------------
(* Documents                                                               *)

\* Fault: any app collects the answer
Fault_Resolved(a) == document.resolved # None

Resolved(a) == document.resolved # None /\ document.resolved.app = a

\* The first critical section of dispatch_document: poll takes an answer,
\* reports a pending prompt (no step), or goes for the list.
PollDocument(a) ==
    /\ a \in running
    /\ broker = Idle
    /\ IF Resolved(a)
       THEN /\ document' = [document EXCEPT !.resolved = None]
            /\ UNCHANGED broker
       ELSE /\ document.pending = None
            /\ broker' = [op |-> "list", app |-> a]
            /\ UNCHANGED document
    /\ UNCHANGED <<permissionVars, appVars, dialog, answered>>

\* The second critical section, with the list of documentd (none if it failed
\* or is empty).  The control thread may have stopped the app meanwhile; no
\* other app can have raised a prompt, since there is one broker thread.
ListDocuments(documents) ==
    /\ broker.op = "list"
    /\ broker' = Idle
    /\ document' = IF documents = {} THEN document
                   ELSE [document EXCEPT !.next_prompt_id = @ + 1,
                            !.pending = [id |-> document.next_prompt_id + 1,
                                         app |-> broker.app, documents |-> documents]]
    /\ UNCHANGED <<permissionVars, appVars, dialog, answered>>

\* The user picks a document of the dialog or cancels it (None);
\* DocumentCoordinator::resolve checks the identifier and the snapshot.
AnswerDocument(d) ==
    /\ dialog # None
    /\ dialog.kind = "document"
    /\ d \in dialog.documents \cup {None}
    /\ MatchesPrompt(dialog.id, document.pending)
    /\ d \in document.pending.documents \cup {None}
    /\ document' = [document EXCEPT !.pending = None,
                                    !.resolved = [app |-> document.pending.app, document |-> d,
                                                  picked_for |-> IF dialog.stale THEN document.pending.app
                                                                 ELSE dialog.app]]
    /\ answered' = [shown |-> <<dialog.app>>, applied |-> <<document.pending.app>>, stale |-> dialog.stale]
    /\ dialog' = None
    /\ UNCHANGED <<permissionVars, broker, appVars>>

DocumentWithout(a) ==
    [document EXCEPT !.pending = IF @ # None /\ @.app = a THEN None ELSE @,
                     !.resolved = IF @ # None /\ @.app = a THEN None ELSE @]

-----------------------------------------------------------------------------
(* The Shell's timer: poll_permission_prompt, poll_document_prompt         *)

\* Nothing pending closes the dialog, the same identifier keeps it as it is,
\* another one replaces it.
Refresh(kind, prompt, view) ==
    IF prompt = None THEN (IF dialog # None /\ dialog.kind = kind THEN None ELSE dialog)
    ELSE IF dialog # None /\ dialog.id = prompt.id THEN dialog ELSE view

PollPermissionPrompt ==
    /\ dialog # None => dialog.kind = "permission"
    /\ dialog' = Refresh("permission", pending,
                         [kind |-> "permission", id |-> pending.id, key |-> pending.key, stale |-> FALSE])
    /\ UNCHANGED <<permissionVars, document, broker, appVars, answered>>

PollDocumentPrompt ==
    /\ dialog # None => dialog.kind = "document"
    /\ dialog' = Refresh("document", document.pending,
                         [kind |-> "document", id |-> document.pending.id,
                          app |-> document.pending.app, documents |-> document.pending.documents,
                          stale |-> FALSE])
    /\ UNCHANGED <<permissionVars, document, broker, appVars, answered>>

-----------------------------------------------------------------------------
(* The lifecycle, as far as the prompts see it                             *)

\* A start or an activation leaves the prompts alone.
Start(a) ==
    /\ a \notin running \cup exited
    /\ running' = running \cup {a}
    /\ UNCHANGED <<permissionVars, document, broker, exited, dialog, answered>>

\* clear_app_session and clear_app
ClearApp(a) ==
    /\ allow_once' = allow_once \ OfApp(a)
    /\ pending' = PendingWithout(a)
    /\ document' = DocumentWithout(a)
    /\ UNCHANGED <<store, disk, next_prompt_id, acked, broker, dialog, answered>>

\* stop_app_control, close_task_control or an eviction
Stop(a) ==
    /\ a \in running
    /\ running' = running \ {a}
    /\ ClearApp(a)
    /\ UNCHANGED exited

\* The app exits by itself; its monitor clears when it notices.
Exit(a) ==
    /\ a \in running
    /\ running' = running \ {a}
    /\ exited' = exited \cup {a}
    /\ UNCHANGED <<permissionVars, document, broker, dialog, answered>>

MonitorClear(a) ==
    /\ a \in exited
    /\ exited' = exited \ {a}
    /\ ClearApp(a)
    /\ UNCHANGED running

\* Uninstall of a stopped app: reset_app, and clear_app if that was saved.  A
\* capability request under way then finds no manifest.
Uninstall(a, outcome) ==
    /\ a \notin running \cup exited
    /\ pending' = PendingWithout(a)
    /\ allow_once' = allow_once \ OfApp(a)
    /\ Save([k \in Keys |-> IF k \in OfApp(a) THEN "none" ELSE store[k]], OfApp(a), outcome)
    /\ document' = IF outcome = "ok" THEN DocumentWithout(a) ELSE document
    /\ broker' = IF broker.op = "permission" /\ broker.key[1] = a THEN Idle ELSE broker
    /\ UNCHANGED <<next_prompt_id, appVars, dialog, answered>>

\* appd restarts with the stored decisions; the apps and the Shell go on.
Restart ==
    /\ store' = disk
    /\ acked' = [k \in Keys |-> IF acked[k] = "unknown" THEN disk[k] ELSE acked[k]]
    /\ allow_once' = {}
    /\ pending' = None
    /\ next_prompt_id' = 1
    /\ document' = NoDocuments
    /\ broker' = Idle
    /\ exited' = {}
    /\ dialog' = IF dialog = None THEN None ELSE [dialog EXCEPT !.stale = TRUE]
    /\ UNCHANGED <<disk, running, answered>>

Serve ==
    \/ \E k \in Keys : Authenticate(k) \/ Request(k)
    \/ \E choice \in Choices, outcome \in Outcomes : AnswerPermission(choice, outcome)
    \/ \E k \in Keys, outcome \in Outcomes : Reset(k, outcome)
    \/ \E a \in Apps : PollDocument(a) \/ Start(a) \/ Stop(a) \/ Exit(a) \/ MonitorClear(a)
    \/ \E documents \in SUBSET Documents : ListDocuments(documents)
    \/ \E d \in Documents \cup {None} : AnswerDocument(d)
    \/ PollPermissionPrompt
    \/ PollDocumentPrompt
    \/ \E a \in Apps, outcome \in Outcomes : Uninstall(a, outcome)

Next == Serve \/ Restart

Spec == Init /\ [][Next]_vars

-----------------------------------------------------------------------------
(* Properties                                                              *)

\* Every variable has its type; prompt identifiers in use have been allocated.
TypeOK ==
    /\ store \in [Keys -> Decisions] /\ disk \in [Keys -> Decisions]
    /\ acked \in [Keys -> Decisions \cup {"unknown"}]
    /\ allow_once \subseteq Keys
    /\ pending = None \/ (pending.key \in Keys /\ pending.id \in 1 .. next_prompt_id - 1)
    /\ document.pending = None
         \/ (document.pending.app \in Apps /\ document.pending.id = document.next_prompt_id)
    /\ broker \in {Idle} \cup [op : {"permission"}, key : Keys] \cup [op : {"list"}, app : Apps]
    /\ running \subseteq Apps /\ exited \subseteq Apps

\* What appd acknowledged is what it enforces and what a restart brings back:
\* resolve, reset and uninstall that reported success agree in memory and on
\* disk whatever other saves failed, and no session grant outlives a denial.
AcknowledgedDecisionHolds ==
    \A k \in Keys : acked[k] # "unknown" =>
        /\ store[k] = acked[k]
        /\ disk[k] = acked[k]
        /\ acked[k] = "deny" => k \notin allow_once

\* While appd runs, an answer of the user is applied to the request that the
\* dialog showed: resolve compares the identifier, and no identifier is used
\* for two requests.
AnswersWhatWasShown ==
    answered # None /\ ~answered.stale => answered.shown = answered.applied

\* A decision is the answer to the question that was shown, and it holds
\* until the next one (resolve, reset, uninstall).
DecisionsSound == TypeOK /\ AcknowledgedDecisionHolds /\ AnswersWhatWasShown

\* poll hands a document only to the app for which the user chose it (the app
\* of the dialog, unless appd restarted after the dialog was opened).
HandedToItsApp ==
    \A a \in Apps : PollDocument(a) /\ document.resolved # document'.resolved
                        => document.resolved.picked_for = a
====
