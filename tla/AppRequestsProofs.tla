------------------------- MODULE AppRequestsProofs -------------------------
(***************************************************************************)
(* What the broker thread of appd does for applications, for any number of *)
(* them: permissions are decided as the user answered, a document goes to  *)
(* the application it was chosen for (the prompts), and exactly the        *)
(* acknowledged messages are delivered (the intents).                      *)
(***************************************************************************)
EXTENDS Prompts, Sequences, WellFoundedInduction, TLAPS

-----------------------------------------------------------------------------
(* The invariant of the prompts.                                           *)

(* The records of prompts, answers and dialogs. *)
PermissionPrompts == [id : Nat, key : Keys]
DocumentPrompts == [id : Nat, app : Apps, documents : SUBSET Documents]
DocumentAnswers == [app : Apps, document : Documents \cup {None}, picked_for : Apps]
PermissionDialogs == [kind : {"permission"}, id : Nat, key : Keys, stale : BOOLEAN]
DocumentDialogs ==
    [kind : {"document"}, id : Nat, app : Apps, documents : SUBSET Documents, stale : BOOLEAN]

PromptTypes ==
    /\ next_prompt_id \in Nat \ {0}
    /\ pending \in {None} \cup PermissionPrompts
    /\ document \in [pending : {None} \cup DocumentPrompts,
                     resolved : {None} \cup DocumentAnswers, next_prompt_id : Nat]
    /\ dialog \in {None} \cup PermissionDialogs \cup DocumentDialogs

(* A permission that is being asked for has not been decided. *)
PendingUndecided == pending # None => acked[pending.key] \in {"none", "unknown"}

(* The dialog of a prompt that is pending shows what is pending, unless     *)
(* appd has restarted since; its identifier was allocated.                  *)
PermissionShown ==
    dialog # None /\ dialog.kind = "permission" /\ ~dialog.stale =>
        /\ dialog.id < next_prompt_id
        /\ MatchesPrompt(dialog.id, pending) => pending.key = dialog.key
DocumentShown ==
    dialog # None /\ dialog.kind = "document" /\ ~dialog.stale =>
        /\ dialog.id <= document.next_prompt_id
        /\ MatchesPrompt(dialog.id, document.pending) => document.pending.app = dialog.app

(* An answer waits for the application it was chosen for. *)
PickedForItsApp == document.resolved # None => document.resolved.picked_for = document.resolved.app

Decided == AcknowledgedDecisionHolds /\ PendingUndecided
Shown == PermissionShown /\ DocumentShown /\ PickedForItsApp /\ AnswersWhatWasShown

(* Every step of appd, of the Shell and of the applications keeps this. *)
PromptInv == TypeOK /\ PromptTypes /\ Decided /\ Shown

LEMMA PromptInit == Init => PromptInv
<1> SUFFICES ASSUME Init PROVE PromptInv
  OBVIOUS
<1>1. TypeOK
  BY DEF Init, TypeOK, NoDocuments, Decisions
<1>2. PromptTypes
  BY DEF Init, PromptTypes, NoDocuments
<1>3. Decided
  BY DEF Init, Decided, AcknowledgedDecisionHolds, PendingUndecided
<1>4. Shown
  BY DEF Init, Shown, PermissionShown, DocumentShown, PickedForItsApp, AnswersWhatWasShown, NoDocuments
<1> QED BY <1>1, <1>2, <1>3, <1>4 DEF PromptInv

-----------------------------------------------------------------------------
(* What leaves the decisions, or what is shown, alone.                     *)

(* A step that leaves the saved decisions alone, and asks for nothing decided. *)
LEMMA DecidedSame ==
    ASSUME Decided, UNCHANGED <<store, disk, acked>>, allow_once' \subseteq allow_once,
           pending' \in {pending, None}
    PROVE  Decided'
BY DEF Decided, AcknowledgedDecisionHolds, PendingUndecided

(* A step that leaves the dialog and what it shows alone. *)
LEMMA ShownSame ==
    ASSUME Shown, UNCHANGED <<dialog, answered, next_prompt_id>>,
           document'.next_prompt_id = document.next_prompt_id,
           pending' \in {pending, None},
           document'.pending \in {document.pending, None},
           document'.resolved \in {document.resolved, None}
    PROVE  Shown'
BY DEF Shown, PermissionShown, DocumentShown, PickedForItsApp, AnswersWhatWasShown, MatchesPrompt

(* A save changes some keys; those are acknowledged or unknown. *)
LEMMA SaveDecides ==
    ASSUME Decided, TypeOK, NEW next \in [Keys -> Decisions], NEW keys \in SUBSET Keys,
           NEW outcome \in Outcomes, Save(next, keys, outcome),
           \A k \in Keys \ keys : next[k] = store[k],
           allow_once' \subseteq allow_once,
           \A k \in keys : next[k] = "deny" => k \notin allow_once',
           pending' \in {pending, None},
           pending' # None => outcome # "ok" \/ pending.key \notin keys,
           pending # None => pending.key \in Keys
    PROVE  Decided' /\ store' \in [Keys -> Decisions] /\ disk' \in [Keys -> Decisions]
           /\ acked' \in [Keys -> Decisions \cup {"unknown"}]
<1>1. /\ store' = next /\ disk' = IF outcome = "failed" THEN disk ELSE next
      /\ acked' = [k \in Keys |-> IF k \notin keys THEN acked[k]
                                ELSE IF outcome = "ok" THEN next[k] ELSE "unknown"]
  BY DEF Save
<1>2. store \in [Keys -> Decisions] /\ disk \in [Keys -> Decisions]
      /\ acked \in [Keys -> Decisions \cup {"unknown"}]
  BY DEF TypeOK
<1>3. AcknowledgedDecisionHolds'
  <2> SUFFICES ASSUME NEW k \in Keys, acked'[k] # "unknown"
               PROVE  /\ store'[k] = acked'[k] /\ disk'[k] = acked'[k]
                      /\ acked'[k] = "deny" => k \notin allow_once'
    BY DEF AcknowledgedDecisionHolds
  <2>1. CASE k \in keys
    <3>1. outcome = "ok" /\ acked'[k] = next[k]
      BY <1>1, <2>1
    <3> QED BY <1>1, <2>1, <3>1
  <2>2. CASE k \notin keys
    <3>1. acked'[k] = acked[k] /\ next[k] = store[k]
      BY <1>1, <2>2
    <3>2. store[k] = acked[k] /\ disk[k] = acked[k] /\ (acked[k] = "deny" => k \notin allow_once)
      BY <3>1 DEF Decided, AcknowledgedDecisionHolds
    <3> QED BY <1>1, <3>1, <3>2
  <2> QED BY <2>1, <2>2
<1>4. PendingUndecided'
  <2> SUFFICES ASSUME pending' # None PROVE acked'[pending'.key] \in {"none", "unknown"}
    BY DEF PendingUndecided
  <2>1. pending' = pending /\ pending.key \in Keys
    OBVIOUS
  <2>2. CASE pending.key \in keys
    BY <1>1, <2>1, <2>2
  <2>3. CASE pending.key \notin keys
    BY <1>1, <2>1, <2>3 DEF Decided, PendingUndecided
  <2> QED BY <2>2, <2>3
<1> QED BY <1>1, <1>2, <1>3, <1>4 DEF Decided, Decisions

-----------------------------------------------------------------------------
(* The steps.                                                              *)

(* The fields of what is pending. *)
LEMMA PendingTypes ==
    ASSUME PromptInv
    PROVE  /\ pending # None => /\ pending.key \in Keys /\ pending.id \in 1 .. next_prompt_id - 1
                                /\ pending.id \in Nat
           /\ document.pending # None =>
                 /\ document.pending \in DocumentPrompts
                 /\ document.pending.app \in Apps /\ document.pending.id = document.next_prompt_id
                 /\ document.pending.id \in Nat
           /\ next_prompt_id \in Nat \ {0} /\ document.next_prompt_id \in Nat
<1>1. /\ document.pending \in {None} \cup DocumentPrompts /\ document.next_prompt_id \in Nat
      /\ next_prompt_id \in Nat \ {0} /\ pending \in {None} \cup PermissionPrompts
  BY DEF PromptInv, PromptTypes
<1>2. pending # None => pending \in PermissionPrompts
  BY <1>1
<1>3. pending # None => pending.id \in Nat
  BY <1>2 DEF PermissionPrompts
<1> QED BY <1>1, <1>3 DEF PromptInv, TypeOK

(* The broker thread authenticates, or raises a prompt. *)
LEMMA RequestKeeps ==
    ASSUME PromptInv, NEW k \in Keys, Authenticate(k) \/ Request(k)
    PROVE  PromptInv'
<1>1. CASE Authenticate(k)
  <2>1. TypeOK' /\ PromptTypes'
    BY <1>1 DEF Authenticate, PromptInv, TypeOK, PromptTypes, permissionVars, appVars
  <2>2. Decided'
    BY <1>1, DecidedSame DEF Authenticate, PromptInv, permissionVars
  <2>3. Shown'
    BY <1>1, ShownSame DEF Authenticate, PromptInv, permissionVars
  <2> QED BY <2>1, <2>2, <2>3 DEF PromptInv
<1>2. CASE Request(k)
  <2>1. /\ broker' = Idle
        /\ UNCHANGED <<store, disk, allow_once, acked, document, running, exited, dialog, answered>>
    BY <1>2 DEF Request, appVars
  <2>2. CASE UNCHANGED <<pending, next_prompt_id>>
    <3>1. TypeOK' /\ PromptTypes'
      BY <2>1, <2>2 DEF PromptInv, TypeOK, PromptTypes
    <3> QED BY <2>1, <2>2, <3>1, DecidedSame, ShownSame DEF PromptInv
  <2>3. CASE /\ Authorize(k) = "prompt" /\ pending = None
             /\ pending' = [id |-> next_prompt_id, key |-> k]
             /\ next_prompt_id' = next_prompt_id + 1
    <3>1. next_prompt_id \in Nat \ {0}
      BY DEF PromptInv, PromptTypes
    <3>2. /\ pending' \in PermissionPrompts /\ pending'.id = next_prompt_id /\ pending'.key = k
      BY <2>3, <3>1 DEF PermissionPrompts
    <3>3. TypeOK' /\ PromptTypes'
      BY <2>1, <2>3, <3>1, <3>2 DEF PromptInv, TypeOK, PromptTypes
    <3>4. store[k] = "none"
      BY <2>3 DEF Authorize, PromptInv, TypeOK, Decisions
    <3>5. Decided'
      BY <2>1, <3>2, <3>4 DEF PromptInv, Decided, AcknowledgedDecisionHolds, PendingUndecided
    <3>6. PermissionShown'
      <4> SUFFICES ASSUME dialog # None, dialog.kind = "permission", ~dialog.stale
                   PROVE  dialog.id < next_prompt_id' /\ ~MatchesPrompt(dialog.id, pending')
        BY <2>1 DEF PermissionShown
      <4>1. dialog.id \in Nat
        BY DEF PromptInv, PromptTypes, PermissionDialogs, DocumentDialogs
      <4>2. dialog.id < next_prompt_id
        BY DEF PromptInv, Shown, PermissionShown
      <4> QED BY <2>3, <3>1, <3>2, <4>1, <4>2 DEF MatchesPrompt
    <3>7. DocumentShown' /\ PickedForItsApp' /\ AnswersWhatWasShown'
      BY <2>1 DEF PromptInv, Shown, DocumentShown, PickedForItsApp, AnswersWhatWasShown, MatchesPrompt
    <3> QED BY <3>3, <3>5, <3>6, <3>7 DEF PromptInv, Shown
  <2> QED BY <1>2, <2>2, <2>3 DEF Request
<1> QED BY <1>1, <1>2

(* The user answers a permission prompt. *)
LEMMA AnswerPermissionKeeps ==
    ASSUME PromptInv, NEW choice \in Choices, NEW outcome \in Outcomes,
           AnswerPermission(choice, outcome)
    PROVE  PromptInv'
<1> DEFINE k == pending.key
<1>1. /\ dialog # None /\ dialog.kind = "permission" /\ MatchesPrompt(dialog.id, pending)
      /\ Decide(k, choice, outcome)
      /\ answered' = [shown |-> dialog.key, applied |-> pending.key, stale |-> dialog.stale]
      /\ pending' = IF outcome = "ok" THEN None ELSE pending
      /\ dialog' = IF outcome = "ok" THEN None ELSE dialog
      /\ UNCHANGED <<next_prompt_id, document, broker, running, exited>>
  BY DEF AnswerPermission, appVars
<1>2. pending # None /\ k \in Keys
  BY <1>1, PendingTypes DEF MatchesPrompt
<1> HIDE DEF k
<1>3. /\ TypeOK /\ Decided /\ store \in [Keys -> Decisions] /\ disk \in [Keys -> Decisions]
      /\ acked \in [Keys -> Decisions \cup {"unknown"}] /\ allow_once \subseteq Keys
  BY DEF PromptInv, TypeOK
<1>4. /\ Decided' /\ store' \in [Keys -> Decisions] /\ disk' \in [Keys -> Decisions]
      /\ acked' \in [Keys -> Decisions \cup {"unknown"}] /\ allow_once' \subseteq Keys
  <2>1. CASE choice = "allow-once"
    <3>1. outcome = "ok" /\ allow_once' = allow_once \cup {k} /\ UNCHANGED <<store, disk, acked>>
      BY <1>1, <2>1 DEF Decide
    <3>2. acked[k] \in {"none", "unknown"}
      BY <1>2, <1>3 DEF Decided, PendingUndecided, k
    <3>3. Decided'
      BY <1>1, <1>3, <3>1, <3>2 DEF Decided, AcknowledgedDecisionHolds, PendingUndecided
    <3> QED BY <1>2, <1>3, <3>1, <3>3
  <2>2. ASSUME NEW to \in {"allow", "deny"}, Save([store EXCEPT ![k] = to], {k}, outcome),
               allow_once' \subseteq allow_once, to = "deny" => k \notin allow_once'
        PROVE  /\ Decided' /\ store' \in [Keys -> Decisions] /\ disk' \in [Keys -> Decisions]
               /\ acked' \in [Keys -> Decisions \cup {"unknown"}]
    <3> DEFINE next == [store EXCEPT ![k] = to]
    <3>1. /\ next \in [Keys -> Decisions] /\ next[k] = to
          /\ \A j \in Keys \ {k} : next[j] = store[j]
      BY <1>2, <1>3 DEF Decisions
    <3>2. Save(next, {k}, outcome)
      BY <2>2
    <3> HIDE DEF next
    <3>3. /\ {k} \in SUBSET Keys /\ \A j \in {k} : next[j] = "deny" => j \notin allow_once'
          /\ pending' \in {pending, None} /\ (pending' # None => outcome # "ok")
          /\ pending # None => pending.key \in Keys
      BY <1>1, <1>2, <2>2, <3>1 DEF k
    <3> QED BY <1>3, <2>2, <3>1, <3>2, <3>3, SaveDecides
  <2>3. CASE choice = "allow-always"
    BY <1>1, <1>3, <2>2, <2>3 DEF Decide
  <2>4. CASE choice = "deny"
    BY <1>1, <1>3, <2>2, <2>4 DEF Decide
  <2> QED BY <2>1, <2>3, <2>4 DEF Choices
<1>5. TypeOK' /\ PromptTypes'
  BY <1>1, <1>4 DEF PromptInv, TypeOK, PromptTypes
<1>6. Shown'
  <2>1. AnswersWhatWasShown'
    BY <1>1 DEF PromptInv, Shown, PermissionShown, AnswersWhatWasShown
  <2>2. PermissionShown' /\ DocumentShown' /\ PickedForItsApp'
    BY <1>1 DEF PromptInv, Shown, PermissionShown, DocumentShown, PickedForItsApp, MatchesPrompt
  <2> QED BY <2>1, <2>2 DEF Shown
<1> QED BY <1>4, <1>5, <1>6 DEF PromptInv

(* A decision is taken back. *)
LEMMA ResetKeeps ==
    ASSUME PromptInv, NEW k \in Keys, NEW outcome \in Outcomes, Reset(k, outcome)
    PROVE  PromptInv'
<1> DEFINE next == [store EXCEPT ![k] = "none"]
<1>1. /\ Save(next, {k}, outcome) /\ allow_once' = allow_once \ {k}
      /\ (pending # None => pending.key # k)
      /\ UNCHANGED <<pending, next_prompt_id, document, broker, running, exited, dialog, answered>>
  BY DEF Reset, appVars
<1>2. /\ next \in [Keys -> Decisions] /\ next[k] = "none"
      /\ \A j \in Keys \ {k} : next[j] = store[j]
      /\ TypeOK /\ Decided /\ allow_once \subseteq Keys
  BY DEF PromptInv, TypeOK, Decisions
<1> HIDE DEF next
<1>3. /\ Decided' /\ store' \in [Keys -> Decisions] /\ disk' \in [Keys -> Decisions]
      /\ acked' \in [Keys -> Decisions \cup {"unknown"}]
  <2>1. /\ {k} \in SUBSET Keys /\ \A j \in {k} : next[j] = "deny" => j \notin allow_once'
        /\ pending' \in {pending, None} /\ (pending' # None => pending.key \notin {k})
        /\ pending # None => pending.key \in Keys
    BY <1>1, <1>2, PendingTypes
  <2> QED BY <1>1, <1>2, <2>1, SaveDecides
<1>4. TypeOK' /\ PromptTypes'
  BY <1>1, <1>2, <1>3 DEF PromptInv, TypeOK, PromptTypes
<1>5. Shown'
  BY <1>1, ShownSame DEF PromptInv
<1> QED BY <1>3, <1>4, <1>5 DEF PromptInv

(* The application asks for a document, or takes the one it was given. *)
LEMMA PollDocumentKeeps ==
    ASSUME PromptInv, NEW a \in Apps, PollDocument(a)
    PROVE  PromptInv'
<1>1. /\ UNCHANGED <<store, disk, allow_once, pending, next_prompt_id, acked, running, exited,
                     dialog, answered>>
      /\ \/ document' = [document EXCEPT !.resolved = None] /\ UNCHANGED broker
         \/ document' = document /\ broker' = [op |-> "list", app |-> a]
  BY DEF PollDocument, permissionVars, appVars
<1>2. document \in [pending : {None} \cup DocumentPrompts,
                    resolved : {None} \cup DocumentAnswers, next_prompt_id : Nat]
  BY DEF PromptInv, PromptTypes
<1>3. /\ document' \in [pending : {None} \cup DocumentPrompts,
                        resolved : {None} \cup DocumentAnswers, next_prompt_id : Nat]
      /\ document'.pending = document.pending
      /\ document'.next_prompt_id = document.next_prompt_id
      /\ document'.resolved \in {document.resolved, None}
  BY <1>1, <1>2
<1>4. TypeOK' /\ PromptTypes'
  BY <1>1, <1>3 DEF PromptInv, TypeOK, PromptTypes
<1>5. Decided' /\ Shown'
  BY <1>1, <1>3, DecidedSame, ShownSame DEF PromptInv
<1> QED BY <1>4, <1>5 DEF PromptInv

(* The list has come: a prompt with a new identifier. *)
LEMMA ListDocumentsKeeps ==
    ASSUME PromptInv, NEW documents \in SUBSET Documents, ListDocuments(documents)
    PROVE  PromptInv'
<1> DEFINE prompt == [id |-> document.next_prompt_id + 1, app |-> broker.app, documents |-> documents]
<1>1. /\ UNCHANGED <<store, disk, allow_once, pending, next_prompt_id, acked, running, exited,
                     dialog, answered>>
      /\ broker.op = "list" /\ broker' = Idle
      /\ document' = IF documents = {} THEN document
                     ELSE [document EXCEPT !.next_prompt_id = document.next_prompt_id + 1,
                                           !.pending = prompt]
  BY DEF ListDocuments, permissionVars, appVars
<1>2. /\ document \in [pending : {None} \cup DocumentPrompts,
                       resolved : {None} \cup DocumentAnswers, next_prompt_id : Nat]
      /\ broker.app \in Apps
  BY <1>1 DEF PromptInv, PromptTypes, TypeOK, Idle
<1>3. prompt \in DocumentPrompts /\ prompt.id = document.next_prompt_id + 1 /\ prompt.app = broker.app
  BY <1>2 DEF DocumentPrompts
<1>4. Decided'
  BY <1>1, DecidedSame DEF PromptInv
<1>5. CASE documents = {}
  <2>1. document' = document
    BY <1>1, <1>5
  <2>2. TypeOK' /\ PromptTypes'
    BY Zenon, <1>1, <2>1 DEF PromptInv, TypeOK, PromptTypes
  <2>3. Shown'
    BY Zenon, <1>1, <2>1, ShownSame DEF PromptInv
  <2> QED BY <1>4, <2>2, <2>3 DEF PromptInv
<1>6. CASE documents # {}
  <2> HIDE DEF prompt
  <2>1. /\ document' \in [pending : {None} \cup DocumentPrompts,
                          resolved : {None} \cup DocumentAnswers, next_prompt_id : Nat]
        /\ document'.pending = prompt /\ document'.next_prompt_id = document.next_prompt_id + 1
        /\ document'.resolved = document.resolved
    <3> DEFINE id == document.next_prompt_id + 1
    <3>1. id \in Nat
      BY <1>2
    <3>2. document' = [document EXCEPT !.next_prompt_id = id, !.pending = prompt]
      BY <1>1, <1>6
    <3> HIDE DEF id
    <3>3. /\ document' \in [pending : {None} \cup DocumentPrompts,
                            resolved : {None} \cup DocumentAnswers, next_prompt_id : Nat]
          /\ document'.pending = prompt /\ document'.next_prompt_id = id
          /\ document'.resolved = document.resolved
      BY Zenon, <1>2, <1>3, <3>1, <3>2
    <3> QED BY <3>3 DEF id
  <2>2. TypeOK' /\ PromptTypes'
    BY <1>1, <1>2, <1>3, <2>1 DEF PromptInv, TypeOK, PromptTypes
  <2>3. DocumentShown'
    <3> SUFFICES ASSUME dialog # None, dialog.kind = "document", ~dialog.stale
                 PROVE  /\ dialog.id <= document'.next_prompt_id
                        /\ ~MatchesPrompt(dialog.id, document'.pending)
      BY <1>1 DEF DocumentShown
    <3>1. dialog.id \in Nat
      BY DEF PromptInv, PromptTypes, PermissionDialogs, DocumentDialogs
    <3>2. dialog.id <= document.next_prompt_id /\ document.next_prompt_id \in Nat
      BY <1>2 DEF PromptInv, Shown, DocumentShown
    <3> QED BY <1>3, <2>1, <3>1, <3>2 DEF MatchesPrompt
  <2>4. PermissionShown' /\ PickedForItsApp' /\ AnswersWhatWasShown'
    BY <1>1, <2>1 DEF PromptInv, Shown, PermissionShown, PickedForItsApp, AnswersWhatWasShown, MatchesPrompt
  <2> QED BY <1>4, <2>2, <2>3, <2>4 DEF PromptInv, Shown
<1> QED BY <1>5, <1>6

(* The user picks a document. *)
LEMMA AnswerDocumentKeeps ==
    ASSUME PromptInv, NEW d \in Documents \cup {None}, AnswerDocument(d)
    PROVE  PromptInv'
<1> DEFINE answer == [app |-> document.pending.app, document |-> d,
                      picked_for |-> IF dialog.stale THEN document.pending.app ELSE dialog.app]
<1>1. /\ UNCHANGED <<store, disk, allow_once, pending, next_prompt_id, acked, broker, running, exited>>
      /\ dialog # None /\ dialog.kind = "document" /\ MatchesPrompt(dialog.id, document.pending)
      /\ document' = [document EXCEPT !.pending = None, !.resolved = answer]
      /\ answered' = [shown |-> <<dialog.app>>, applied |-> <<document.pending.app>>,
                      stale |-> dialog.stale]
      /\ dialog' = None
  BY DEF AnswerDocument, permissionVars, appVars
<1>2. /\ document \in [pending : {None} \cup DocumentPrompts,
                       resolved : {None} \cup DocumentAnswers, next_prompt_id : Nat]
      /\ document.pending.app \in Apps
  BY <1>1, PendingTypes DEF PromptInv, PromptTypes, MatchesPrompt
<1>3. ~dialog.stale => dialog.app = document.pending.app
  BY <1>1 DEF PromptInv, Shown, DocumentShown
<1>4. /\ answer \in DocumentAnswers /\ answer.picked_for = answer.app
  BY <1>2, <1>3 DEF DocumentAnswers
<1> HIDE DEF answer
<1>5. /\ document' \in [pending : {None} \cup DocumentPrompts,
                        resolved : {None} \cup DocumentAnswers, next_prompt_id : Nat]
      /\ document'.pending = None /\ document'.resolved = answer
  BY Zenon, <1>1, <1>2, <1>4
<1>6. TypeOK' /\ PromptTypes'
  BY <1>1, <1>5 DEF PromptInv, TypeOK, PromptTypes
<1>7. Decided'
  BY <1>1, DecidedSame DEF PromptInv
<1>8. AnswersWhatWasShown'
  BY <1>1, <1>3 DEF AnswersWhatWasShown
<1>9. PermissionShown' /\ DocumentShown' /\ PickedForItsApp'
  BY <1>1, <1>4, <1>5 DEF PermissionShown, DocumentShown, PickedForItsApp
<1> QED BY <1>6, <1>7, <1>8, <1>9 DEF PromptInv, Shown

(* The Shell looks for prompts. *)
LEMMA PollPromptKeeps ==
    ASSUME PromptInv, PollPermissionPrompt \/ PollDocumentPrompt
    PROVE  PromptInv'
<1>1. UNCHANGED <<store, disk, allow_once, pending, next_prompt_id, acked, document, broker,
                  running, exited, answered>>
  BY DEF PollPermissionPrompt, PollDocumentPrompt, permissionVars, appVars
<1>2. Decided'
  BY <1>1, DecidedSame DEF PromptInv
<1>3. TypeOK'
  BY <1>1 DEF PromptInv, TypeOK
<1>4. PickedForItsApp' /\ AnswersWhatWasShown'
  BY <1>1 DEF PromptInv, Shown, PickedForItsApp, AnswersWhatWasShown
<1>5. CASE dialog' \in {dialog, None}
  <2>1. PromptTypes' /\ PermissionShown' /\ DocumentShown'
    BY <1>1, <1>5 DEF PromptInv, PromptTypes, Shown, PermissionShown, DocumentShown, MatchesPrompt
  <2> QED BY <1>2, <1>3, <1>4, <2>1 DEF PromptInv, Shown
<1>6. CASE /\ pending # None
           /\ dialog' = [kind |-> "permission", id |-> pending.id, key |-> pending.key, stale |-> FALSE]
  <2>1. pending.id \in 1 .. next_prompt_id - 1 /\ pending.id \in Nat /\ pending.key \in Keys
        /\ next_prompt_id \in Nat
    BY <1>6, PendingTypes
  <2>2. /\ dialog' \in PermissionDialogs /\ dialog'.kind = "permission"
        /\ dialog'.id = pending.id /\ dialog'.key = pending.key
    BY <1>6, <2>1 DEF PermissionDialogs
  <2>3. PromptTypes'
    BY <1>1, <2>2 DEF PromptInv, PromptTypes
  <2>4. PermissionShown' /\ DocumentShown'
    BY <1>1, <2>1, <2>2 DEF PermissionShown, DocumentShown
  <2> QED BY <1>2, <1>3, <1>4, <2>3, <2>4 DEF PromptInv, Shown
<1>7. CASE /\ document.pending # None
           /\ dialog' = [kind |-> "document", id |-> document.pending.id,
                         app |-> document.pending.app, documents |-> document.pending.documents,
                         stale |-> FALSE]
  <2>1. /\ document.pending.id \in Nat /\ document.pending.app \in Apps
        /\ document.pending.documents \in SUBSET Documents
        /\ document.pending.id = document.next_prompt_id
    BY <1>7, PendingTypes DEF DocumentPrompts
  <2>2. /\ dialog' \in DocumentDialogs /\ dialog'.kind = "document"
        /\ dialog'.id = document.pending.id /\ dialog'.app = document.pending.app
    BY <1>7, <2>1 DEF DocumentDialogs
  <2>3. PromptTypes'
    BY <1>1, <2>2 DEF PromptInv, PromptTypes
  <2>4. PermissionShown' /\ DocumentShown'
    BY <1>1, <2>1, <2>2 DEF PermissionShown, DocumentShown
  <2> QED BY <1>2, <1>3, <1>4, <2>3, <2>4 DEF PromptInv, Shown
<1> QED BY <1>5, <1>6, <1>7 DEF PollPermissionPrompt, PollDocumentPrompt, Refresh

(* The prompts of an application are dropped. *)
LEMMA WithoutTypes ==
    ASSUME PromptInv, NEW a \in Apps
    PROVE  /\ PendingWithout(a) \in {pending, None}
           /\ DocumentWithout(a) \in [pending : {None} \cup DocumentPrompts,
                                      resolved : {None} \cup DocumentAnswers, next_prompt_id : Nat]
           /\ DocumentWithout(a).pending \in {document.pending, None}
           /\ DocumentWithout(a).resolved \in {document.resolved, None}
           /\ DocumentWithout(a).next_prompt_id = document.next_prompt_id
<1>1. document \in [pending : {None} \cup DocumentPrompts,
                    resolved : {None} \cup DocumentAnswers, next_prompt_id : Nat]
  BY DEF PromptInv, PromptTypes
<1> DEFINE p == IF document.pending # None /\ document.pending.app = a THEN None ELSE document.pending
           r == IF document.resolved # None /\ document.resolved.app = a THEN None
                ELSE document.resolved
<1>2. DocumentWithout(a) = [document EXCEPT !.pending = p, !.resolved = r]
  BY DEF DocumentWithout
<1>3. p \in {document.pending, None} /\ r \in {document.resolved, None}
  OBVIOUS
<1> HIDE DEF p, r
<1>4. p \in {None} \cup DocumentPrompts /\ r \in {None} \cup DocumentAnswers
  BY <1>1, <1>3
<1> QED BY Zenon, <1>1, <1>2, <1>3, <1>4 DEF PendingWithout

(* Starts, stops and exits. *)
LEMMA LifecycleKeeps ==
    ASSUME PromptInv, NEW a \in Apps, Start(a) \/ Stop(a) \/ Exit(a) \/ MonitorClear(a)
    PROVE  PromptInv'
<1>1. running' \subseteq Apps /\ exited' \subseteq Apps
  BY DEF PromptInv, TypeOK, Start, Stop, Exit, MonitorClear
<1>2. CASE UNCHANGED <<permissionVars, document, broker, dialog, answered>>
  <2>1. TypeOK' /\ PromptTypes'
    BY <1>1, <1>2 DEF PromptInv, TypeOK, PromptTypes, permissionVars
  <2> QED BY <1>2, <2>1, DecidedSame, ShownSame DEF PromptInv, permissionVars
<1>3. CASE ClearApp(a)
  <2>1. /\ UNCHANGED <<store, disk, next_prompt_id, acked, broker, dialog, answered>>
        /\ allow_once' \subseteq allow_once
        /\ pending' = PendingWithout(a) /\ document' = DocumentWithout(a)
    BY <1>3 DEF ClearApp
  <2>2. /\ pending' \in {pending, None}
        /\ document' \in [pending : {None} \cup DocumentPrompts,
                          resolved : {None} \cup DocumentAnswers, next_prompt_id : Nat]
        /\ document'.pending \in {document.pending, None}
        /\ document'.resolved \in {document.resolved, None}
        /\ document'.next_prompt_id = document.next_prompt_id
    BY <2>1, WithoutTypes
  <2>3. TypeOK' /\ PromptTypes'
    BY <1>1, <2>1, <2>2 DEF PromptInv, TypeOK, PromptTypes
  <2> QED BY <2>1, <2>2, <2>3, DecidedSame, ShownSame DEF PromptInv
<1> QED BY <1>2, <1>3 DEF Start, Stop, Exit, MonitorClear

(* A stopped application is removed. *)
LEMMA UninstallKeeps ==
    ASSUME PromptInv, NEW a \in Apps, NEW outcome \in Outcomes, Uninstall(a, outcome)
    PROVE  PromptInv'
<1> DEFINE next == [k \in Keys |-> IF k \in OfApp(a) THEN "none" ELSE store[k]]
<1>1. /\ Save(next, OfApp(a), outcome) /\ allow_once' = allow_once \ OfApp(a)
      /\ pending' = PendingWithout(a)
      /\ document' = IF outcome = "ok" THEN DocumentWithout(a) ELSE document
      /\ broker' \in {Idle, broker}
      /\ UNCHANGED <<next_prompt_id, running, exited, dialog, answered>>
  BY DEF Uninstall, appVars
<1>2. /\ next \in [Keys -> Decisions] /\ \A k \in OfApp(a) \cap Keys : next[k] = "none"
      /\ \A k \in Keys \ OfApp(a) : next[k] = store[k]
      /\ TypeOK /\ Decided /\ allow_once \subseteq Keys
  BY DEF PromptInv, TypeOK, Decisions
<1> HIDE DEF next
<1>3. OfApp(a) \in SUBSET Keys
  BY DEF OfApp, Keys
<1>4. /\ pending' \in {pending, None} /\ (pending' # None => pending.key \notin OfApp(a))
      /\ pending # None => pending.key \in Keys
  <2>1. pending # None => pending.key \in Keys
    BY PendingTypes
  <2>2. \A k \in OfApp(a) : k[1] = a
    BY DEF OfApp
  <2> QED BY <1>1, <2>1, <2>2 DEF PendingWithout
<1>5. /\ Decided' /\ store' \in [Keys -> Decisions] /\ disk' \in [Keys -> Decisions]
      /\ acked' \in [Keys -> Decisions \cup {"unknown"}]
  <2>1. \A k \in OfApp(a) : next[k] = "deny" => k \notin allow_once'
    BY <1>1
  <2> QED BY <1>1, <1>2, <1>3, <1>4, <2>1, SaveDecides
<1>6. /\ document' \in [pending : {None} \cup DocumentPrompts,
                        resolved : {None} \cup DocumentAnswers, next_prompt_id : Nat]
      /\ document'.pending \in {document.pending, None}
      /\ document'.resolved \in {document.resolved, None}
      /\ document'.next_prompt_id = document.next_prompt_id
  BY <1>1, WithoutTypes DEF PromptInv, PromptTypes
<1>7. TypeOK' /\ PromptTypes'
  BY <1>1, <1>2, <1>4, <1>5, <1>6 DEF PromptInv, TypeOK, PromptTypes
<1>8. Shown'
  BY <1>1, <1>4, <1>6, ShownSame DEF PromptInv
<1> QED BY <1>5, <1>7, <1>8 DEF PromptInv

(* appd restarts under an open dialog. *)
LEMMA RestartKeeps ==
    ASSUME PromptInv, Restart
    PROVE  PromptInv'
<1>1. /\ store' = disk /\ allow_once' = {} /\ pending' = None /\ next_prompt_id' = 1
      /\ acked' = [k \in Keys |-> IF acked[k] = "unknown" THEN disk[k] ELSE acked[k]]
      /\ document' = NoDocuments /\ broker' = Idle /\ exited' = {}
      /\ dialog' = IF dialog = None THEN None ELSE [dialog EXCEPT !.stale = TRUE]
      /\ UNCHANGED <<disk, running, answered>>
  BY DEF Restart
<1>2. dialog' # None =>
         /\ dialog'.stale = TRUE
         /\ dialog' \in PermissionDialogs \cup DocumentDialogs
  <2> SUFFICES ASSUME dialog # None, dialog' = [dialog EXCEPT !.stale = TRUE]
               PROVE  dialog'.stale = TRUE /\ dialog' \in PermissionDialogs \cup DocumentDialogs
    BY Zenon, <1>1
  <2>1. CASE dialog \in PermissionDialogs
    BY Zenon, <2>1 DEF PermissionDialogs
  <2>2. CASE dialog \in DocumentDialogs
    BY Zenon, <2>2 DEF DocumentDialogs
  <2> QED BY <2>1, <2>2 DEF PromptInv, PromptTypes
<1>3. TypeOK'
  BY <1>1 DEF PromptInv, TypeOK, NoDocuments
<1>4. PromptTypes'
  BY <1>1, <1>2 DEF PromptTypes, NoDocuments
<1>5. Decided'
  BY <1>1 DEF PromptInv, TypeOK, Decided, AcknowledgedDecisionHolds, PendingUndecided
<1>6. Shown'
  BY <1>1, <1>2 DEF PromptInv, Shown, PermissionShown, DocumentShown, PickedForItsApp,
     AnswersWhatWasShown, NoDocuments
<1> QED BY <1>3, <1>4, <1>5, <1>6 DEF PromptInv

(* One case per step. *)
LEMMA PromptStep == PromptInv /\ [Next]_vars => PromptInv'
<1> SUFFICES ASSUME PromptInv, [Next]_vars PROVE PromptInv'
  OBVIOUS
<1>1. CASE Restart
  BY <1>1, RestartKeeps
<1>2. CASE \E k \in Keys : Authenticate(k) \/ Request(k)
  BY <1>2, RequestKeeps
<1>3. CASE \E choice \in Choices, outcome \in Outcomes : AnswerPermission(choice, outcome)
  BY <1>3, AnswerPermissionKeeps
<1>4. CASE \E k \in Keys, outcome \in Outcomes : Reset(k, outcome)
  BY <1>4, ResetKeeps
<1>5. CASE \E a \in Apps : PollDocument(a)
  BY <1>5, PollDocumentKeeps
<1>6. CASE \E a \in Apps : Start(a) \/ Stop(a) \/ Exit(a) \/ MonitorClear(a)
  BY <1>6, LifecycleKeeps
<1>7. CASE \E documents \in SUBSET Documents : ListDocuments(documents)
  BY <1>7, ListDocumentsKeeps
<1>8. CASE \E d \in Documents \cup {None} : AnswerDocument(d)
  BY <1>8, AnswerDocumentKeeps
<1>9. CASE PollPermissionPrompt \/ PollDocumentPrompt
  BY <1>9, PollPromptKeeps
<1>10. CASE \E a \in Apps, outcome \in Outcomes : Uninstall(a, outcome)
  BY <1>10, UninstallKeeps
<1>11. CASE UNCHANGED vars
  <2>1. TypeOK' /\ PromptTypes'
    BY <1>11 DEF PromptInv, TypeOK, PromptTypes, vars, permissionVars, appVars
  <2> QED BY <1>11, <2>1, DecidedSame, ShownSame DEF PromptInv, vars, permissionVars
<1> QED BY <1>1, <1>2, <1>3, <1>4, <1>5, <1>6, <1>7, <1>8, <1>9, <1>10, <1>11 DEF Next, Serve

(* An answer is applied to the request the dialog showed, unless appd has   *)
(* restarted since the dialog was opened; and a decision that appd          *)
(* acknowledged is the one in memory and in permissions.json, across failed *)
(* saves and restarts (PermissionCoordinator, DocumentCoordinator,          *)
(* PermissionStore).                                                        *)
THEOREM DecisionsAreSound == Spec => []DecisionsSound
<1>1. PromptInv => DecisionsSound
  BY DEF PromptInv, Decided, Shown, DecisionsSound
<1> QED BY <1>1, PromptInit, PromptStep, PTL DEF Spec

(* What poll hands out was picked for the application that polls. *)
LEMMA Handed == PromptInv => HandedToItsApp
<1> SUFFICES ASSUME PromptInv, NEW a \in Apps, PollDocument(a), document.resolved # document'.resolved
             PROVE  document.resolved.picked_for = a
  BY DEF HandedToItsApp
<1>1. Resolved(a)
  BY DEF PollDocument
<1> QED BY <1>1 DEF Resolved, PromptInv, Shown, PickedForItsApp

(* DocumentCoordinator::poll hands a document only to the application for   *)
(* which the user chose it (the one of the dialog, unless appd restarted    *)
(* after it was opened), whatever started, stopped or exited in between.    *)
THEOREM DocumentsGoToTheirApp == Spec => [][HandedToItsApp]_vars
<1> QED BY PromptInit, PromptStep, Handed, PTL DEF Spec

-----------------------------------------------------------------------------
(* The intent queue, beside the prompts and with variables of its own.     *)

CONSTANTS IntentApps, MaxIntents, MaxMessages
VARIABLES messages, next_id, intent_broker, installed, intent_running, accepted, taken

Intents == INSTANCE IntentQueue
    WITH Apps <- IntentApps, MaxPending <- MaxIntents, U64Max <- MaxMessages,
         pending <- messages, broker <- intent_broker, running <- intent_running

(* Two sequences joined. *)
LEMMA Joined ==
    ASSUME NEW S, NEW a \in Seq(S), NEW b \in Seq(S)
    PROVE  /\ a \o b \in Seq(S)
           /\ Len(a \o b) = Len(a) + Len(b)
           /\ \A j \in 1 .. (Len(a) + Len(b)) :
                 (a \o b)[j] = IF j <= Len(a) THEN a[j] ELSE b[j - Len(a)]
OBVIOUS

(* The elements of a sequence. *)
LEMMA Elements ==
    ASSUME NEW S, NEW s \in Seq(S)
    PROVE  \A j \in DOMAIN s : s[j] \in S
OBVIOUS

(* A set of numbers has a least one: Iterator::position finds the first match. *)
LEMMA LeastElement ==
    ASSUME NEW S \in SUBSET Nat, S # {}
    PROVE  \E k \in S : \A j \in S : k <= j
<1>1. PICK k \in S : \A j \in S : <<j, k>> \notin OpToRel(<, Nat)
  BY Zenon, NatLessThanWellFounded, WFMin
<1>2. \A j \in S : ~(j < k)
  BY Zenon, <1>1 DEF OpToRel
<1> QED BY <1>2

(* A sequence over a set is one over every larger set. *)
LEMMA SeqWiden ==
    ASSUME NEW S, NEW T, S \subseteq T, NEW s \in Seq(S)
    PROVE  s \in Seq(T)
OBVIOUS

(* What VecDeque::remove leaves: the other elements, in their order. *)
LEMMA WithoutElements ==
    ASSUME NEW S, NEW s \in Seq(S), NEW i \in 1 .. Len(s)
    PROVE  LET r == SubSeq(s, 1, i - 1) \o SubSeq(s, i + 1, Len(s))
           IN  /\ r \in Seq(S) /\ Len(r) = Len(s) - 1 /\ DOMAIN r = 1 .. (Len(s) - 1)
               /\ \A j \in 1 .. (Len(s) - 1) : r[j] = s[IF j < i THEN j ELSE j + 1]
<1> DEFINE a == SubSeq(s, 1, i - 1)
           b == SubSeq(s, i + 1, Len(s))
<1>1. a \in Seq(S) /\ Len(a) = i - 1 /\ \A j \in 1 .. (i - 1) : a[j] = s[j]
  OBVIOUS
<1>2. b \in Seq(S) /\ Len(b) = Len(s) - i /\ \A j \in 1 .. (Len(s) - i) : b[j] = s[i + j]
  OBVIOUS
<1> HIDE DEF a, b
<1>4. /\ a \o b \in Seq(S)
      /\ Len(a \o b) = Len(a) + Len(b)
      /\ \A j \in 1 .. (Len(a) + Len(b)) :
            (a \o b)[j] = IF j <= Len(a) THEN a[j] ELSE b[j - Len(a)]
  BY Zenon, <1>1, <1>2, Joined
<1>5. i \in Nat /\ Len(s) \in Nat
  OBVIOUS
<1>6. ASSUME NEW j \in 1 .. (Len(s) - 1)
      PROVE  (a \o b)[j] = s[IF j < i THEN j ELSE j + 1]
  <2>1. CASE j < i
    BY <1>1, <1>2, <1>4, <1>5, <2>1
  <2>2. CASE ~(j < i)
    <3>1. j - Len(a) \in 1 .. (Len(s) - i) /\ i + (j - Len(a)) = j + 1
      BY <1>1, <1>5, <2>2
    <3>2. (a \o b)[j] = b[j - Len(a)]
      BY <1>1, <1>2, <1>4, <1>5, <2>2
    <3>3. b[j - Len(a)] = s[i + (j - Len(a))]
      BY <1>2, <3>1
    <3> QED BY <2>2, <3>1, <3>2, <3>3
  <2> QED BY Zenon, <2>1, <2>2
<1>7. DOMAIN (a \o b) = 1 .. (Len(s) - 1)
  BY <1>1, <1>2, <1>4, <1>5
<1>8. Len(a \o b) = Len(s) - 1
  BY <1>1, <1>2, <1>4, <1>5
<1> QED BY Zenon, <1>4, <1>6, <1>7, <1>8 DEF a, b

-----------------------------------------------------------------------------
(* The invariant of the intents.                                           *)

(* push_back keeps the queue in the order of the identifiers. *)
QueueOrdered == \A j, k \in DOMAIN messages : j < k => messages[j].id < messages[k].id

(* What waits for an application was sent after what it has taken. *)
TakenBefore ==
    \A a \in IntentApps : \A k \in DOMAIN taken[a] : \A j \in DOMAIN messages :
        messages[j].target = a => taken[a][k] < messages[j].id

(* While the answer is written its message is in the queue, and nobody can  *)
(* have taken it: the broker thread serves one request at a time.           *)
InAnswer == intent_broker.pc = "respond" => intent_broker.id \in Intents!PendingIds \ accepted

(* A message in the queue is acknowledged, or its answer is being written. *)
PendingAccounted ==
    \A id \in Intents!PendingIds : id \in accepted \/ (intent_broker.pc = "respond" /\ intent_broker.id = id)

(* IntentsDelivered with what makes it inductive. *)
IntentInv ==
    /\ Intents!ConstantsSound /\ Intents!TypeOK /\ Intents!IntentsDelivered
    /\ taken \in [IntentApps -> Seq(Nat)]
    /\ QueueOrdered /\ TakenBefore /\ InAnswer /\ PendingAccounted

LEMMA IntentInit ==
    ASSUME Intents!ConstantsSound, Intents!Init
    PROVE  IntentInv
<1> USE DEF Intents!Init
<1>1. messages = <<>> /\ DOMAIN messages = {} /\ Intents!PendingIds = {}
  BY DEF Intents!PendingIds
<1>2. \A a \in IntentApps : taken[a] = <<>> /\ DOMAIN taken[a] = {}
  <2>1. DOMAIN <<>> = {}
    OBVIOUS
  <2> QED BY <2>1
<1>3. Intents!TakenIds = {}
  BY <1>2 DEF Intents!TakenIds
<1>4. Intents!TypeOK
  <2>1. messages \in Seq([id : 1 .. next_id, target : IntentApps]) /\ Len(messages) <= MaxIntents
    BY DEF Intents!ConstantsSound
  <2> QED BY <2>1 DEF Intents!TypeOK, Intents!ConstantsSound
<1>5. Intents!IntentsDelivered
  BY <1>1, <1>2, <1>3 DEF Intents!IntentsDelivered, Intents!TakenOnceInOrder, Intents!AcceptedNotLost, Intents!OnlyAcceptedTaken
<1>6. taken \in [IntentApps -> Seq(Nat)]
  OBVIOUS
<1>7. InAnswer
  BY DEF InAnswer, Intents!Idle
<1> QED BY <1>1, <1>4, <1>5, <1>6, <1>7 DEF IntentInv, QueueOrdered, TakenBefore, PendingAccounted

-----------------------------------------------------------------------------
(* The steps.                                                              *)

(* The places of the queue. *)
LEMMA QueueTypes ==
    ASSUME Intents!ConstantsSound, Intents!TypeOK
    PROVE  /\ next_id \in Nat /\ DOMAIN messages = 1 .. Len(messages) /\ Len(messages) \in Nat
           /\ \A j \in DOMAIN messages : messages[j].id \in 1 .. next_id /\ messages[j].target \in IntentApps
<1>1. next_id \in Nat
  BY DEF Intents!TypeOK, Intents!ConstantsSound
<1>2. messages \in Seq([id : 1 .. next_id, target : IntentApps])
  BY DEF Intents!TypeOK
<1>3. DOMAIN messages = 1 .. Len(messages) /\ Len(messages) \in Nat
  BY <1>2
<1>4. \A j \in DOMAIN messages : messages[j] \in [id : 1 .. next_id, target : IntentApps]
  BY Zenon, <1>2, Elements
<1> QED BY <1>1, <1>3, <1>4

(* What is left of the queue when the first match is removed. *)
FirstRemoved(matching, k, rest) ==
    /\ k \in matching /\ \A j \in matching : k <= j
    /\ rest \in Seq([id : 1 .. next_id, target : IntentApps])
    /\ Len(rest) <= Len(messages)
    /\ {rest[j].id : j \in DOMAIN rest} = Intents!PendingIds \ {messages[k].id}
    /\ \A j \in DOMAIN rest : \E i \in DOMAIN messages : rest[j] = messages[i] /\ i # k
    /\ \A i, j \in DOMAIN rest : i < j => rest[i].id < rest[j].id

(* Position and Remove together do that, for cancel and for take. *)
LEMMA RemoveLeaves ==
    ASSUME Intents!ConstantsSound, Intents!TypeOK, QueueOrdered, NEW matching \in SUBSET DOMAIN messages, matching # {},
           NEW k, k = Intents!Position(matching), NEW rest, rest = Intents!Remove(k)
    PROVE  FirstRemoved(matching, k, rest)
<1> DEFINE old(j) == IF j < k THEN j ELSE j + 1
<1>1. /\ next_id \in Nat /\ DOMAIN messages = 1 .. Len(messages) /\ Len(messages) \in Nat
      /\ \A j \in DOMAIN messages : messages[j].id \in 1 .. next_id
      /\ messages \in Seq([id : 1 .. next_id, target : IntentApps])
  BY QueueTypes DEF Intents!TypeOK
<1>2. k \in matching /\ \A j \in matching : k <= j
  <2>1. \E i \in matching : \A j \in matching : i <= j
    <3>1. matching \in SUBSET Nat
      BY <1>1
    <3> QED BY <3>1, LeastElement
  <2> QED BY <2>1 DEF Intents!Position
<1>3. k \in 1 .. Len(messages)
  BY <1>1, <1>2
<1>4. /\ rest \in Seq([id : 1 .. next_id, target : IntentApps]) /\ Len(rest) = Len(messages) - 1
      /\ DOMAIN rest = 1 .. (Len(messages) - 1)
      /\ \A j \in 1 .. (Len(messages) - 1) : rest[j] = messages[old(j)]
  BY Zenon, <1>1, <1>3, WithoutElements DEF Intents!Remove
<1> DEFINE n == Len(messages)
<1>a. n \in Nat /\ k \in 1 .. n /\ DOMAIN messages = 1 .. n /\ DOMAIN rest = 1 .. (n - 1)
  BY <1>1, <1>3, <1>4
<1> HIDE DEF n
<1>5. \A j \in DOMAIN rest : old(j) \in DOMAIN messages /\ old(j) # k
  BY <1>a
<1>6. \A i, j \in DOMAIN rest : i < j => old(i) < old(j)
  BY <1>a
<1>7. \A i \in DOMAIN messages : i # k => \E j \in DOMAIN rest : old(j) = i
  <2> SUFFICES ASSUME NEW i \in 1 .. n, i # k PROVE \E j \in 1 .. (n - 1) : old(j) = i
    BY Zenon, <1>a
  <2>1. CASE i < k
    <3>1. i \in 1 .. (n - 1) /\ old(i) = i
      BY <1>a, <2>1
    <3> QED BY <3>1
  <2>2. CASE i > k
    <3>1. i - 1 \in 1 .. (n - 1) /\ old(i - 1) = i
      BY <1>a, <2>2
    <3> QED BY <3>1
  <2> QED BY <1>a, <2>1, <2>2
<1>8. \A j \in DOMAIN rest : rest[j] = messages[old(j)]
  BY <1>4
<1> HIDE DEF old
<1>9. \A i, j \in DOMAIN rest : i < j => rest[i].id < rest[j].id
  BY <1>5, <1>6, <1>8 DEF QueueOrdered
<1>10. \A i \in DOMAIN messages : i # k => messages[i].id # messages[k].id
  <2> SUFFICES ASSUME NEW i \in DOMAIN messages, i # k PROVE messages[i].id # messages[k].id
    OBVIOUS
  <2>1. k \in DOMAIN messages /\ (i < k \/ k < i)
    BY <1>1, <1>3
  <2>2. messages[i].id \in Nat /\ messages[k].id \in Nat
    BY <1>1, <2>1
  <2> QED BY <2>1, <2>2 DEF QueueOrdered
<1>11. {rest[j].id : j \in DOMAIN rest} = Intents!PendingIds \ {messages[k].id}
  <2>1. {rest[j].id : j \in DOMAIN rest} \subseteq Intents!PendingIds \ {messages[k].id}
    BY <1>5, <1>8, <1>10 DEF Intents!PendingIds
  <2>2. Intents!PendingIds \ {messages[k].id} \subseteq {rest[j].id : j \in DOMAIN rest}
    BY <1>7, <1>8 DEF Intents!PendingIds
  <2> QED BY <2>1, <2>2
<1>12. Len(rest) <= Len(messages)
  BY <1>1, <1>4
<1> QED BY <1>2, <1>4, <1>5, <1>8, <1>9, <1>11, <1>12 DEF FirstRemoved

(* Identifiers are numbers. *)
LEMMA IdTypes ==
    ASSUME IntentInv
    PROVE  /\ Intents!PendingIds \subseteq 1 .. next_id /\ accepted \subseteq 1 .. next_id
           /\ next_id \in Nat
           /\ \A a \in IntentApps : /\ taken[a] \in Seq(Nat) /\ DOMAIN taken[a] = 1 .. Len(taken[a])
                              /\ \A k \in DOMAIN taken[a] : taken[a][k] \in accepted
<1>1. /\ Intents!ConstantsSound /\ Intents!TypeOK /\ taken \in [IntentApps -> Seq(Nat)]
      /\ Intents!OnlyAcceptedTaken
  BY DEF IntentInv, Intents!IntentsDelivered
<1>2. Intents!PendingIds \subseteq 1 .. next_id /\ next_id \in Nat
  BY <1>1, QueueTypes DEF Intents!PendingIds
<1>3. accepted \subseteq 1 .. next_id
  BY <1>1 DEF Intents!TypeOK
<1>4. ASSUME NEW a \in IntentApps
      PROVE  /\ taken[a] \in Seq(Nat) /\ DOMAIN taken[a] = 1 .. Len(taken[a])
             /\ \A k \in DOMAIN taken[a] : taken[a][k] \in accepted
  <2>1. taken[a] \in Seq(Nat)
    BY <1>1
  <2>2. \A k \in DOMAIN taken[a] : taken[a][k] \in Intents!TakenIds
    BY DEF Intents!TakenIds
  <2> QED BY <1>1, <2>1, <2>2 DEF Intents!OnlyAcceptedTaken
<1> QED BY <1>2, <1>3, <1>4

(* A message is queued. *)
LEMMA SendKeeps ==
    ASSUME IntentInv, NEW sender \in IntentApps, NEW target \in IntentApps, Intents!Send(sender, target)
    PROVE  IntentInv'
<1> DEFINE n == Len(messages)
           m == [id |-> next_id + 1, target |-> target]
<1>1. /\ next_id \in Nat /\ n \in Nat /\ DOMAIN messages = 1 .. n
      /\ \A j \in DOMAIN messages : messages[j].id \in 1 .. next_id
      /\ accepted \subseteq 1 .. next_id /\ Intents!PendingIds \subseteq 1 .. next_id
      /\ messages \in Seq([id : 1 .. next_id, target : IntentApps])
  BY QueueTypes, IdTypes DEF IntentInv, Intents!TypeOK
<1>2. /\ next_id' = next_id + 1 /\ next_id < MaxMessages /\ n < MaxIntents
      /\ messages' = Append(messages, m)
      /\ intent_broker' = [pc |-> "respond", id |-> next_id + 1, target |-> target]
      /\ intent_broker = Intents!Idle /\ UNCHANGED <<installed, intent_running, accepted, taken>>
  BY DEF Intents!Send, Intents!HasRoom, Intents!appVars
<1>3. /\ next_id' \in 0 .. MaxMessages /\ n + 1 <= MaxIntents
  BY <1>1, <1>2 DEF Intents!ConstantsSound, IntentInv, Intents!TypeOK
<1>4. /\ messages' \in Seq([id : 1 .. next_id', target : IntentApps])
      /\ Len(messages') = n + 1 /\ DOMAIN messages' = 1 .. n + 1
      /\ \A j \in 1 .. n : messages'[j] = messages[j]
      /\ messages'[n + 1] = m
  <2>1. [id : 1 .. next_id, target : IntentApps] \subseteq [id : 1 .. next_id', target : IntentApps]
    BY <1>1, <1>2
  <2>2. m \in [id : 1 .. next_id', target : IntentApps]
    BY <1>1, <1>2
  <2>3. messages \in Seq([id : 1 .. next_id', target : IntentApps])
    BY Zenon, <1>1, <2>1, SeqWiden
  <2> HIDE DEF m
  <2> QED BY <1>1, <1>2, <2>2, <2>3
<1> HIDE DEF n
<1>5. Intents!PendingIds' = Intents!PendingIds \cup {next_id + 1}
  <2>1. m.id = next_id + 1
    OBVIOUS
  <2> HIDE DEF m
  <2>2. \A j \in 1 .. n : j \in 1 .. n + 1
    BY <1>1
  <2>3. n + 1 \in 1 .. n + 1 /\ \A j \in 1 .. n + 1 : j \in 1 .. n \/ j = n + 1
    BY <1>1
  <2> QED BY <1>1, <1>4, <2>1, <2>2, <2>3 DEF Intents!PendingIds
<1>6. Intents!TypeOK'
  <2>1. intent_broker' \in [pc : {"respond", "start"}, id : 1 .. next_id', target : IntentApps]
    BY <1>1, <1>2
  <2>2. accepted' \subseteq 1 .. next_id'
    BY <1>1, <1>2
  <2>3. intent_running' \subseteq installed'
    BY <1>2 DEF IntentInv, Intents!TypeOK
  <2> QED BY <1>3, <1>4, <2>1, <2>2, <2>3 DEF Intents!TypeOK
<1>7. Intents!IntentsDelivered'
  BY <1>2, <1>5 DEF IntentInv, Intents!IntentsDelivered, Intents!TakenOnceInOrder, Intents!AcceptedNotLost, Intents!OnlyAcceptedTaken,
     Intents!TakenIds
<1>8. QueueOrdered'
  <2> SUFFICES ASSUME NEW j \in 1 .. n + 1, NEW k \in 1 .. n + 1, j < k
               PROVE  messages'[j].id < messages'[k].id
    BY <1>4 DEF QueueOrdered
  <2>1. j \in 1 .. n /\ (k \in 1 .. n \/ k = n + 1)
    BY <1>1
  <2>2. CASE k \in 1 .. n
    BY Zenon, <1>1, <1>4, <2>1, <2>2 DEF IntentInv, QueueOrdered
  <2>3. CASE k = n + 1
    BY <1>1, <1>4, <2>1, <2>3
  <2> QED BY <2>1, <2>2, <2>3
<1>9. TakenBefore'
  <2> SUFFICES ASSUME NEW a \in IntentApps, NEW k \in DOMAIN taken[a], NEW j \in 1 .. n + 1,
                      messages'[j].target = a
               PROVE  taken[a][k] < messages'[j].id
    BY <1>2, <1>4 DEF TakenBefore
  <2>1. CASE j \in 1 .. n
    BY Zenon, <1>1, <1>4, <2>1 DEF IntentInv, TakenBefore
  <2>2. CASE j = n + 1
    <3>1. taken[a][k] \in accepted
      BY IdTypes
    <3>2. messages'[j].id = next_id + 1
      BY <1>4, <2>2
    <3>3. taken[a][k] \in 1 .. next_id
      BY Zenon, <1>1, <3>1
    <3> QED BY <1>1, <3>2, <3>3
  <2> QED BY <1>1, <2>1, <2>2
<1>10. InAnswer' /\ PendingAccounted'
  <2>1. intent_broker'.pc = "respond" /\ intent_broker'.id = next_id + 1
    BY <1>2
  <2>2. next_id + 1 \notin accepted'
    BY <1>1, <1>2
  <2>3. intent_broker.pc # "respond"
    BY <1>2 DEF Intents!Idle
  <2>4. Intents!PendingIds \subseteq accepted
    BY <2>3 DEF IntentInv, PendingAccounted
  <2> QED BY <1>2, <1>5, <2>1, <2>2, <2>4 DEF InAnswer, PendingAccounted
<1>11. taken' \in [IntentApps -> Seq(Nat)]
  BY <1>2 DEF IntentInv
<1> QED BY <1>6, <1>7, <1>8, <1>9, <1>10, <1>11 DEF IntentInv

(* The answer is written, or the message is taken back. *)
LEMMA RespondKeeps ==
    ASSUME IntentInv, NEW ok \in BOOLEAN, Intents!Respond(ok)
    PROVE  IntentInv'
<1>1. /\ next_id' = next_id /\ UNCHANGED <<installed, intent_running, taken>> /\ intent_broker.pc = "respond"
      /\ intent_broker.id \in Intents!PendingIds \ accepted
  BY DEF Intents!Respond, Intents!appVars, IntentInv, InAnswer
<1>2. intent_broker \in [pc : {"respond", "start"}, id : 1 .. next_id, target : IntentApps]
  BY <1>1 DEF IntentInv, Intents!TypeOK, Intents!Idle
<1>3. Intents!TakenIds' = Intents!TakenIds
  BY <1>1 DEF Intents!TakenIds
<1>4. CASE ok
  <2>1. /\ messages' = messages /\ accepted' = accepted \cup {intent_broker.id}
        /\ intent_broker' = [intent_broker EXCEPT !.pc = "start"]
    BY <1>4 DEF Intents!Respond
  <2>2. Intents!PendingIds' = Intents!PendingIds
    BY <2>1 DEF Intents!PendingIds
  <2>3. intent_broker' \in [pc : {"respond", "start"}, id : 1 .. next_id, target : IntentApps] /\ intent_broker'.pc = "start"
    BY <1>2, <2>1
  <2>4. Intents!TypeOK'
    BY <1>1, <1>2, <2>1, <2>3 DEF IntentInv, Intents!TypeOK
  <2>5. Intents!IntentsDelivered'
    BY <1>1, <1>3, <2>1, <2>2
       DEF IntentInv, Intents!IntentsDelivered, Intents!TakenOnceInOrder, Intents!AcceptedNotLost, Intents!OnlyAcceptedTaken
  <2>6. QueueOrdered' /\ TakenBefore' /\ taken' \in [IntentApps -> Seq(Nat)]
    BY <1>1, <2>1 DEF IntentInv, QueueOrdered, TakenBefore
  <2>7. InAnswer' /\ PendingAccounted'
    BY <2>1, <2>2, <2>3 DEF IntentInv, InAnswer, PendingAccounted
  <2> QED BY <2>4, <2>5, <2>6, <2>7 DEF IntentInv
<1>5. CASE ~ok
  <2> DEFINE matching == {k \in DOMAIN messages : messages[k].id = intent_broker.id}
             k == Intents!Position(matching)
  <2>1. /\ messages' = Intents!Cancel(intent_broker.id) /\ accepted' = accepted /\ intent_broker' = Intents!Idle
    BY <1>5 DEF Intents!Respond
  <2>2. matching # {} /\ matching \in SUBSET DOMAIN messages
    BY <1>1 DEF Intents!PendingIds
  <2>3. messages' = Intents!Remove(k)
    BY <2>1, <2>2 DEF Intents!Cancel
  <2> HIDE DEF matching
  <2>4. Intents!ConstantsSound /\ Intents!TypeOK /\ QueueOrdered
    BY DEF IntentInv
  <2>k. k = Intents!Position(matching)
    OBVIOUS
  <2> HIDE DEF k
  <2>f. FirstRemoved(matching, k, messages')
    BY <2>k, <2>2, <2>3, <2>4, RemoveLeaves
  <2>5. /\ k \in matching
        /\ messages' \in Seq([id : 1 .. next_id, target : IntentApps]) /\ Len(messages') <= Len(messages)
        /\ {messages'[j].id : j \in DOMAIN messages'} = Intents!PendingIds \ {messages[k].id}
        /\ \A j \in DOMAIN messages' : \E i \in DOMAIN messages : messages'[j] = messages[i]
        /\ \A i, j \in DOMAIN messages' : i < j => messages'[i].id < messages'[j].id
    BY <2>f DEF FirstRemoved
  <2>6. messages[k].id = intent_broker.id
    BY <2>5 DEF matching
  <2>7. Intents!PendingIds' = Intents!PendingIds \ {intent_broker.id}
    BY Zenon, <2>5, <2>6 DEF Intents!PendingIds
  <2>8. Intents!TypeOK'
    <3>1. Len(messages') <= MaxIntents
      <4>1. Len(messages) <= MaxIntents /\ Len(messages) \in Nat /\ Len(messages') \in Nat
        BY <2>4, <2>5, QueueTypes DEF Intents!TypeOK
      <4> QED BY <4>1, <2>4, <2>5 DEF Intents!ConstantsSound
    <3> QED BY <1>1, <2>1, <2>5, <3>1 DEF IntentInv, Intents!TypeOK
  <2>9. Intents!IntentsDelivered'
    BY <1>1, <1>3, <2>1, <2>7
       DEF IntentInv, Intents!IntentsDelivered, Intents!TakenOnceInOrder, Intents!AcceptedNotLost, Intents!OnlyAcceptedTaken
  <2>10. QueueOrdered'
    BY <2>5 DEF QueueOrdered
  <2>11. TakenBefore' /\ taken' \in [IntentApps -> Seq(Nat)]
    BY <1>1, <2>5 DEF IntentInv, TakenBefore
  <2>12. InAnswer' /\ PendingAccounted'
    BY <1>1, <2>1, <2>7 DEF IntentInv, InAnswer, PendingAccounted, Intents!Idle
  <2> QED BY <2>8, <2>9, <2>10, <2>11, <2>12 DEF IntentInv
<1> QED BY <1>4, <1>5

(* The receiver takes its oldest message. *)
LEMMA TakeKeeps ==
    ASSUME IntentInv, NEW a \in IntentApps, Intents!Take(a)
    PROVE  IntentInv'
<1> DEFINE k == Intents!Position(Intents!Waiting(a))
           id == messages[k].id
           n == Len(taken[a])
<1>1. /\ next_id' = next_id /\ UNCHANGED <<intent_broker, installed, intent_running, accepted>>
      /\ intent_broker.pc # "respond"
      /\ taken' = [taken EXCEPT ![a] = Append(taken[a], id)] /\ messages' = Intents!Remove(k)
  BY DEF Intents!Take, Intents!appVars, Intents!Idle
<1>2. /\ Intents!ConstantsSound /\ Intents!TypeOK /\ QueueOrdered
      /\ taken \in [IntentApps -> Seq(Nat)]
  BY DEF IntentInv
<1>3. Intents!Waiting(a) # {} /\ Intents!Waiting(a) \in SUBSET DOMAIN messages
  BY DEF Intents!Take, Intents!Waiting
<1>k. k = Intents!Position(Intents!Waiting(a))
  OBVIOUS
<1> HIDE DEF k
<1>f. FirstRemoved(Intents!Waiting(a), k, messages')
  BY <1>k, <1>1, <1>2, <1>3, RemoveLeaves
<1>4. /\ k \in Intents!Waiting(a) /\ \A j \in Intents!Waiting(a) : k <= j
      /\ messages' \in Seq([id : 1 .. next_id, target : IntentApps]) /\ Len(messages') <= Len(messages)
      /\ {messages'[j].id : j \in DOMAIN messages'} = Intents!PendingIds \ {messages[k].id}
      /\ \A j \in DOMAIN messages' : \E i \in DOMAIN messages : messages'[j] = messages[i] /\ i # k
      /\ \A i, j \in DOMAIN messages' : i < j => messages'[i].id < messages'[j].id
  BY <1>f DEF FirstRemoved
<1>5. k \in DOMAIN messages /\ messages[k].target = a /\ id \in Intents!PendingIds /\ id \in Nat /\ k \in Nat
  <2>1. k \in DOMAIN messages /\ messages[k].target = a
    BY <1>4 DEF Intents!Waiting
  <2> QED BY <1>2, <2>1, QueueTypes DEF Intents!PendingIds
<1> HIDE DEF id
<1>6. Intents!PendingIds' = Intents!PendingIds \ {id}
  BY Zenon, <1>4 DEF Intents!PendingIds, id
<1>7. id \in accepted
  BY <1>1, <1>5 DEF IntentInv, PendingAccounted
<1>8. /\ n \in Nat /\ DOMAIN taken[a] = 1 .. n
      /\ taken'[a] \in Seq(Nat) /\ DOMAIN taken'[a] = 1 .. n + 1
      /\ \A j \in 1 .. n : taken'[a][j] = taken[a][j]
      /\ taken'[a][n + 1] = id
      /\ \A b \in IntentApps : b # a => taken'[b] = taken[b]
  <2>1. taken[a] \in Seq(Nat) /\ taken'[a] = Append(taken[a], id)
    BY <1>1, <1>2
  <2>2. \A b \in IntentApps : b # a => taken'[b] = taken[b]
    BY <1>1, <1>2
  <2> QED BY <1>5, <2>1, <2>2
<1>9. taken' \in [IntentApps -> Seq(Nat)]
  BY <1>1, <1>2, <1>8
<1> HIDE DEF n
<1>10. Intents!TakenIds' = Intents!TakenIds \cup {id}
  <2>1. \A b \in IntentApps : {taken'[b][j] : j \in DOMAIN taken'[b]} =
            IF b = a THEN {taken[b][j] : j \in DOMAIN taken[b]} \cup {id}
            ELSE {taken[b][j] : j \in DOMAIN taken[b]}
    <3> SUFFICES ASSUME NEW b \in IntentApps
                 PROVE  {taken'[b][j] : j \in DOMAIN taken'[b]} =
                            IF b = a THEN {taken[b][j] : j \in DOMAIN taken[b]} \cup {id}
                            ELSE {taken[b][j] : j \in DOMAIN taken[b]}
      OBVIOUS
    <3>1. CASE b = a
      <4>1. n + 1 \in 1 .. n + 1 /\ \A j \in 1 .. n + 1 : j \in 1 .. n \/ j = n + 1
        BY <1>8
      <4>2. \A j \in 1 .. n : j \in 1 .. n + 1
        BY <1>8
      <4> QED BY <1>8, <3>1, <4>1, <4>2
    <3>2. CASE b # a
      BY <1>8, <3>2
    <3> QED BY <3>1, <3>2
  <2>2. \A x : x \in Intents!TakenIds' <=> \E b \in IntentApps : x \in {taken'[b][j] : j \in DOMAIN taken'[b]}
    BY DEF Intents!TakenIds
  <2>3. \A x : x \in Intents!TakenIds <=> \E b \in IntentApps : x \in {taken[b][j] : j \in DOMAIN taken[b]}
    BY DEF Intents!TakenIds
  <2> QED BY Zenon, <2>1, <2>2, <2>3
<1>11. Intents!TypeOK'
  <2>1. Len(messages') <= MaxIntents
    <3>1. Len(messages) <= MaxIntents /\ Len(messages) \in Nat /\ Len(messages') \in Nat
      BY <1>2, <1>4, QueueTypes DEF Intents!TypeOK
    <3> QED BY <1>2, <1>4, <3>1 DEF Intents!ConstantsSound
  <2> QED BY <1>1, <1>2, <1>4, <2>1 DEF Intents!TypeOK
<1>12. \A j \in 1 .. n : taken[a][j] < id
  BY Zenon, <1>5, <1>8 DEF IntentInv, TakenBefore, id
<1>13. Intents!IntentsDelivered'
  <2>1. Intents!TakenOnceInOrder'
    <3> SUFFICES ASSUME NEW b \in IntentApps, NEW i \in DOMAIN taken'[b], NEW j \in DOMAIN taken'[b], i < j
                 PROVE  taken'[b][i] < taken'[b][j]
      BY DEF Intents!TakenOnceInOrder
    <3>1. CASE b # a
      BY <1>8, <3>1 DEF IntentInv, Intents!IntentsDelivered, Intents!TakenOnceInOrder
    <3>2. CASE b = a
      <4>1. i \in 1 .. n /\ (j \in 1 .. n \/ j = n + 1)
        BY <1>8, <3>2
      <4>2. CASE j \in 1 .. n
        BY Zenon, <1>8, <3>2, <4>1, <4>2 DEF IntentInv, Intents!IntentsDelivered, Intents!TakenOnceInOrder
      <4>3. CASE j = n + 1
        BY <1>8, <1>12, <3>2, <4>1, <4>3
      <4> QED BY <4>1, <4>2, <4>3
    <3> QED BY <3>1, <3>2
  <2>2. Intents!AcceptedNotLost' /\ Intents!OnlyAcceptedTaken'
    BY <1>1, <1>6, <1>7, <1>10 DEF IntentInv, Intents!IntentsDelivered, Intents!AcceptedNotLost, Intents!OnlyAcceptedTaken
  <2> QED BY <2>1, <2>2 DEF Intents!IntentsDelivered
<1>14. QueueOrdered'
  BY <1>4 DEF QueueOrdered
<1>15. TakenBefore'
  <2> SUFFICES ASSUME NEW b \in IntentApps, NEW i \in DOMAIN taken'[b], NEW j \in DOMAIN messages',
                      messages'[j].target = b
               PROVE  taken'[b][i] < messages'[j].id
    BY DEF TakenBefore
  <2>1. PICK l \in DOMAIN messages : messages'[j] = messages[l] /\ l # k
    BY <1>4
  <2>2. CASE b # a \/ i \in 1 .. n
    <3>1. i \in DOMAIN taken[b] /\ taken'[b][i] = taken[b][i]
      BY <1>8, <2>2
    <3> QED BY <2>1, <3>1 DEF IntentInv, TakenBefore
  <2>3. CASE b = a /\ i = n + 1
    <3>1. l \in Intents!Waiting(a)
      BY <2>1, <2>3 DEF Intents!Waiting
    <3>2. k < l
      <4>1. l \in Nat
        BY <1>2, QueueTypes
      <4> QED BY <1>4, <1>5, <2>1, <3>1, <4>1
    <3>3. id < messages[l].id
      BY <1>2, <1>5, <3>2 DEF QueueOrdered, id
    <3> QED BY <1>8, <2>1, <2>3, <3>3
  <2>4. b = a => i \in 1 .. n \/ i = n + 1
    BY <1>8
  <2> QED BY <2>2, <2>3, <2>4
<1>16. InAnswer' /\ PendingAccounted'
  BY <1>1, <1>6 DEF IntentInv, InAnswer, PendingAccounted
<1> QED BY <1>9, <1>11, <1>13, <1>14, <1>15, <1>16 DEF IntentInv

(* Starts, stops and package changes leave queue and histories alone. *)
LEMMA AppStepKeeps ==
    ASSUME IntentInv, UNCHANGED <<messages, next_id, accepted, taken>>,
           intent_running' \subseteq installed',
           intent_broker' = intent_broker \/ (intent_broker.pc # "respond" /\ intent_broker' = Intents!Idle)
    PROVE  IntentInv'
<1>1. Intents!PendingIds' = Intents!PendingIds /\ Intents!TakenIds' = Intents!TakenIds
  BY DEF Intents!PendingIds, Intents!TakenIds
<1>2. Intents!TypeOK'
  BY DEF IntentInv, Intents!TypeOK
<1>3. Intents!IntentsDelivered'
  BY <1>1 DEF IntentInv, Intents!IntentsDelivered, Intents!TakenOnceInOrder, Intents!AcceptedNotLost, Intents!OnlyAcceptedTaken
<1>4. QueueOrdered' /\ TakenBefore' /\ taken' \in [IntentApps -> Seq(Nat)]
  BY DEF IntentInv, QueueOrdered, TakenBefore
<1>5. InAnswer' /\ PendingAccounted'
  BY <1>1 DEF IntentInv, InAnswer, PendingAccounted, Intents!Idle
<1> QED BY <1>2, <1>3, <1>4, <1>5 DEF IntentInv

(* One case per step. *)
LEMMA IntentStep == IntentInv /\ [Intents!Next]_(Intents!vars) => IntentInv'
<1> SUFFICES ASSUME IntentInv, [Intents!Next]_(Intents!vars) PROVE IntentInv'
  OBVIOUS
<1>1. CASE \E sender, target \in IntentApps : Intents!Send(sender, target)
  BY <1>1, SendKeeps
<1>2. CASE \E ok \in BOOLEAN : Intents!Respond(ok)
  BY <1>2, RespondKeeps
<1>3. CASE \E a \in IntentApps : Intents!Take(a)
  BY <1>3, TakeKeeps
<1>4. intent_running \subseteq installed
  BY DEF IntentInv, Intents!TypeOK
<1>5. CASE \E ok \in BOOLEAN : Intents!StartTarget(ok)
  BY <1>4, <1>5, AppStepKeeps DEF Intents!StartTarget
<1>6. CASE \E a \in IntentApps : Intents!Start(a) \/ Intents!Stop(a) \/ Intents!Uninstall(a) \/ Intents!Install(a)
  BY <1>4, <1>6, AppStepKeeps DEF Intents!Start, Intents!Stop, Intents!Uninstall, Intents!Install
<1>7. CASE UNCHANGED Intents!vars
  BY <1>4, <1>7, AppStepKeeps DEF Intents!vars, Intents!appVars
<1> QED BY <1>1, <1>2, <1>3, <1>5, <1>6, <1>7 DEF Intents!Next

(* Exactly the messages whose acknowledgement reached the sender are        *)
(* delivered, each once and in the order they were sent: IntentQueue's      *)
(* enqueue, cancel and take between starts, stops and removals of receivers. *)
THEOREM IntentsAreDelivered ==
    ASSUME Intents!ConstantsSound
    PROVE  Intents!Spec => [](Intents!TypeOK /\ Intents!IntentsDelivered)
<1>1. Intents!Init => IntentInv
  BY IntentInit
<1>2. IntentInv => Intents!TypeOK /\ Intents!IntentsDelivered
  BY DEF IntentInv
<1> QED BY <1>1, <1>2, IntentStep, PTL DEF Intents!Spec
=============================================================================
