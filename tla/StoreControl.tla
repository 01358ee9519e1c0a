------------------------------ MODULE StoreControl ------------------------------
(***************************************************************************)
(* What the Store promises about a submission: the reference control plane *)
(* of cp0-store-control, which keeps everything in memory and executes one *)
(* operation at a time.  Scanning is one step here and so is each review.  *)
(***************************************************************************)
EXTENDS Naturals

CONSTANT Submissions

VARIABLE submissions

NoSubmission == [state |-> "none", version |-> 0]

\* SubmissionState::can_transition_to
CanTransition(from, to) ==
    \/ from = "draft" /\ to \in {"uploading", "withdrawn"}
    \/ from = "uploading" /\ to \in {"processing", "withdrawn"}
    \/ from = "processing" /\ to \in {"ready-for-review", "needs-changes", "rejected", "withdrawn"}
    \/ from = "ready-for-review" /\ to \in {"in-review", "withdrawn"}
    \/ from = "in-review" /\ to \in {"pending-secondary-review", "needs-changes", "approved",
                                     "rejected", "withdrawn"}
    \/ from = "pending-secondary-review" /\ to \in {"in-review", "withdrawn"}

Init == submissions = [s \in Submissions |-> NoSubmission]

CreateSubmission(s) ==
    /\ submissions[s] = NoSubmission
    /\ submissions' = [submissions EXCEPT ![s] = [state |-> "uploading", version |-> 1]]

\* transition_submission, for the version the caller expects.
TransitionSubmission(s, target) ==
    /\ CanTransition(submissions[s].state, target)
    /\ submissions' = [submissions EXCEPT
          ![s] = [state |-> target, version |-> submissions[s].version + 1]]

FinalizeSubmission(s) == TransitionSubmission(s, "processing")
WithdrawSubmission(s) == TransitionSubmission(s, "withdrawn")
ScanSubmission(s) ==
    \E target \in {"ready-for-review", "needs-changes", "rejected"} :
        TransitionSubmission(s, target)
BeginReview(s) == TransitionSubmission(s, "in-review")
DecideReview(s) ==
    \E target \in {"pending-secondary-review", "approved", "needs-changes", "rejected"} :
        TransitionSubmission(s, target)

Next ==
    \E s \in Submissions :
        \/ CreateSubmission(s) \/ FinalizeSubmission(s) \/ WithdrawSubmission(s)
        \/ ScanSubmission(s) \/ BeginReview(s) \/ DecideReview(s)

Spec == Init /\ [][Next]_submissions
===============================================================================
