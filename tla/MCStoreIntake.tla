----------------------------- MODULE MCStoreIntake -----------------------------
(***************************************************************************)
(* The intake of the Store on small instances: a submission's upload and   *)
(* its review, which share nothing but the submission's state, each in     *)
(* behaviours of its own.  The variable `scenario' says which.             *)
(***************************************************************************)
EXTENDS StoreReview, Sequences

CONSTANTS
    Clients, Members, Digests, Collectors,
    d1, d2,             \* the chunks of the bundle
    FirstMember, FirstCollector, LastSubmission,
    MaxSends,           \* attempts of cp0ctl for one call
    MaxLate,            \* requests executed after their client gave them up
    MaxStops            \* how often a scan worker stops in the middle

VARIABLES scenario, stops, uploads, idempotency, files, requests, client, collector

Parts == <<"package", "listing">>
Bundle == [p \in {"package", "listing"} |-> IF p = "package" THEN <<d1>> ELSE <<d2>>]

Upload == INSTANCE StoreUpload
            WITH submissions <- uploads, Submissions <- 1 .. 2, MaxAttempts <- MaxSends

uvars == <<uploads, idempotency, files, requests, client, collector>>
mcvars == <<vars, uvars, scenario, stops>>

MCInit ==
    /\ Init /\ Upload!Init /\ stops = 0
    /\ scenario \in {"members", "collectors", "review"}

\* One member and two collectors, or two members and one collector.
UploadNext ==
    /\ scenario \in {"members", "collectors"}
    /\ Upload!Next
    /\ Cardinality({q \in requests' : ~Upload!Awaited(q)'}) <= MaxLate
    /\ scenario = "members" => \A g \in Collectors \ {FirstCollector} : UNCHANGED collector[g]
    /\ scenario = "collectors" =>
          /\ \A u \in DOMAIN uploads : uploads'[u].state # "withdrawn"
          /\ \A c \in Clients : \A i \in DOMAIN client'[c].members : client'[c].members[i] = FirstMember
    /\ UNCHANGED <<vars, scenario, stops>>

\* Two submissions, or one and a worker that stops.
ReviewNext ==
    /\ scenario = "review"
    /\ \/ /\ Work
          /\ stops > 0 => submissions'[LastSubmission].state = "none"
          /\ UNCHANGED stops
       \/ /\ \E w \in Workers : WorkerStops(w)
          /\ submissions[LastSubmission].state = "none"
          /\ stops < MaxStops /\ stops' = stops + 1
    /\ UNCHANGED <<uvars, scenario>>

MCNext == UploadNext \/ ReviewNext

\* Fairness of StoreReview in the behaviours where it runs.
InReview(A) == scenario = "review" /\ A /\ UNCHANGED <<uvars, scenario, stops>>
MCFairness ==
    /\ \A w \in Workers : WF_mcvars(InReview(WorkerStep(w)))
    /\ \A s \in Submissions : WF_mcvars(InReview(LeaseLapses(s)))

MCSpec == MCInit /\ [][MCNext]_mcvars /\ MCFairness

----------------------------------------------------------------------------
(* The properties of StoreUpload, for the instance                         *)

\* Client and server agree on the upload: one submission, each chunk once, the
\* same version, and the outcome that the run reports; no chunk a submission
\* refers to is missing or about to be deleted.
UploadSound == Upload!UploadSound

===============================================================================
