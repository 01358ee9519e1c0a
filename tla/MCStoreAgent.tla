---------------------------- MODULE MCStoreAgent ----------------------------
(* Instances of StoreAgent for TLC. *)
EXTENDS StoreAgent

CONSTANT MaxRequests    \* requests, scheduler events, uninstallations and restarts

VARIABLE requests

\* Two applications; the second Catalog updates the first application and no
\* longer lists the second.
MCListings == << <<1, 1>>, <<2, 0>> >>
MCWidening == {}

mcvars == <<vars, requests>>

MCInit == Init /\ requests = 0

\* Only the beginning of something new counts: what has begun always goes on.
MCNext ==
    \/ requests < MaxRequests /\ (Request \/ Surroundings) /\ requests' = requests + 1
    \/ Serve /\ UNCHANGED requests
    \/ \E i \in Slots : Work(i) /\ UNCHANGED requests

MCSpec == /\ MCInit /\ [][MCNext]_mcvars
          /\ WF_vars(Serve) /\ \A i \in Slots : WF_vars(Work(i))
=============================================================================
