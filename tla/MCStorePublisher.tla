---------------------------- MODULE MCStorePublisher ----------------------------
(* Instances of StorePublisher for TLC: one worker that may crash, or several  *)
(* whose stalls and lost leases come with the interleaving.                    *)
EXTENDS StorePublisher, FiniteSets, TLC

CONSTANTS
    MaxCrashes,     \* bound on the crashes of a lone worker
    r1, r2          \* two releases, of different applications

VARIABLES
    crashes,        \* crashes so far
    running         \* the workers of this behaviour

MCAppOf == r1 :> "a" @@ r2 :> "b"
mcvars == <<vars, crashes, running>>

MCInit ==
    /\ Init
    /\ crashes = 0
    /\ running \in {Workers, {CHOOSE w \in Workers : TRUE}}

Lone == Cardinality(running) = 1

\* The second release comes first, and is not scheduled.
MCNext ==
    /\ UNCHANGED running
    /\ \/ /\ Control /\ UNCHANGED crashes
          /\ release'[r2].state \notin {"none", "scheduled"}
       \/ \E w \in running : Work(w) /\ UNCHANGED crashes
       \/ /\ Lone /\ crashes < MaxCrashes
          /\ \E w \in running : Crash(w)
          /\ crashes' = crashes + 1
       \/ \E e \in EventIds : LeaseExpires(e) /\ UNCHANGED crashes

MCFairness ==
    /\ \A w \in Workers : WF_vars(w \in running /\ Work(w))
    /\ \A e \in EventIds : WF_vars(LeaseExpires(e))

MCSpec == MCInit /\ [][MCNext]_mcvars /\ MCFairness
===============================================================================
