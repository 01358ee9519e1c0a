-------------------------- MODULE MCAppdLifecycle --------------------------
(* AppdLifecycle with a bounded number of launches and package changes.    *)
EXTENDS AppdLifecycle, TLC

CONSTANTS
    MaxRuntimes,    \* how many launches are attempted
    MaxSequence     \* how many activations are counted

AppSymmetry == Permutations(Apps)

\* Launches are begun only while MaxRuntimes allows, activations while
\* MaxSequence does; whatever is under way finishes.
Begins(t) == thread[t].pc = "idle" /\ thread'[t].pc = "plan"
ResidentApp(app) == \E i \in ByApp(reg.tasks, app) : reg.tasks[i].state \in Resident

MCNext ==
    /\ Next
    /\ reg'.next_sequence <= MaxSequence + 1
    /\ \A t \in Threads : Begins(t) =>
          /\ reg.next_sequence <= MaxSequence
          /\ runtime_sequence <= MaxRuntimes \/ ResidentApp(thread'[t].app)
MCSpec == Init /\ [][MCNext]_vars

\* Scheduling: a server thread that is inside a handler and a monitor thread
\* that can make progress are not suspended for ever.
FairSpec ==
    /\ MCSpec
    /\ \A t \in Threads : WF_vars(StepOf(t))
    /\ WF_vars(ControlStep)
    /\ \A k \in 1 .. MaxRuntimes : WF_vars(k \in DOMAIN monitor /\ MonitorStep(k))

\* A runtime that leaves its unit, by itself or stopped, loses its session:
\* the monitor notices every exit.
ExitNoticed ==
    \A k \in 1 .. MaxRuntimes :
        (k \in DOMAIN sessions /\ unit[sessions[k].app].token # k) ~> (k \notin DOMAIN sessions)

\* The lifecycle mutex is always given back: no handler waits for ever.
OperationsFinish == ~Unlocked ~> Unlocked

\* Every exit is noticed by a monitor, and every handler gives the lifecycle
\* mutex back.
LifecycleProgress == ExitNoticed /\ OperationsFinish
====
