------------------------------ MODULE WorkerPool ------------------------------
(***************************************************************************)
(* What the background job queue of packages/core/src/job-queue.ts         *)
(* promises its clients: jobs are submitted, at most Limit of them execute *)
(* at a time, and whoever waits for the pool to drain is released only     *)
(* when it is idle.                                                        *)
(***************************************************************************)
EXTENDS Naturals, FiniteSets

CONSTANTS Jobs, Waiters, Limit

VARIABLES job,      \* where each job stands
          blocked   \* the callers that wait for the pool to be idle

poolVars == <<job, blocked>>

In(s) == {j \in Jobs : job[j] = s}

Init ==
    /\ job = [j \in Jobs |-> "absent"]
    /\ blocked = {}

Submit(j) ==
    /\ job[j] \in {"absent", "finished"}
    /\ job' = [job EXCEPT ![j] = "waiting"]
    /\ UNCHANGED blocked

Withdraw(j) ==
    /\ job[j] = "waiting"
    /\ job' = [job EXCEPT ![j] = "absent"]
    /\ UNCHANGED blocked

Forget(js) ==
    /\ js \subseteq In("finished")
    /\ job' = [j \in Jobs |-> IF j \in js THEN "absent" ELSE job[j]]
    /\ UNCHANGED blocked

Execute(j) ==
    /\ job[j] = "waiting"
    /\ Cardinality(In("executing")) < Limit
    /\ job' = [job EXCEPT ![j] = "executing"]
    /\ UNCHANGED blocked

Block(w) ==
    /\ blocked' = blocked \cup {w}
    /\ UNCHANGED job

\* Every blocked caller is released exactly when the pool is left idle.
ReleaseIfIdle ==
    blocked' = IF \A j \in Jobs : job'[j] \notin {"waiting", "executing"}
               THEN {} ELSE blocked

\* A job stops executing, to be tried again or for good.  A job that cannot
\* be executed at all goes the same way without executing.
Settle(j) ==
    /\ job[j] \in {"waiting", "executing"}
    /\ job' \in {[job EXCEPT ![j] = s] : s \in {"waiting", "finished"}}
    /\ ReleaseIfIdle

Idle ==
    /\ UNCHANGED job
    /\ ReleaseIfIdle

Next ==
    \/ \E j \in Jobs : Submit(j) \/ Withdraw(j) \/ Execute(j) \/ Settle(j)
    \/ \E js \in SUBSET Jobs : Forget(js)
    \/ \E w \in Waiters : Block(w)
    \/ Idle

Spec == Init /\ [][Next]_poolVars
=============================================================================
