------------------------------- MODULE JobQueue -------------------------------
(***************************************************************************)
(* The in-memory background job queue, class MemoryJobQueue of             *)
(* packages/core/src/job-queue.ts.                                         *)
(*                                                                         *)
(* JavaScript runs one callback at a time, so an action is the code that   *)
(* runs between two points where control returns to the event loop: a      *)
(* client's call, the poll timer, the settling of a handler's promise, or  *)
(* the continuation of an await.                                           *)
(*                                                                         *)
(* Time is relative: due[j] is how many ticks job j's scheduledAt is ahead *)
(* of the clock, age[j] how many ticks ago it finished, up to AgeCap.      *)
(***************************************************************************)
EXTENDS Integers, FiniteSets

CONSTANTS MaxJobs,        \* bound: how many enqueue calls are made
          MaxUserRetries, \* bound: how many times clients call retry with success
          Concurrency,    \* options.concurrency
          JobOptions,     \* the job options clients pass to enqueue
          Types,          \* job types handlers may be registered for
          DrainCallers,   \* the clients that call drain
          PurgeAges,      \* the olderThanMs arguments clients pass to purge
          AgeCap,         \* bound: ages are not told apart beyond it
          MaxDelay        \* the longest delay after which a Date is still valid

JobId == 1..MaxJobs

\* The fields of Job that enqueue fixes for the job's lifetime.  The priority
\* is its PRIORITY_WEIGHT.
Options == [type: Types, priority: 1..4, maxRetries: Nat, delay: Nat,
            backoff: {"fixed", "exponential"}, retryDelay: Nat]

\* calculateRetryDelay of a job with the options o after its n-th attempt.
RetryDelay(o, n) ==
    IF o.backoff = "fixed" THEN o.retryDelay ELSE o.retryDelay * 2^(n - 1)

\* The delays keep scheduledAt within the range of a Date: beyond it
\* toISOString throws out of the catch block of processNext.
ASSUME JobQueueAssumption ==
    /\ MaxJobs \in Nat
    /\ MaxUserRetries \in Nat
    /\ Concurrency \in Nat \ {0}
    /\ JobOptions \subseteq Options
    /\ MaxDelay \in Nat
    /\ \A o \in JobOptions :
          /\ o.delay <= MaxDelay
          /\ \A n \in 1..o.maxRetries : RetryDelay(o, n) \in 0..MaxDelay
    /\ PurgeAges \subseteq Nat
    /\ AgeCap \in Nat

VARIABLES status,      \* Job.status, "absent" when the id is not in the jobs map
          attempts,    \* Job.attempts
          options,     \* the immutable fields of Job
          due,         \* Job.scheduledAt
          age,         \* Job.finishedAt
          nextId,      \* ids handed out by enqueue
          handlers,    \* the types with a registered handler
          running,     \* whether start was called after the last stop
          timer,       \* whether the poll timer is armed
          activeJobs,  \* the counter compared with the concurrency limit
          drains,      \* where each caller of drain stands
          userRetries  \* how many retry calls succeeded

jobVars == <<status, attempts, options, due, age>>
vars == <<status, attempts, options, due, age, nextId, handlers, running,
          timer, activeJobs, drains, userRetries>>

InStatus(s) == {j \in JobId : status[j] = s}

NoOptions == [type |-> "none"]

TypeOK ==
    /\ status \in [JobId -> {"absent", "pending", "running", "completed", "dead"}]
    /\ attempts \in [JobId -> Nat]
    /\ options \in [JobId -> Options \cup {NoOptions}]
    /\ \A j \in JobId : status[j] # "absent" => options[j] \in JobOptions
    /\ due \in [JobId -> 0..MaxDelay]
    /\ age \in [JobId -> 0..AgeCap]
    /\ nextId \in 1..(MaxJobs + 1)
    /\ \A j \in JobId : status[j] # "absent" => j < nextId
    /\ handlers \subseteq Types
    /\ running \in BOOLEAN
    /\ timer \in BOOLEAN
    /\ activeJobs \in Nat
    /\ drains \in [DrainCallers -> {"idle", "listed", "waiting", "resolved"}]
    /\ userRetries \in 0..MaxUserRetries

Init ==
    /\ status = [j \in JobId |-> "absent"]
    /\ attempts = [j \in JobId |-> 0]
    /\ options = [j \in JobId |-> NoOptions]
    /\ due = [j \in JobId |-> 0]
    /\ age = [j \in JobId |-> 0]
    /\ nextId = 1
    /\ handlers = {}
    /\ running = FALSE
    /\ timer = FALSE
    /\ activeJobs = 0
    /\ drains = [d \in DrainCallers |-> "idle"]
    /\ userRetries = 0

-----------------------------------------------------------------------------
(* Helpers of the class.                                                   *)

\* Mutant of checkDrain without the loop over the pending jobs.
CheckDrainIgnoringPending(active, st) ==
    drains' = IF active = 0
              THEN [d \in DrainCallers |->
                      IF drains[d] = "waiting" THEN "resolved" ELSE drains[d]]
              ELSE drains

\* checkDrain: once no job is active and none is pending, every registered
\* drain resolver is called.  active and st are the values it reads.
CheckDrain(active, st) ==
    drains' = IF active = 0 /\ \A j \in JobId : st[j] # "pending"
              THEN [d \in DrainCallers |->
                      IF drains[d] = "waiting" THEN "resolved" ELSE drains[d]]
              ELSE drains

\* The pending jobs whose scheduled time has come.
Eligible == {j \in InStatus("pending") : due[j] = 0}

\* getNextJob: highest priority first, then the earliest created.  The ids
\* grow with createdAt, and the sort is stable on the map's insertion order.
IsNextJob(j) ==
    /\ j \in Eligible
    /\ \A k \in Eligible :
          \/ options[j].priority > options[k].priority
          \/ options[j].priority = options[k].priority /\ j <= k

\* Mutant of the catch block with <= for <.
FailAttemptOffByOne(j, n, active) ==
    /\ IF n <= options[j].maxRetries
       THEN /\ status' = [status EXCEPT ![j] = "pending"]
            /\ due' = [due EXCEPT ![j] = RetryDelay(options[j], n)]
            /\ UNCHANGED age
       ELSE /\ status' = [status EXCEPT ![j] = "dead"]
            /\ age' = [age EXCEPT ![j] = 0]
            /\ UNCHANGED due
    /\ activeJobs' = active
    /\ CheckDrain(active, status')

\* The catch block of processNext: job j failed its n-th attempt, and
\* active jobs are left once the finally block has run.
FailAttempt(j, n, active) ==
    /\ IF n < options[j].maxRetries
       THEN /\ status' = [status EXCEPT ![j] = "pending"]
            /\ due' = [due EXCEPT ![j] = RetryDelay(options[j], n)]
            /\ UNCHANGED age
       ELSE /\ status' = [status EXCEPT ![j] = "dead"]
            /\ age' = [age EXCEPT ![j] = 0]
            /\ UNCHANGED due
    /\ activeJobs' = active
    /\ CheckDrain(active, status')

\* processNext from the counting of the attempt to its first await.  A job
\* whose type has no handler fails in the same step: nothing is awaited
\* before the throw is caught.
StartJob(j) ==
    /\ attempts' = [attempts EXCEPT ![j] = @ + 1]
    /\ UNCHANGED options
    /\ \/ /\ options[j].type \in handlers
          /\ status' = [status EXCEPT ![j] = "running"]
          /\ activeJobs' = activeJobs + 1
          /\ UNCHANGED <<due, age, drains>>
       \/ /\ options[j].type \notin handlers
          /\ FailAttempt(j, attempts[j] + 1, activeJobs)

\* Mutant of processNext without the concurrency test.
ProcessNextUnlimited ==
    \E j \in JobId : IsNextJob(j) /\ StartJob(j)

\* Mutant of processNext that does not check for drains when it finds no job.
ProcessNextSilentWhenIdle ==
    activeJobs < Concurrency /\ \E j \in JobId : IsNextJob(j) /\ StartJob(j)

\* processNext up to its first await: at the limit it does nothing, without a
\* job that is due it looks for drains to answer.
ProcessNext ==
    \/ /\ activeJobs >= Concurrency
       /\ UNCHANGED <<jobVars, activeJobs, drains>>
    \/ /\ activeJobs < Concurrency
       /\ Eligible = {}
       /\ CheckDrain(activeJobs, status)
       /\ UNCHANGED <<jobVars, activeJobs>>
    \/ /\ activeJobs < Concurrency
       /\ \E j \in JobId : IsNextJob(j) /\ StartJob(j)

-----------------------------------------------------------------------------
(* What clients call.                                                      *)

Register(t) ==
    /\ handlers' = handlers \cup {t}
    /\ UNCHANGED <<jobVars, nextId, running, timer, activeJobs, drains, userRetries>>

Enqueue(o) ==
    /\ nextId <= MaxJobs
    /\ status' = [status EXCEPT ![nextId] = "pending"]
    /\ attempts' = [attempts EXCEPT ![nextId] = 0]
    /\ options' = [options EXCEPT ![nextId] = o]
    /\ due' = [due EXCEPT ![nextId] = o.delay]
    /\ nextId' = nextId + 1
    /\ UNCHANGED <<age, handlers, running, timer, activeJobs, drains, userRetries>>

\* jobs.delete on each of the jobs js.
Delete(js) ==
    /\ status' = [j \in JobId |-> IF j \in js THEN "absent" ELSE status[j]]
    /\ attempts' = [j \in JobId |-> IF j \in js THEN 0 ELSE attempts[j]]
    /\ options' = [j \in JobId |-> IF j \in js THEN NoOptions ELSE options[j]]
    /\ due' = [j \in JobId |-> IF j \in js THEN 0 ELSE due[j]]
    /\ age' = [j \in JobId |-> IF j \in js THEN 0 ELSE age[j]]
    /\ UNCHANGED <<nextId, handlers, running, timer, activeJobs, drains, userRetries>>

Cancel(j) ==
    /\ status[j] = "pending"
    /\ Delete({j})

\* retry: only a dead job can be retried, for no code assigns "failed".
Retry(j) ==
    /\ userRetries < MaxUserRetries
    /\ status[j] = "dead"
    /\ status' = [status EXCEPT ![j] = "pending"]
    /\ attempts' = [attempts EXCEPT ![j] = 0]
    /\ userRetries' = userRetries + 1
    /\ UNCHANGED <<options, due, age, nextId, handlers, running, timer,
                   activeJobs, drains>>

Purge(olderThan) ==
    LET old == {j \in InStatus("completed") : age[j] > olderThan}
    IN  old # {} /\ Delete(old)

\* start polls at once, and poll arms the timer again.
Start ==
    /\ ~running
    /\ running' = TRUE
    /\ timer' = TRUE
    /\ ProcessNext
    /\ UNCHANGED <<nextId, handlers, userRetries>>

Stop ==
    /\ running' = FALSE
    /\ timer' = FALSE
    /\ UNCHANGED <<jobVars, nextId, handlers, activeJobs, drains, userRetries>>

\* drain up to its first await: with no active job it asks list for the
\* pending ones, whose answer is computed now and delivered later; with an
\* active job it registers its resolver at once.
Drain(d) ==
    /\ drains[d] \in {"idle", "resolved"}
    /\ drains' = [drains EXCEPT ![d] =
                    IF activeJobs > 0 THEN "waiting"
                    ELSE IF InStatus("pending") = {} THEN "resolved"
                    ELSE "listed"]
    /\ UNCHANGED <<jobVars, nextId, handlers, running, timer, activeJobs, userRetries>>

\* The rest of drain after the await: the list was not empty when it was
\* taken, so the resolver is registered whatever has happened since.
DrainRegister(d) ==
    /\ drains[d] = "listed"
    /\ drains' = [drains EXCEPT ![d] = "waiting"]
    /\ UNCHANGED <<jobVars, nextId, handlers, running, timer, activeJobs, userRetries>>

-----------------------------------------------------------------------------
(* What the event loop runs.                                               *)

Poll ==
    /\ timer
    /\ running
    /\ ProcessNext
    /\ UNCHANGED <<nextId, handlers, running, timer, userRetries>>

\* Mutant of the try block that gives the slot back there too.
HandlerResolvesTwice(j) ==
    /\ status[j] = "running"
    /\ status' = [status EXCEPT ![j] = "completed"]
    /\ age' = [age EXCEPT ![j] = 0]
    /\ activeJobs' = activeJobs - 2
    /\ CheckDrain(activeJobs - 2, status')
    /\ UNCHANGED <<attempts, options, due, nextId, handlers, running, timer, userRetries>>

\* The continuation of processNext when the handler's promise resolves.
HandlerResolves(j) ==
    /\ status[j] = "running"
    /\ status' = [status EXCEPT ![j] = "completed"]
    /\ age' = [age EXCEPT ![j] = 0]
    /\ activeJobs' = activeJobs - 1
    /\ CheckDrain(activeJobs - 1, status')
    /\ UNCHANGED <<attempts, options, due, nextId, handlers, running, timer, userRetries>>

\* Mutant of the finally block that keeps the slot of a failed job.
HandlerRejectsKeepingSlot(j) ==
    /\ status[j] = "running"
    /\ FailAttempt(j, attempts[j], activeJobs)
    /\ UNCHANGED <<attempts, options, nextId, handlers, running, timer, userRetries>>

\* The continuation of processNext when the handler's promise rejects.
HandlerRejects(j) ==
    /\ status[j] = "running"
    /\ FailAttempt(j, attempts[j], activeJobs - 1)
    /\ UNCHANGED <<attempts, options, nextId, handlers, running, timer, userRetries>>

Tick ==
    /\ \/ \E j \in JobId : due[j] > 0
       \/ \E j \in InStatus("completed") : age[j] < AgeCap
    /\ due' = [j \in JobId |-> IF due[j] > 0 THEN due[j] - 1 ELSE 0]
    /\ age' = [j \in JobId |-> IF status[j] = "completed" /\ age[j] < AgeCap
                               THEN age[j] + 1 ELSE age[j]]
    /\ UNCHANGED <<status, attempts, options, nextId, handlers, running, timer,
                   activeJobs, drains, userRetries>>

-----------------------------------------------------------------------------

Next ==
    \/ \E t \in Types : Register(t)
    \/ \E o \in JobOptions : Enqueue(o)
    \/ \E j \in JobId : Cancel(j) \/ Retry(j)
    \/ \E p \in PurgeAges : Purge(p)
    \/ Start
    \/ Stop
    \/ \E d \in DrainCallers : Drain(d) \/ DrainRegister(d)
    \/ Poll
    \/ \E j \in JobId : HandlerResolves(j) \/ HandlerRejects(j)
    \/ Tick

\* An armed timer fires, an awaited promise continues, time passes, and a
\* handler settles: the last is what the queue expects of its handlers.
Fairness ==
    /\ WF_vars(Poll)
    /\ WF_vars(Tick)
    /\ \A d \in DrainCallers : WF_vars(DrainRegister(d))
    /\ \A j \in JobId : WF_vars(HandlerResolves(j) \/ HandlerRejects(j))

Spec == Init /\ [][Next]_vars /\ Fairness
-----------------------------------------------------------------------------
(* Properties.                                                             *)

\* The counter activeJobs that gates processNext always equals the number of
\* jobs in status "running", over every success, failure, retry, cancel, stop
\* and restart, and never exceeds the concurrency option: the increment in
\* processNext and the decrement in its finally block stay paired.
ActiveMatchesRunning ==
    /\ activeJobs = Cardinality(InStatus("running"))
    /\ activeJobs <= Concurrency

\* A job is never executed more often than max(1, maxRetries) times, a job
\* goes to the dead letter queue only when its attempts are used up, and one
\* that waits for a retry always has an attempt left.
AttemptsBounded ==
    \A j \in JobId :
       LET n == attempts[j]
           most == options[j].maxRetries
       IN  /\ status[j] = "pending" => n = 0 \/ n < most
           /\ status[j] \in {"running", "completed"} => n = 1 \/ n \in 1..most
           /\ status[j] = "dead" => n >= 1 /\ n >= most

\* A call of drain that has registered its resolver is answered only by a
\* step after which no job is pending or running, whichever of the poll, a
\* success or a failure triggers checkDrain.
DrainSound ==
    [][\A d \in DrainCallers :
         drains[d] = "waiting" /\ drains'[d] = "resolved" =>
            \A j \in JobId : status'[j] \notin {"pending", "running"}]_vars

\* While the queue is kept running, every call of drain returns: also one
\* that registers its resolver after the last job has gone.
DrainReturns ==
    <>[]running => \A d \in DrainCallers :
                      drains[d] \in {"listed", "waiting"} ~> drains[d] = "resolved"

\* While the queue is kept running, every job leaves the queue: it completes,
\* is cancelled, or fails until it is dead, whatever the other jobs do.
EveryJobSettles ==
    <>[]running => \A j \in JobId :
                      status[j] \in {"pending", "running"} ~>
                         status[j] \in {"absent", "completed", "dead"}

\* What the interface's comment says of drain, "Wait for all jobs to
\* complete", without the condition that the queue is running: once every job
\* has gone, a waiting drain returns.  The code does not: cancel does not call
\* checkDrain, and a stopped queue polls no more (no run keeps this trace; the
\* README gives it).
IdleQueueReleasesDrain ==
    \A d \in DrainCallers :
       [](drains[d] = "waiting" /\ [](InStatus("pending") \cup InStatus("running") = {})
            => <>(drains[d] = "resolved"))

\* The abstract pool of WorkerPool.tla: a job is waiting, executing or
\* finished, and the number of executing jobs needs no counter.
Stage(s) ==
    CASE s = "absent" -> "absent"
      [] s = "pending" -> "waiting"
      [] s = "running" -> "executing"
      [] OTHER -> "finished"

PoolJob == [j \in JobId |-> Stage(status[j])]
PoolBlocked == {d \in DrainCallers : drains[d] = "waiting"}

Pool == INSTANCE WorkerPool WITH
    Jobs <- JobId, Waiters <- DrainCallers, Limit <- Concurrency,
    job <- PoolJob, blocked <- PoolBlocked

\* The queue implements the pool: no more than Concurrency jobs execute, only
\* an executing job or one without a handler fails or finishes, and blocked
\* callers are released together and only from an idle pool.
ImplementsPool == Pool!Spec
=============================================================================
