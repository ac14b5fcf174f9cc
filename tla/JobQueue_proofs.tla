---------------------------- MODULE JobQueue_proofs ----------------------------
(***************************************************************************)
(* Theorems about JobQueue for every number of jobs, every concurrency and *)
(* every set of job options.                                               *)
(***************************************************************************)
EXTENDS JobQueue, FiniteSetTheorems, TLAPS

\* The inductive invariant.  The type of due needs the bound on the attempts,
\* and the decrement of activeJobs needs the count of the running jobs.
IndInv == TypeOK /\ ActiveMatchesRunning /\ AttemptsBounded

\* The running jobs are finitely many.
LEMMA InStatusFinite ==
    ASSUME NEW s
    PROVE  IsFiniteSet(InStatus(s)) /\ Cardinality(InStatus(s)) \in Nat
  <1>1. IsFiniteSet(JobId)
    BY FS_Interval, JobQueueAssumption DEF JobId
  <1>2. InStatus(s) \in SUBSET JobId
    BY DEF InStatus
  <1> QED
    BY <1>1, <1>2, FS_Subset, FS_CardinalityType

\* The number of running jobs after job j alone changes its status.
LEMMA RunningAfterUpdate ==
    ASSUME TypeOK, NEW j \in JobId, NEW s,
           status' = [status EXCEPT ![j] = s]
    PROVE  Cardinality(InStatus("running")') =
             IF status[j] # "running" /\ s = "running"
             THEN Cardinality(InStatus("running")) + 1
             ELSE IF status[j] = "running" /\ s # "running"
             THEN Cardinality(InStatus("running")) - 1
             ELSE Cardinality(InStatus("running"))
  <1> DEFINE R == InStatus("running")
  <1>1. IsFiniteSet(R)
    BY InStatusFinite
  <1>2. CASE s = "running"
    <2>1. InStatus("running")' = R \cup {j}
      BY <1>2 DEF TypeOK, InStatus
    <2> QED
      BY <1>1, <1>2, <2>1, FS_AddElement DEF InStatus
  <1>3. CASE s # "running"
    <2>1. InStatus("running")' = R \ {j}
      BY <1>3 DEF TypeOK, InStatus
    <2> QED
      BY <1>1, <1>3, <2>1, FS_RemoveElement DEF InStatus
  <1> QED
    BY <1>2, <1>3

\* checkDrain leaves every drain call where it was or answers it.
LEMMA CheckDrainType ==
    ASSUME TypeOK, NEW a, NEW st, CheckDrain(a, st)
    PROVE  drains' \in [DrainCallers -> {"idle", "listed", "waiting", "resolved"}]
  BY DEF TypeOK, CheckDrain

\* A failed attempt leaves a well-formed job that has attempts left or is dead.
LEMMA FailAttemptKeeps ==
    ASSUME TypeOK, NEW j \in JobId, status[j] # "absent",
           NEW n \in Nat \ {0}, NEW a \in Nat, FailAttempt(j, n, a)
    PROVE  /\ \/ n < options[j].maxRetries /\ status' = [status EXCEPT ![j] = "pending"]
              \/ n >= options[j].maxRetries /\ status' = [status EXCEPT ![j] = "dead"]
           /\ due' \in [JobId -> 0..MaxDelay]
           /\ age' \in [JobId -> 0..AgeCap]
           /\ activeJobs' = a
           /\ drains' \in [DrainCallers -> {"idle", "listed", "waiting", "resolved"}]
  <1> USE JobQueueAssumption
  <1>1. options[j] \in JobOptions /\ options[j].maxRetries \in Nat
    BY DEF TypeOK, Options
  <1>2. drains' \in [DrainCallers -> {"idle", "listed", "waiting", "resolved"}]
    BY CheckDrainType DEF FailAttempt
  <1>3. CASE n < options[j].maxRetries
    <2>1. RetryDelay(options[j], n) \in 0..MaxDelay
      BY <1>1, <1>3
    <2> QED
      BY <1>2, <1>3, <2>1 DEF FailAttempt, TypeOK
  <1>4. CASE ~(n < options[j].maxRetries)
    BY <1>1, <1>2, <1>4 DEF FailAttempt, TypeOK
  <1> QED
    BY <1>3, <1>4

\* Starting a job, or failing one nothing can execute, keeps the invariant.
LEMMA StartJobKeeps ==
    ASSUME IndInv, activeJobs < Concurrency,
           NEW j \in JobId, status[j] = "pending", StartJob(j),
           UNCHANGED <<nextId, handlers, userRetries>>,
           running' \in BOOLEAN, timer' \in BOOLEAN
    PROVE  IndInv'
  <1> USE JobQueueAssumption DEF IndInv
  <1>1. /\ attempts' = [attempts EXCEPT ![j] = @ + 1]
        /\ UNCHANGED options
    BY DEF StartJob
  <1>2. options[j] \in JobOptions /\ options[j].maxRetries \in Nat
    BY DEF TypeOK, Options
  <1>3. attempts[j] \in Nat
    BY DEF TypeOK
  <1>4. attempts[j] = 0 \/ attempts[j] < options[j].maxRetries
    BY DEF AttemptsBounded
  <1>5. CASE options[j].type \in handlers
    <2>1. /\ status' = [status EXCEPT ![j] = "running"]
          /\ activeJobs' = activeJobs + 1
          /\ UNCHANGED <<due, age, drains>>
      BY <1>5 DEF StartJob
    <2>2. TypeOK'
      BY <1>1, <1>3, <2>1 DEF TypeOK
    <2>3. ActiveMatchesRunning'
      <3>1. Cardinality(InStatus("running")') = Cardinality(InStatus("running")) + 1
        BY <2>1, RunningAfterUpdate
      <3>2. activeJobs \in Nat
        BY DEF TypeOK
      <3> QED
        BY <2>1, <3>1, <3>2 DEF ActiveMatchesRunning, InStatus
    <2>4. AttemptsBounded'
      BY <1>1, <1>2, <1>3, <1>4, <2>1 DEF AttemptsBounded, TypeOK
    <2> QED
      BY <2>2, <2>3, <2>4
  <1>6. CASE options[j].type \notin handlers
    <2> DEFINE n == attempts[j] + 1
    <2>0. activeJobs \in Nat
      BY DEF TypeOK
    <2>1. /\ \/ n < options[j].maxRetries /\ status' = [status EXCEPT ![j] = "pending"]
             \/ n >= options[j].maxRetries /\ status' = [status EXCEPT ![j] = "dead"]
          /\ due' \in [JobId -> 0..MaxDelay]
          /\ age' \in [JobId -> 0..AgeCap]
          /\ activeJobs' = activeJobs
          /\ drains' \in [DrainCallers -> {"idle", "listed", "waiting", "resolved"}]
      BY <1>3, <1>6, <2>0, FailAttemptKeeps DEF StartJob
    <2>2. TypeOK'
      <3>1. attempts' \in [JobId -> Nat]
        BY <1>1, <1>3 DEF TypeOK
      <3>2. PICK s \in {"pending", "dead"} : status' = [status EXCEPT ![j] = s]
        BY <2>1
      <3>3. UNCHANGED <<options, nextId, handlers, userRetries>>
        BY <1>1
      <3> QED
        BY <2>1, <3>1, <3>2, <3>3 DEF TypeOK
    <2>3. ActiveMatchesRunning'
      BY <2>1, RunningAfterUpdate DEF ActiveMatchesRunning
    <2>4. AttemptsBounded'
      BY <1>1, <1>2, <1>3, <2>1 DEF AttemptsBounded, TypeOK
    <2> QED
      BY <2>2, <2>3, <2>4
  <1> QED
    BY <1>5, <1>6

\* A poll keeps the invariant, whatever it finds.
LEMMA ProcessNextKeeps ==
    ASSUME IndInv, ProcessNext, UNCHANGED <<nextId, handlers, userRetries>>,
           running' \in BOOLEAN, timer' \in BOOLEAN
    PROVE  IndInv'
  <1>1. CASE UNCHANGED <<jobVars, activeJobs, drains>>
    BY <1>1 DEF IndInv, TypeOK, ActiveMatchesRunning, AttemptsBounded, InStatus, jobVars
  <1>2. CASE CheckDrain(activeJobs, status) /\ UNCHANGED <<jobVars, activeJobs>>
    <2>1. drains' \in [DrainCallers -> {"idle", "listed", "waiting", "resolved"}]
      BY <1>2, CheckDrainType DEF IndInv
    <2> QED
      BY <1>2, <2>1 DEF IndInv, TypeOK, ActiveMatchesRunning, AttemptsBounded, InStatus, jobVars
  <1>3. CASE activeJobs < Concurrency /\ \E j \in JobId : IsNextJob(j) /\ StartJob(j)
    <2>1. PICK j \in JobId : IsNextJob(j) /\ StartJob(j)
      BY <1>3
    <2>2. status[j] = "pending"
      BY <2>1 DEF IsNextJob, Eligible, InStatus
    <2> QED
      BY <1>3, <2>1, <2>2, StartJobKeeps
  <1> QED
    BY <1>1, <1>2, <1>3 DEF ProcessNext

\* Deleting jobs that are not running keeps the invariant.
LEMMA DeleteKeeps ==
    ASSUME IndInv, NEW js \in SUBSET JobId,
           \A j \in js : status[j] # "running", Delete(js)
    PROVE  IndInv'
  <1> USE JobQueueAssumption DEF IndInv, Delete
  <1>1. TypeOK'
    BY DEF TypeOK
  <1>2. InStatus("running")' = InStatus("running")
    BY DEF InStatus, TypeOK
  <1>3. ActiveMatchesRunning'
    BY <1>2 DEF ActiveMatchesRunning
  <1>4. AttemptsBounded'
    BY DEF AttemptsBounded, TypeOK
  <1> QED
    BY <1>1, <1>3, <1>4

\* When a job is running its slot is counted.
LEMMA RunningCounted ==
    ASSUME IndInv, NEW j \in JobId, status[j] = "running"
    PROVE  activeJobs \in Nat \ {0}
  <1>1. j \in InStatus("running")
    BY DEF InStatus
  <1>2. Cardinality(InStatus("running")) # 0
    BY <1>1, InStatusFinite, FS_EmptySet
  <1> QED
    BY <1>2, InStatusFinite DEF IndInv, ActiveMatchesRunning

\* The settling of a handler keeps the invariant.
LEMMA HandlerKeeps ==
    ASSUME IndInv, NEW j \in JobId, HandlerResolves(j) \/ HandlerRejects(j)
    PROVE  IndInv'
  <1> USE JobQueueAssumption DEF IndInv
  <1>1. status[j] = "running"
    BY DEF HandlerResolves, HandlerRejects
  <1>2. activeJobs \in Nat \ {0}
    BY <1>1, RunningCounted
  <1>3. options[j] \in JobOptions /\ options[j].maxRetries \in Nat
    BY <1>1 DEF TypeOK, Options
  <1>4. attempts[j] \in Nat \ {0}
    BY <1>1, <1>3 DEF AttemptsBounded
  <1>5. CASE HandlerResolves(j)
    <2>1. drains' \in [DrainCallers -> {"idle", "listed", "waiting", "resolved"}]
      BY <1>5, CheckDrainType DEF HandlerResolves
    <2>2. TypeOK'
      BY <1>1, <1>2, <1>5, <2>1 DEF TypeOK, HandlerResolves
    <2>3. ActiveMatchesRunning'
      <3>1. Cardinality(InStatus("running")') = Cardinality(InStatus("running")) - 1
        BY <1>1, <1>5, RunningAfterUpdate DEF HandlerResolves
      <3> QED
        BY <1>2, <1>5, <3>1 DEF ActiveMatchesRunning, HandlerResolves, InStatus
    <2>4. AttemptsBounded'
      BY <1>1, <1>5 DEF AttemptsBounded, HandlerResolves, TypeOK
    <2> QED
      BY <2>2, <2>3, <2>4
  <1>6. CASE HandlerRejects(j)
    <2>1. /\ \/ attempts[j] < options[j].maxRetries /\ status' = [status EXCEPT ![j] = "pending"]
             \/ attempts[j] >= options[j].maxRetries /\ status' = [status EXCEPT ![j] = "dead"]
          /\ due' \in [JobId -> 0..MaxDelay]
          /\ age' \in [JobId -> 0..AgeCap]
          /\ activeJobs' = activeJobs - 1
          /\ drains' \in [DrainCallers -> {"idle", "listed", "waiting", "resolved"}]
      BY <1>1, <1>2, <1>4, <1>6, FailAttemptKeeps DEF HandlerRejects
    <2>2. TypeOK'
      BY <1>1, <1>2, <1>6, <2>1 DEF TypeOK, HandlerRejects
    <2>3. ActiveMatchesRunning'
      <3>1. Cardinality(InStatus("running")') = Cardinality(InStatus("running")) - 1
        BY <1>1, <2>1, RunningAfterUpdate
      <3> QED
        BY <1>2, <2>1, <3>1 DEF ActiveMatchesRunning, InStatus
    <2>4. AttemptsBounded'
      BY <1>3, <1>4, <1>6, <2>1 DEF AttemptsBounded, HandlerRejects, TypeOK
    <2> QED
      BY <2>2, <2>3, <2>4
  <1> QED
    BY <1>5, <1>6

\* Every step keeps the invariant.
LEMMA StepKeeps ==
    ASSUME IndInv, [Next]_vars
    PROVE  IndInv'
  <1> USE JobQueueAssumption
  <1>1. CASE UNCHANGED vars
    BY <1>1 DEF IndInv, TypeOK, ActiveMatchesRunning, AttemptsBounded, InStatus, vars
  <1>2. ASSUME NEW t \in Types, Register(t) PROVE IndInv'
    BY <1>2 DEF Register, IndInv, TypeOK, ActiveMatchesRunning, AttemptsBounded, InStatus, jobVars
  <1>3. ASSUME NEW o \in JobOptions, Enqueue(o) PROVE IndInv'
    <2>1. nextId \in JobId /\ status[nextId] = "absent"
      BY <1>3 DEF Enqueue, IndInv, TypeOK, JobId
    <2>2. o \in Options /\ o.delay \in 0..MaxDelay
      BY DEF Options
    <2>4. InStatus("running")' = InStatus("running")
      BY <1>3, <2>1 DEF Enqueue, InStatus, IndInv, TypeOK
    <2>5. TypeOK'
      BY <1>3, <2>1, <2>2 DEF Enqueue, IndInv, TypeOK
    <2>6. ActiveMatchesRunning'
      BY <1>3, <2>4 DEF Enqueue, IndInv, ActiveMatchesRunning
    <2>7. AttemptsBounded'
      BY <1>3, <2>1, <2>2 DEF Enqueue, IndInv, AttemptsBounded, TypeOK
    <2> QED
      BY <2>5, <2>6, <2>7 DEF IndInv
  <1>4. ASSUME NEW j \in JobId, Cancel(j) PROVE IndInv'
    BY <1>4, DeleteKeeps DEF Cancel
  <1>5. ASSUME NEW j \in JobId, Retry(j) PROVE IndInv'
    <2>1. InStatus("running")' = InStatus("running")
      BY <1>5 DEF Retry, InStatus, IndInv, TypeOK
    <2>2. TypeOK'
      BY <1>5 DEF Retry, IndInv, TypeOK
    <2>3. ActiveMatchesRunning'
      BY <1>5, <2>1 DEF Retry, IndInv, ActiveMatchesRunning
    <2>4. AttemptsBounded'
      BY <1>5 DEF Retry, IndInv, AttemptsBounded, TypeOK
    <2> QED
      BY <2>2, <2>3, <2>4 DEF IndInv
  <1>6. ASSUME NEW p \in PurgeAges, Purge(p) PROVE IndInv'
    BY <1>6, DeleteKeeps DEF Purge, InStatus
  <1>7. CASE Start
    BY <1>7, ProcessNextKeeps DEF Start
  <1>8. CASE Stop
    BY <1>8 DEF Stop, IndInv, TypeOK, ActiveMatchesRunning, AttemptsBounded, InStatus, jobVars
  <1>9. ASSUME NEW d \in DrainCallers, Drain(d) \/ DrainRegister(d) PROVE IndInv'
    BY <1>9 DEF Drain, DrainRegister, IndInv, TypeOK, ActiveMatchesRunning,
                AttemptsBounded, InStatus, jobVars
  <1>10. CASE Poll
    BY <1>10, ProcessNextKeeps DEF Poll, IndInv, TypeOK
  <1>11. ASSUME NEW j \in JobId, HandlerResolves(j) \/ HandlerRejects(j) PROVE IndInv'
    BY <1>11, HandlerKeeps
  <1>12. CASE Tick
    BY <1>12 DEF Tick, IndInv, TypeOK, ActiveMatchesRunning, AttemptsBounded, InStatus
  <1> QED
    BY <1>1, <1>2, <1>3, <1>4, <1>5, <1>6, <1>7, <1>8, <1>9, <1>10, <1>11, <1>12 DEF Next

\* Type correctness together with what it rests on: for every number of jobs
\* and every concurrency, the code's counters and jobs stay well formed.
THEOREM Invariance == Spec => []IndInv
  <1>1. Init => IndInv
    <2> SUFFICES ASSUME Init PROVE IndInv
      OBVIOUS
    <2>1. InStatus("running") = {}
      BY DEF Init, InStatus
    <2>2. TypeOK
      <3>1. MaxJobs \in Nat /\ MaxUserRetries \in Nat /\ MaxDelay \in Nat /\ AgeCap \in Nat
        BY JobQueueAssumption
      <3>2. \A j \in JobId : status[j] = "absent"
        BY DEF Init
      <3>3. /\ due \in [JobId -> 0..MaxDelay]
            /\ age \in [JobId -> 0..AgeCap]
            /\ nextId \in 1..(MaxJobs + 1)
            /\ userRetries \in 0..MaxUserRetries
        BY <3>1 DEF Init
      <3>4. options \in [JobId -> Options \cup {NoOptions}]
        BY DEF Init
      <3> QED
        BY <3>2, <3>3, <3>4 DEF Init, TypeOK
    <2>3. ActiveMatchesRunning
      BY <2>1, FS_EmptySet, JobQueueAssumption DEF Init, ActiveMatchesRunning
    <2>4. AttemptsBounded
      BY DEF Init, AttemptsBounded
    <2> QED
      BY <2>2, <2>3, <2>4 DEF IndInv
  <1>2. IndInv /\ [Next]_vars => IndInv'
    BY StepKeeps
  <1> QED
    BY <1>1, <1>2, PTL DEF Spec

\* Every value the queue keeps stays in its type, and every delay stays
\* within the range of a Date.
THEOREM TypeCorrect == Spec => []TypeOK
  BY Invariance, PTL DEF IndInv

\* The slot counter that gates processNext is the number of running jobs and
\* never exceeds the concurrency option.
THEOREM ConcurrencyRespected == Spec => []ActiveMatchesRunning
  BY Invariance, PTL DEF IndInv

\* A job is executed at most max(1, maxRetries) times, and only a job that
\* has used up its attempts is in the dead letter queue.
THEOREM RetriesBounded == Spec => []AttemptsBounded
  BY Invariance, PTL DEF IndInv

-----------------------------------------------------------------------------
(* Drains.                                                                 *)

\* A step answers waiting drains through checkDrain, with the values the
\* step leaves behind, or not at all.
LEMMA AnswersAreChecked ==
    ASSUME IndInv, [Next]_vars
    PROVE  \/ \A d \in DrainCallers : drains[d] = "waiting" => drains'[d] = "waiting"
           \/ CheckDrain(activeJobs', status')
  <1> SUFFICES ASSUME ~CheckDrain(activeJobs', status')
               PROVE  \A d \in DrainCallers : drains[d] = "waiting" => drains'[d] = "waiting"
    OBVIOUS
  <1> USE DEF IndInv
  <1>1. CASE UNCHANGED drains
    BY <1>1
  <1>2. ASSUME NEW d \in DrainCallers, Drain(d) \/ DrainRegister(d)
        PROVE  \A e \in DrainCallers : drains[e] = "waiting" => drains'[e] = "waiting"
    BY <1>2 DEF Drain, DrainRegister, TypeOK
  <1>3. ASSUME ProcessNext PROVE UNCHANGED drains
    <2>1. CASE CheckDrain(activeJobs, status) /\ UNCHANGED <<jobVars, activeJobs>>
      BY <2>1 DEF jobVars, CheckDrain
    <2>2. ASSUME NEW j \in JobId, StartJob(j) PROVE UNCHANGED drains
      <3>1. CASE FailAttempt(j, attempts[j] + 1, activeJobs)
        BY <3>1 DEF FailAttempt, CheckDrain
      <3> QED
        BY <2>2, <3>1 DEF StartJob
    <2> QED
      BY <1>3, <2>1, <2>2 DEF ProcessNext
  <1>4. ASSUME NEW j \in JobId, HandlerResolves(j) \/ HandlerRejects(j) PROVE FALSE
    BY <1>4 DEF HandlerResolves, HandlerRejects, FailAttempt, CheckDrain
  <1>5. CASE Start \/ Poll
    BY <1>1, <1>3, <1>5 DEF Start, Poll
  <1> QED
    BY <1>1, <1>2, <1>4, <1>5 DEF Next, vars, Register, Enqueue, Cancel, Delete, Retry,
                                  Purge, Stop, Tick

\* After checkDrain has answered someone, no job is pending and none runs.
LEMMA AnsweredMeansIdle ==
    ASSUME IndInv', CheckDrain(activeJobs', status'), NEW d \in DrainCallers,
           drains \in [DrainCallers -> {"idle", "listed", "waiting", "resolved"}],
           drains[d] = "waiting", drains'[d] = "resolved"
    PROVE  \A j \in JobId : status'[j] \notin {"pending", "running"}
  <1>1. activeJobs' = 0 /\ \A j \in JobId : status'[j] # "pending"
    BY DEF CheckDrain
  <1>2. InStatus("running")' = {}
    <2>1. IsFiniteSet(InStatus("running")')
      <3>1. IsFiniteSet(JobId)
        BY FS_Interval, JobQueueAssumption DEF JobId
      <3>2. InStatus("running")' \in SUBSET JobId
        BY DEF InStatus
      <3> QED
        BY <3>1, <3>2, FS_Subset
    <2>2. Cardinality(InStatus("running")') = 0
      BY <1>1 DEF IndInv, ActiveMatchesRunning, InStatus
    <2> QED
      BY <2>1, <2>2, FS_EmptySet
  <1> QED
    BY <1>1, <1>2 DEF InStatus

\* No call of drain is answered while a job is pending or running.
THEOREM DrainsAnsweredIdle == Spec => DrainSound
  <1>1. IndInv /\ IndInv' /\ [Next]_vars =>
          [\A d \in DrainCallers :
             drains[d] = "waiting" /\ drains'[d] = "resolved" =>
                \A j \in JobId : status'[j] \notin {"pending", "running"}]_vars
    <2> SUFFICES ASSUME IndInv, IndInv', [Next]_vars, NEW d \in DrainCallers,
                        drains[d] = "waiting", drains'[d] = "resolved"
                 PROVE  \A j \in JobId : status'[j] \notin {"pending", "running"}
      OBVIOUS
    <2>1. CheckDrain(activeJobs', status')
      BY AnswersAreChecked
    <2> QED
      BY <2>1, AnsweredMeansIdle DEF IndInv, TypeOK
  <1> QED
    BY <1>1, Invariance, PTL DEF Spec, DrainSound

-----------------------------------------------------------------------------
(* The queue implements the abstract pool.                                 *)

\* One job's new status is one job's new stage.
LEMMA StageUpdate ==
    ASSUME TypeOK, NEW j \in JobId, NEW s, status' = [status EXCEPT ![j] = s]
    PROVE  PoolJob' = [PoolJob EXCEPT ![j] = Stage(s)]
  BY DEF TypeOK, PoolJob

\* checkDrain releases the blocked callers exactly when the pool is idle: the
\* counter it reads and the jobs agree.
LEMMA CheckDrainReleases ==
    ASSUME TypeOK, IndInv', CheckDrain(activeJobs', status')
    PROVE  Pool!ReleaseIfIdle
  <1>1. IsFiniteSet(InStatus("running")')
    <2>1. IsFiniteSet(JobId)
      BY FS_Interval, JobQueueAssumption DEF JobId
    <2>2. InStatus("running")' \in SUBSET JobId
      BY DEF InStatus
    <2> QED
      BY <2>1, <2>2, FS_Subset
  <1>2. activeJobs' = 0 <=> InStatus("running")' = {}
    BY <1>1, FS_EmptySet DEF IndInv, ActiveMatchesRunning
  <1>3. \A j \in JobId : /\ PoolJob'[j] = "waiting" <=> status'[j] = "pending"
                         /\ PoolJob'[j] = "executing" <=> status'[j] = "running"
    BY DEF PoolJob, Stage
  <1>4. (\A j \in JobId : PoolJob'[j] \notin {"waiting", "executing"})
           <=> activeJobs' = 0 /\ \A j \in JobId : status'[j] # "pending"
    BY <1>2, <1>3 DEF InStatus
  <1>5. CASE activeJobs' = 0 /\ \A j \in JobId : status'[j] # "pending"
    <2>1. PoolBlocked' = {}
      BY <1>5 DEF CheckDrain, PoolBlocked, TypeOK
    <2> QED
      BY <1>4, <1>5, <2>1 DEF Pool!ReleaseIfIdle
  <1>6. CASE ~(activeJobs' = 0 /\ \A j \in JobId : status'[j] # "pending")
    <2>1. PoolBlocked' = PoolBlocked
      BY <1>6 DEF CheckDrain, PoolBlocked
    <2> QED
      BY <1>4, <1>6, <2>1 DEF Pool!ReleaseIfIdle
  <1> QED
    BY <1>5, <1>6

\* A failed or finished attempt is a Settle step of the pool.
LEMMA SettleStep ==
    ASSUME TypeOK, IndInv', NEW j \in JobId, status[j] \in {"pending", "running"},
           NEW s \in {"pending", "completed", "dead"},
           status' = [status EXCEPT ![j] = s],
           CheckDrain(activeJobs', status')
    PROVE  Pool!Settle(j)
  <1>1. PoolJob[j] \in {"waiting", "executing"}
    BY DEF PoolJob, Stage
  <1>2. Stage(s) \in {"waiting", "finished"}
    BY DEF Stage
  <1>3. PoolJob' \in {[PoolJob EXCEPT ![j] = t] : t \in {"waiting", "finished"}}
    BY <1>2, StageUpdate
  <1> QED
    BY <1>1, <1>3, CheckDrainReleases DEF Pool!Settle

\* The instance counts as FiniteSets does.
LEMMA PoolCounts ==
    ASSUME NEW S
    PROVE  Pool!Cardinality(S) = Cardinality(S)
  BY Zenon DEF Pool!Cardinality, Cardinality, Pool!IsFiniteSet, IsFiniteSet

\* A poll is a step of the pool.
LEMMA ProcessNextStep ==
    ASSUME IndInv, IndInv', ProcessNext
    PROVE  [Pool!Next]_Pool!poolVars
  <1> USE DEF IndInv
  <1>1. CASE UNCHANGED <<jobVars, activeJobs, drains>>
    BY <1>1 DEF jobVars, PoolJob, PoolBlocked, Pool!poolVars
  <1>2. CASE CheckDrain(activeJobs, status) /\ UNCHANGED <<jobVars, activeJobs>>
    <2>1. CheckDrain(activeJobs', status') /\ UNCHANGED PoolJob
      BY <1>2 DEF jobVars, PoolJob
    <2> QED
      BY <2>1, CheckDrainReleases DEF Pool!Idle, Pool!Next
  <1>3. ASSUME activeJobs < Concurrency, NEW j \in JobId, IsNextJob(j), StartJob(j)
        PROVE  Pool!Next
    <2>1. status[j] = "pending"
      BY <1>3 DEF IsNextJob, Eligible, InStatus
    <2>2. CASE /\ status' = [status EXCEPT ![j] = "running"]
               /\ UNCHANGED drains
      <3>1. PoolJob[j] = "waiting"
        BY <2>1 DEF PoolJob, Stage
      <3>2. PoolJob' = [PoolJob EXCEPT ![j] = "executing"] /\ UNCHANGED PoolBlocked
        BY <2>2, StageUpdate DEF Stage, PoolBlocked
      <3>3. Pool!In("executing") = InStatus("running")
        BY DEF Pool!In, PoolJob, Stage, InStatus
      <3>4. Pool!Cardinality(Pool!In("executing")) < Concurrency
        BY <1>3, <3>3, PoolCounts DEF ActiveMatchesRunning
      <3>5. Pool!Execute(j)
        BY <3>1, <3>2, <3>4 DEF Pool!Execute
      <3> QED
        BY <3>5 DEF Pool!Next
    <2>3. CASE FailAttempt(j, attempts[j] + 1, activeJobs)
      <3>1. PICK s \in {"pending", "dead"} : status' = [status EXCEPT ![j] = s]
        BY <2>3 DEF FailAttempt
      <3>2. CheckDrain(activeJobs', status')
        BY <2>3 DEF FailAttempt, CheckDrain
      <3> QED
        BY <2>1, <3>1, <3>2, SettleStep DEF Pool!Next
    <2> QED
      BY <1>3, <2>2, <2>3 DEF StartJob
  <1> QED
    BY <1>1, <1>2, <1>3 DEF ProcessNext

\* Deleting jobs that are pending or finished keeps the blocked callers.
LEMMA DeleteStage ==
    ASSUME NEW js \in SUBSET JobId, Delete(js)
    PROVE  /\ PoolJob' = [j \in JobId |-> IF j \in js THEN "absent" ELSE PoolJob[j]]
           /\ UNCHANGED PoolBlocked
  BY DEF Delete, PoolJob, PoolBlocked, Stage

\* The code's queue, for every number of jobs and every concurrency, is a
\* pool that executes at most Concurrency jobs at a time and releases its
\* blocked callers together, exactly when it is idle.
THEOREM Refinement == Spec => ImplementsPool
  <1>1. Init => Pool!Init
    BY DEF Init, Pool!Init, PoolJob, PoolBlocked, Stage
  <1>2. IndInv /\ IndInv' /\ [Next]_vars => [Pool!Next]_Pool!poolVars
    <2> SUFFICES ASSUME IndInv, IndInv', [Next]_vars PROVE [Pool!Next]_Pool!poolVars
      OBVIOUS
    <2> USE DEF IndInv
    <2>1. CASE UNCHANGED <<status, drains>>
      BY <2>1 DEF PoolJob, PoolBlocked, Pool!poolVars
    <2>2. ASSUME NEW o \in JobOptions, Enqueue(o) PROVE Pool!Next
      <3>1. nextId \in JobId /\ status[nextId] = "absent"
        BY <2>2 DEF Enqueue, TypeOK, JobId
      <3>2. PoolJob[nextId] = "absent"
        BY <3>1 DEF PoolJob, Stage
      <3>3. PoolJob' = [PoolJob EXCEPT ![nextId] = "waiting"] /\ UNCHANGED PoolBlocked
        BY <2>2, <3>1, StageUpdate DEF Enqueue, Stage, PoolBlocked
      <3> QED
        BY <3>1, <3>2, <3>3 DEF Pool!Submit, Pool!Next
    <2>3. ASSUME NEW j \in JobId, Cancel(j) PROVE Pool!Next
      <3>1. PoolJob[j] = "waiting"
        BY <2>3 DEF Cancel, PoolJob, Stage
      <3>2. /\ PoolJob' = [k \in JobId |-> IF k \in {j} THEN "absent" ELSE PoolJob[k]]
            /\ UNCHANGED PoolBlocked
        BY <2>3, DeleteStage DEF Cancel
      <3>3. [PoolJob EXCEPT ![j] = "absent"]
              = [k \in JobId |-> IF k \in {j} THEN "absent" ELSE PoolJob[k]]
        BY DEF PoolJob
      <3> QED
        BY <3>1, <3>2, <3>3 DEF Pool!Withdraw, Pool!Next
    <2>4. ASSUME NEW j \in JobId, Retry(j) PROVE Pool!Next
      <3>1. PoolJob[j] = "finished"
        BY <2>4 DEF Retry, PoolJob, Stage
      <3>2. PoolJob' = [PoolJob EXCEPT ![j] = "waiting"] /\ UNCHANGED PoolBlocked
        BY <2>4, StageUpdate DEF Retry, Stage, PoolBlocked
      <3> QED
        BY <3>1, <3>2 DEF Pool!Submit, Pool!Next
    <2>5. ASSUME NEW p \in PurgeAges, Purge(p) PROVE Pool!Next
      <3> DEFINE old == {j \in InStatus("completed") : age[j] > p}
      <3>1. old \in SUBSET JobId /\ Delete(old)
        BY <2>5 DEF Purge, InStatus
      <3>2. old \subseteq Pool!In("finished")
        BY DEF InStatus, Pool!In, PoolJob, Stage
      <3>3. Pool!Forget(old)
        BY <3>1, <3>2, DeleteStage DEF Pool!Forget
      <3> QED
        BY <3>1, <3>3 DEF Pool!Next
    <2>6. CASE Start \/ Poll
      BY <2>6, ProcessNextStep DEF Start, Poll
    <2>7. ASSUME NEW d \in DrainCallers, Drain(d) \/ DrainRegister(d)
          PROVE  [Pool!Next]_Pool!poolVars
      <3>1. UNCHANGED PoolJob
        BY <2>7 DEF Drain, DrainRegister, jobVars, PoolJob
      <3>2. PoolBlocked' = PoolBlocked \/ PoolBlocked' = PoolBlocked \cup {d}
        BY <2>7 DEF Drain, DrainRegister, PoolBlocked, TypeOK
      <3> QED
        BY <3>1, <3>2 DEF Pool!Block, Pool!Next, Pool!poolVars
    <2>8. ASSUME NEW j \in JobId, HandlerResolves(j) \/ HandlerRejects(j)
          PROVE  Pool!Next
      <3>1. status[j] = "running"
        BY <2>8 DEF HandlerResolves, HandlerRejects
      <3>2. PICK s \in {"pending", "completed", "dead"} : status' = [status EXCEPT ![j] = s]
        BY <2>8 DEF HandlerResolves, HandlerRejects, FailAttempt
      <3>3. CheckDrain(activeJobs', status')
        BY <2>8 DEF HandlerResolves, HandlerRejects, FailAttempt, CheckDrain
      <3> QED
        BY <3>1, <3>2, <3>3, SettleStep DEF Pool!Next
    <2> QED
      BY <2>1, <2>2, <2>3, <2>4, <2>5, <2>6, <2>7, <2>8
         DEF Next, vars, Register, Stop, Tick, jobVars
  <1> QED
    BY <1>1, <1>2, Invariance, PTL DEF Spec, ImplementsPool, Pool!Spec
=============================================================================
