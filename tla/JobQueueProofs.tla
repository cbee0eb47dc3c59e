--------------------------- MODULE JobQueueProofs ---------------------------
(* Theorems about JobQueue, for every value of its constants.              *)
EXTENDS JobQueue, FiniteSetTheorems, TLAPS

-----------------------------------------------------------------------------
(* The three ways the table changes                                        *)

\* An UPDATE of one row's status.
LEMMA UpdateStatus ==
  ASSUME NEW q \in Seq(Row), NEW i \in DOMAIN q, NEW s \in Status
  PROVE  LET u == [q EXCEPT ![i].status = s] IN
         /\ u \in Seq(Row) /\ Len(u) = Len(q) /\ DOMAIN u = DOMAIN q
         /\ \A j \in DOMAIN q : u[j] = IF j = i THEN [q[i] EXCEPT !.status = s] ELSE q[j]
  <1> DEFINE u == [q EXCEPT ![i].status = s]
  <1>1. q \in [1 .. Len(q) -> Row] /\ Len(q) \in Nat
    OBVIOUS
  <1>2. [q[i] EXCEPT !.status = s] \in Row
    <2>1. q[i] \in Row
      BY <1>1
    <2>2. QED
      BY <2>1 DEF Row
  <1>3. u \in [1 .. Len(q) -> Row]
    BY <1>1, <1>2
  <1>4. QED
    BY <1>1, <1>3

\* The UPDATE of every running row when a process connects.
LEMMA ReleaseAll ==
  ASSUME NEW q \in Seq(Row)
  PROVE  LET u == [i \in DOMAIN q |->
                     IF q[i].status = "running" THEN [q[i] EXCEPT !.status = "interrupted"] ELSE q[i]] IN
         u \in Seq(Row) /\ Len(u) = Len(q) /\ DOMAIN u = DOMAIN q
  <1> DEFINE u == [i \in DOMAIN q |->
                     IF q[i].status = "running" THEN [q[i] EXCEPT !.status = "interrupted"] ELSE q[i]]
  <1>1. q \in [1 .. Len(q) -> Row] /\ Len(q) \in Nat
    OBVIOUS
  <1>2. ASSUME NEW i \in DOMAIN q
        PROVE  u[i] \in Row
    <2>1. q[i] \in Row
      BY <1>1
    <2>2. QED
      BY <2>1 DEF Row, Status
  <1>3. u \in [1 .. Len(q) -> Row]
    BY <1>1, <1>2
  <1>4. QED
    BY <1>1, <1>3

\* An INSERT.
LEMMA InsertRow ==
  ASSUME NEW q \in Seq(Row), NEW r \in Row
  PROVE  /\ Append(q, r) \in Seq(Row) /\ Len(Append(q, r)) = Len(q) + 1
         /\ DOMAIN Append(q, r) = DOMAIN q \cup {Len(q) + 1}
         /\ \A j \in DOMAIN q : Append(q, r)[j] = q[j]
         /\ Append(q, r)[Len(q) + 1] = r
  OBVIOUS

-----------------------------------------------------------------------------
(* The inductive invariant                                                 *)

\* A coroutine on its way through enqueue knows its platform, and its key once
\* it has decided to insert.
EnqueueInv ==
  \A t \in Thread :
    /\ thread[t].pc \in {"plan", "check", "insert"} => thread[t].platform \in Platform
    /\ thread[t].pc = "insert" => thread[t].key \in JobKey

\* A worker task exists only while its process is up, and holds a row of its
\* own platform.
WorkerInv ==
  \A p \in Platform :
    /\ worker[p].pc # "off" => proc[Server[p]] = "up"
    /\ worker[p].pc = "busy" => /\ worker[p].job \in DOMAIN jobs
                                /\ jobs[worker[p].job].platform = p

IInv == TypeOK /\ EnqueueInv /\ WorkerInv /\ RunningIsOwned /\ OneRunPerPlatform

\* Fresh locals are well typed and hold nothing.
LEMMA AtType ==
  ASSUME NEW pc \in {"off", "boot", "sleep", "loop", "dead", "idle"}
  PROVE  At(pc) \in Local /\ At(pc).pc = pc
  BY DEF At, Local, Pc

\* What a tick reads is what `batch` may hold.
LEMMA ReadType ==
  ASSUME TypeOK, NEW S \in SUBSET Platform
  PROVE  Read(S) \in SUBSET [platform : Platform, categories : SUBSET Category]
  BY DEF Read, TypeOK, Schedule

\* A cycle's plan asks for legal jobs.
LEMMA PlanType ==
  ASSUME TypeOK, NEW p \in Platform, NEW cats \in SUBSET Category
  PROVE  CyclePlan(p, cats) \in SUBSET JobKey
  BY ConstantsAssumption DEF CyclePlan, JobKey, JobKind, TypeOK

\* The invariant holds when the table is empty and every process is down.
LEMMA InitInv == Init => IInv
  <1> SUFFICES ASSUME Init PROVE IInv
    OBVIOUS
  <1>1. TypeOK
    <2>1. thread \in [Thread -> Local]
      BY AtType DEF Init
    <2>2. QED
      BY <2>1, ConstantsAssumption DEF Init, TypeOK, Schedule
  <1>2. EnqueueInv
    BY AtType DEF Init, EnqueueInv
  <1>3. WorkerInv /\ RunningIsOwned /\ OneRunPerPlatform
    BY DEF Init, WorkerInv, RunningIsOwned, OneRunPerPlatform
  <1>4. QED
    BY <1>1, <1>2, <1>3 DEF IInv

-----------------------------------------------------------------------------
(* Every step preserves it                                                 *)

\* A step of a coroutine that only enqueues or reads leaves the rows' side of
\* the invariant alone.
LEMMA RowsUndisturbed ==
  ASSUME IInv, UNCHANGED <<jobs, proc, worker>>
  PROVE  WorkerInv' /\ RunningIsOwned' /\ OneRunPerPlatform'
  BY DEF IInv, WorkerInv, RunningIsOwned, OneRunPerPlatform

\* One coroutine moves to a well-typed place.
LEMMA ThreadMoves ==
  ASSUME IInv, NEW t \in Thread, NEW l \in Local, thread' = [thread EXCEPT ![t] = l],
         l.pc \in {"plan", "check", "insert"} => l.platform \in Platform,
         l.pc = "insert" => l.key \in JobKey
  PROVE  thread' \in [Thread -> Local] /\ EnqueueInv'
  BY DEF IInv, TypeOK, EnqueueInv

LEMMA RowsType ==
  ASSUME TypeOK
  PROVE  \A i \in DOMAIN jobs : jobs[i] \in Row /\ jobs[i].platform \in Platform
  <1>1. jobs \in [1 .. Len(jobs) -> Row]
    BY DEF TypeOK
  <1>2. QED
    BY <1>1 DEF Row

LEMMA StepConnect ==
  ASSUME IInv, NEW a \in Process, Connect(a)
  PROVE  IInv'
  <1> USE DEF IInv, Connect
  <1>1. jobs' \in Seq(Row) /\ Len(jobs') = Len(jobs) /\ DOMAIN jobs' = DOMAIN jobs
    BY ReleaseAll DEF TypeOK
  <1>2. TypeOK'
    BY <1>1 DEF TypeOK
  <1>3. EnqueueInv'
    BY DEF EnqueueInv
  <1>4. \A i \in DOMAIN jobs : jobs[i] \in Row
    BY RowsType
  <1>5. \A i \in DOMAIN jobs : jobs'[i].status # "running" /\ jobs'[i].platform = jobs[i].platform
    BY <1>4 DEF Row
  <1>6. WorkerInv'
    BY <1>1, <1>5, ConstantsAssumption DEF WorkerInv, TypeOK
  <1>7. QED
    BY <1>1, <1>2, <1>3, <1>5, <1>6 DEF RunningIsOwned, OneRunPerPlatform

LEMMA StepBoot ==
  ASSUME IInv, NEW a \in Process, Boot(a)
  PROVE  IInv'
  <1> USE DEF IInv, Boot
  <1>1. thread' \in [Thread -> Local] /\ EnqueueInv'
    BY AtType, ThreadMoves DEF Thread
  <1>2. TypeOK'
    BY <1>1, ConstantsAssumption DEF TypeOK, Schedule
  <1>3. WorkerInv'
    BY ConstantsAssumption DEF WorkerInv, TypeOK
  <1>4. \A i \in DOMAIN jobs : jobs[i].platform \in Platform
    BY RowsType
  <1>5. RunningIsOwned'
    <2> SUFFICES ASSUME NEW i \in DOMAIN jobs, jobs[i].status = "running", NEW p, p = jobs[i].platform
                 PROVE  \/ worker'[p].pc \in {"busy", "dead"} /\ worker'[p].job = i
                        \/ proc'[Server[p]] = "down"
      BY DEF RunningIsOwned
    <2>1. p \in Platform /\ Server[p] \in Process
      BY <1>4, ConstantsAssumption
    <2>2. CASE worker[p].pc \in {"busy", "dead"} /\ worker[p].job = i
      <3>1. Server[p] # a
        BY <2>1, <2>2 DEF WorkerInv
      <3>2. QED
        BY <2>1, <2>2, <3>1
    <2>3. CASE proc[Server[p]] = "down"
      BY <2>1, <2>3 DEF TypeOK
    <2>4. QED
      BY <2>2, <2>3 DEF RunningIsOwned
  <1>6. QED
    BY <1>1, <1>2, <1>3, <1>5 DEF OneRunPerPlatform

LEMMA StepStop ==
  ASSUME IInv, NEW a \in Process, Stop(a)
  PROVE  IInv'
  <1> USE DEF IInv, Stop
  <1>1. thread' \in [Thread -> Local] /\ EnqueueInv'
    BY AtType DEF EnqueueInv, TypeOK
  <1>2. TypeOK'
    BY <1>1, ConstantsAssumption DEF TypeOK
  <1>3. WorkerInv'
    BY ConstantsAssumption DEF WorkerInv, TypeOK
  <1>4. \A i \in DOMAIN jobs : jobs[i].platform \in Platform
    BY RowsType
  <1>5. RunningIsOwned'
    BY <1>4, ConstantsAssumption DEF RunningIsOwned, TypeOK
  <1>6. QED
    BY <1>1, <1>2, <1>3, <1>5 DEF OneRunPerPlatform

LEMMA StepClaim ==
  ASSUME IInv, NEW p \in Platform, Claim(p)
  PROVE  IInv'
  <1> USE DEF IInv
  <1>1. PICK i \in QueuedIds(p) :
          /\ jobs' = [jobs EXCEPT ![i].status = "running"]
          /\ worker' = [worker EXCEPT ![p] = [pc |-> "busy", job |-> i]]
    BY DEF Claim
  <1>2. i \in DOMAIN jobs /\ jobs[i].platform = p /\ jobs \in Seq(Row)
    BY DEF QueuedIds, TypeOK
  <1>3. /\ jobs' \in Seq(Row) /\ Len(jobs') = Len(jobs) /\ DOMAIN jobs' = DOMAIN jobs
        /\ \A j \in DOMAIN jobs : jobs'[j] = IF j = i THEN [jobs[i] EXCEPT !.status = "running"] ELSE jobs[j]
    BY <1>1, <1>2, UpdateStatus DEF Status
  <1>4. /\ \A j \in DOMAIN jobs : jobs[j] \in Row /\ jobs'[j].platform = jobs[j].platform
        /\ \A j \in DOMAIN jobs : j # i => jobs'[j] = jobs[j]
    BY <1>2, <1>3, RowsType DEF Row
  <1>5. TypeOK'
    <2>1. i \in 0 .. MaxJobs
      BY <1>2, ConstantsAssumption DEF TypeOK
    <2>2. QED
      BY <1>1, <1>3, <2>1 DEF TypeOK, Claim
  <1>6. EnqueueInv'
    BY DEF EnqueueInv, Claim
  <1>7. WorkerInv'
    BY <1>1, <1>2, <1>3, <1>4 DEF WorkerInv, TypeOK, Claim
  <1>8. \A j \in DOMAIN jobs : jobs[j].platform = p => jobs[j].status # "running"
    BY DEF RunningIsOwned, WorkerInv, TypeOK, Claim
  <1>9. RunningIsOwned'
    BY <1>1, <1>2, <1>3, <1>4, <1>8 DEF RunningIsOwned, TypeOK, Claim, Row
  <1>10. OneRunPerPlatform'
    BY <1>2, <1>3, <1>4, <1>8 DEF OneRunPerPlatform
  <1>11. QED
    BY <1>5, <1>6, <1>7, <1>9, <1>10

LEMMA StepFinish ==
  ASSUME IInv, NEW p \in Platform, Finish(p)
  PROVE  IInv'
  <1> USE DEF IInv
  <1>1. PICK i, s : /\ i = worker[p].job /\ s \in {"done", "failed"}
                    /\ jobs' = [jobs EXCEPT ![i].status = s]
    BY DEF Finish
  <1>2. s \in Status /\ i \in DOMAIN jobs /\ jobs[i].platform = p /\ jobs \in Seq(Row)
    BY <1>1 DEF Finish, WorkerInv, TypeOK, Status
  <1>3. /\ jobs' \in Seq(Row) /\ Len(jobs') = Len(jobs) /\ DOMAIN jobs' = DOMAIN jobs
        /\ \A j \in DOMAIN jobs : jobs'[j] = IF j = i THEN [jobs[i] EXCEPT !.status = s] ELSE jobs[j]
    BY <1>1, <1>2, UpdateStatus
  <1>4. /\ \A j \in DOMAIN jobs : jobs[j] \in Row /\ jobs'[j].platform = jobs[j].platform
        /\ \A j \in DOMAIN jobs : j # i => jobs'[j] = jobs[j]
        /\ jobs'[i].status # "running"
    <2>1. \A j \in DOMAIN jobs : jobs[j] \in Row
      BY RowsType
    <2>2. [jobs[i] EXCEPT !.status = s].platform = jobs[i].platform
          /\ [jobs[i] EXCEPT !.status = s].status = s
      BY <1>2, <2>1 DEF Row
    <2>3. s # "running"
      BY <1>1
    <2>4. QED
      BY <1>2, <1>3, <2>1, <2>2, <2>3
  <1>5. TypeOK'
    BY <1>3, ConstantsAssumption DEF TypeOK, Finish
  <1>6. EnqueueInv'
    BY DEF EnqueueInv, Finish
  <1>7. WorkerInv'
    BY <1>1, <1>2, <1>3, <1>4 DEF WorkerInv, TypeOK, Finish
  <1>8. RunningIsOwned'
    BY <1>1, <1>2, <1>3, <1>4 DEF RunningIsOwned, TypeOK, Finish, Row
  <1>9. OneRunPerPlatform'
    BY <1>2, <1>3, <1>4 DEF OneRunPerPlatform
  <1>10. QED
    BY <1>5, <1>6, <1>7, <1>8, <1>9

LEMMA StepWorkerDies ==
  ASSUME IInv, NEW p \in Platform, WorkerDies(p)
  PROVE  IInv'
  <1> USE DEF IInv, WorkerDies
  <1>1. /\ worker' \in [Platform -> [pc : {"off", "idle", "busy", "dead"}, job : 0 .. MaxJobs]]
        /\ \A q \in Platform : worker'[q].job = worker[q].job
        /\ \A q \in Platform : q # p => worker'[q] = worker[q]
        /\ worker'[p].pc = "dead"
    BY DEF TypeOK
  <1>2. TypeOK' /\ EnqueueInv'
    BY <1>1 DEF TypeOK, EnqueueInv
  <1>3. WorkerInv'
    BY <1>1 DEF WorkerInv
  <1>4. \A i \in DOMAIN jobs : jobs[i].platform \in Platform
    BY RowsType
  <1>5. RunningIsOwned'
    BY <1>1, <1>4 DEF RunningIsOwned
  <1>6. QED
    BY <1>2, <1>3, <1>5 DEF OneRunPerPlatform

\* The steps of enqueue, in whichever coroutine.
LEMMA StepPlan ==
  ASSUME IInv, NEW t \in Thread, Plan(t)
  PROVE  IInv'
  <1> DEFINE l == [thread[t] EXCEPT !.pc = "check",
                     !.plan = CyclePlan(thread[t].platform, thread[t].categories)]
  <1>1. thread[t] \in Local /\ thread[t].platform \in Platform
    BY DEF IInv, TypeOK, EnqueueInv, Plan
  <1>2. CyclePlan(thread[t].platform, thread[t].categories) \in SUBSET JobKey
    BY <1>1, PlanType DEF IInv, Local
  <1>3. l \in Local /\ l.pc = "check" /\ l.platform = thread[t].platform
    BY <1>1, <1>2 DEF Local, Pc
  <1>4. thread' = [thread EXCEPT ![t] = l]
    BY DEF Plan
  <1>5. thread' \in [Thread -> Local] /\ EnqueueInv'
    BY <1>1, <1>3, <1>4, ThreadMoves
  <1>6. QED
    BY <1>5, RowsUndisturbed DEF IInv, TypeOK, Plan, Enqueuing

LEMMA StepEnqueueRefused ==
  ASSUME IInv, NEW t \in Thread, EnqueueRefused(t)
  PROVE  IInv'
  <1>1. PICK k \in First(thread[t].plan) :
          thread' = [thread EXCEPT ![t] = [thread[t] EXCEPT !.plan = thread[t].plan \ {k}]]
    BY DEF EnqueueRefused
  <1> DEFINE l == [thread[t] EXCEPT !.plan = thread[t].plan \ {k}]
  <1>2. thread[t] \in Local /\ thread[t].pc = "check" /\ thread[t].platform \in Platform
    BY DEF IInv, TypeOK, EnqueueInv, EnqueueRefused
  <1>3. l \in Local /\ l.pc = "check" /\ l.platform = thread[t].platform
    BY <1>2 DEF Local
  <1>4. thread' \in [Thread -> Local] /\ EnqueueInv'
    BY <1>1, <1>2, <1>3, ThreadMoves
  <1>5. QED
    BY <1>4, RowsUndisturbed DEF IInv, TypeOK, EnqueueRefused, Enqueuing

LEMMA StepEnqueueFree ==
  ASSUME IInv, NEW t \in Thread, EnqueueFree(t)
  PROVE  IInv'
  <1>1. PICK k \in First(thread[t].plan) :
          thread' = [thread EXCEPT ![t] = [thread[t] EXCEPT
                       !.pc = "insert", !.key = k, !.plan = thread[t].plan \ {k}]]
    BY DEF EnqueueFree
  <1> DEFINE l == [thread[t] EXCEPT !.pc = "insert", !.key = k, !.plan = thread[t].plan \ {k}]
  <1>2. thread[t] \in Local /\ thread[t].platform \in Platform
    BY DEF IInv, TypeOK, EnqueueInv, EnqueueFree
  <1>3. k \in JobKey
    BY <1>2 DEF First, Local
  <1>4. l \in Local /\ l.pc = "insert" /\ l.key = k /\ l.platform = thread[t].platform
    BY <1>2, <1>3 DEF Local, Pc
  <1>5. thread' \in [Thread -> Local] /\ EnqueueInv'
    BY <1>1, <1>2, <1>3, <1>4, ThreadMoves
  <1>6. QED
    BY <1>5, RowsUndisturbed DEF IInv, TypeOK, EnqueueFree, Enqueuing

\* The row an INSERT of coroutine t writes.
NewRow(t) == [platform |-> thread[t].platform, key |-> thread[t].key,
              full |-> thread[t].full, status |-> "queued"]

LEMMA InsertEffect ==
  ASSUME IInv, NEW t \in Thread, EnqueueInsert(t)
  PROVE  /\ NewRow(t) \in Row /\ jobs' = Append(jobs, NewRow(t)) /\ jobs' \in Seq(Row)
         /\ Len(jobs') = Len(jobs) + 1 /\ Len(jobs') <= MaxJobs
         /\ DOMAIN jobs' = DOMAIN jobs \cup {Len(jobs) + 1} /\ Len(jobs) + 1 \notin DOMAIN jobs
         /\ \A j \in DOMAIN jobs : jobs'[j] = jobs[j]
         /\ jobs'[Len(jobs) + 1] = NewRow(t)
  <1>1. NewRow(t) \in Row
    BY DEF NewRow, Row, Status, IInv, TypeOK, EnqueueInv, EnqueueInsert, Local
  <1>2. jobs \in Seq(Row) /\ jobs' = Append(jobs, NewRow(t)) /\ Len(jobs) < MaxJobs
    BY DEF IInv, TypeOK, EnqueueInsert, NewRow
  <1>3. /\ jobs' \in Seq(Row) /\ Len(jobs') = Len(jobs) + 1
        /\ DOMAIN jobs' = DOMAIN jobs \cup {Len(jobs) + 1}
        /\ \A j \in DOMAIN jobs : jobs'[j] = jobs[j]
        /\ jobs'[Len(jobs) + 1] = NewRow(t)
    BY <1>1, <1>2, InsertRow
  <1>4. Len(jobs) \in Nat /\ DOMAIN jobs = 1 .. Len(jobs)
    BY <1>2
  <1>5. Len(jobs') <= MaxJobs /\ Len(jobs) + 1 \notin DOMAIN jobs
    BY <1>2, <1>3, <1>4, ConstantsAssumption
  <1>6. QED
    BY <1>1, <1>2, <1>3, <1>5

LEMMA StepEnqueueInsert ==
  ASSUME IInv, NEW t \in Thread, EnqueueInsert(t)
  PROVE  IInv'
  <1> DEFINE l == [thread[t] EXCEPT !.pc = "check", !.key = None]
  <1>1. thread[t] \in Local /\ thread[t].platform \in Platform
    BY DEF IInv, TypeOK, EnqueueInv, EnqueueInsert
  <1>2. l \in Local /\ l.pc = "check" /\ l.platform = thread[t].platform
    BY <1>1 DEF Local, Pc
  <1>3. thread' = [thread EXCEPT ![t] = l]
    BY DEF EnqueueInsert
  <1>4. thread' \in [Thread -> Local] /\ EnqueueInv'
    BY <1>1, <1>2, <1>3, ThreadMoves
  <1>5. UNCHANGED <<schedules, tracked, proc, worker, phase, batch, cycles, stops>>
    BY DEF EnqueueInsert, Enqueuing
  <1>6. TypeOK'
    BY <1>4, <1>5, InsertEffect DEF IInv, TypeOK
  <1>7. NewRow(t).status = "queued"
    BY DEF NewRow
  <1>8. WorkerInv'
    BY <1>5, InsertEffect DEF IInv, WorkerInv
  <1>9. RunningIsOwned'
    BY <1>5, <1>7, InsertEffect DEF IInv, RunningIsOwned
  <1>10. OneRunPerPlatform'
    BY <1>7, InsertEffect DEF IInv, OneRunPerPlatform
  <1>11. QED
    BY <1>4, <1>6, <1>8, <1>9, <1>10 DEF IInv

LEMMA StepEnqueueReturn ==
  ASSUME IInv, NEW t \in Thread, EnqueueReturn(t)
  PROVE  IInv'
  <1>1. PICK pc \in {"loop", "idle"} : thread' = [thread EXCEPT ![t] = At(pc)]
    BY DEF EnqueueReturn
  <1>2. thread' \in [Thread -> Local] /\ EnqueueInv'
    BY <1>1, AtType, ThreadMoves
  <1>3. QED
    BY <1>2, RowsUndisturbed DEF IInv, TypeOK, EnqueueReturn, Enqueuing

\* The steps of a scheduler.
LEMMA PlanStart ==
  ASSUME NEW p \in Platform, NEW cats \in SUBSET Category
  PROVE  LET l == [At("plan") EXCEPT !.platform = p, !.categories = cats] IN
         l \in Local /\ l.pc = "plan" /\ l.platform = p
  BY DEF At, Local, Pc

LEMMA StepScheduler ==
  ASSUME IInv, NEW a \in Process, Scheduler(a) \/ SchedulerError(a)
  PROVE  IInv'
  <1> USE DEF IInv
  <1>0. a \in Thread
    BY DEF Thread
  <1>1. CASE SchedulerStarts(a)
    <2>1. thread' \in [Thread -> Local] /\ EnqueueInv'
      BY <1>0, <1>1, AtType, ThreadMoves DEF SchedulerStarts
    <2>2. Read({p \in Mine(a) : schedules[p].enabled})
            \in SUBSET [platform : Platform, categories : SUBSET Category]
      BY ReadType DEF Mine
    <2>3. batch' \in [Process -> SUBSET [platform : Platform, categories : SUBSET Category]]
      BY <1>1, <2>2 DEF SchedulerStarts, TypeOK
    <2>4. QED
      BY <1>1, <2>1, <2>3, RowsUndisturbed DEF SchedulerStarts, TypeOK
  <1>2. CASE StartupCycle(a)
    <2>1. PICK s \in batch[a] :
            /\ batch' = [batch EXCEPT ![a] = batch[a] \ {s}]
            /\ thread' = [thread EXCEPT ![a] =
                 [At("plan") EXCEPT !.platform = s.platform, !.categories = s.categories]]
      BY <1>2 DEF StartupCycle
    <2>2. s.platform \in Platform /\ s.categories \in SUBSET Category
      BY DEF TypeOK
    <2>3. thread' \in [Thread -> Local] /\ EnqueueInv'
      BY <1>0, <2>1, <2>2, PlanStart, ThreadMoves
    <2>4. QED
      BY <1>2, <2>1, <2>3, RowsUndisturbed DEF StartupCycle, TypeOK
  <1>3. CASE SchedulerSleeps(a)
    <2>1. thread' \in [Thread -> Local] /\ EnqueueInv'
      BY <1>0, <1>3, AtType, ThreadMoves DEF SchedulerSleeps
    <2>2. QED
      BY <1>3, <2>1, RowsUndisturbed DEF SchedulerSleeps, TypeOK
  <1>4. CASE Tick(a)
    <2>1. thread' \in [Thread -> Local] /\ EnqueueInv'
      BY <1>0, <1>4, AtType, ThreadMoves DEF Tick
    <2>2. Read({p \in Mine(a) : Due(p)}) \in SUBSET [platform : Platform, categories : SUBSET Category]
      BY ReadType DEF Mine
    <2>3. QED
      BY <1>4, <2>1, <2>2, RowsUndisturbed DEF Tick, TypeOK
  <1>5. CASE Reschedule(a)
    <2>1. PICK s \in batch[a] :
            /\ schedules' = [schedules EXCEPT ![s.platform] =
                 [seeded |-> TRUE, enabled |-> TRUE, categories |-> s.categories, elapsed |-> FALSE]]
            /\ batch' = [batch EXCEPT ![a] = batch[a] \ {s}]
            /\ thread' = [thread EXCEPT ![a] =
                 [At("plan") EXCEPT !.platform = s.platform, !.categories = s.categories]]
            /\ cycles' = [cycles EXCEPT ![s.platform] =
                 IF cycles[s.platform] < 2 THEN cycles[s.platform] + 1 ELSE cycles[s.platform]]
      BY <1>5 DEF Reschedule
    <2>2. s.platform \in Platform /\ s.categories \in SUBSET Category
      BY DEF TypeOK
    <2>3. thread' \in [Thread -> Local] /\ EnqueueInv'
      BY <1>0, <2>1, <2>2, PlanStart, ThreadMoves
    <2>4. schedules' \in [Platform -> Schedule] /\ cycles' \in [Platform -> 0 .. 2]
      BY <2>1, <2>2 DEF TypeOK, Schedule
    <2>5. QED
      BY <1>5, <2>1, <2>3, <2>4, RowsUndisturbed DEF Reschedule, TypeOK
  <1>6. CASE SchedulerError(a)
    <2>1. PICK pc \in {"sleep", "dead"} : thread' = [thread EXCEPT ![a] = At(pc)]
      BY <1>6 DEF SchedulerError
    <2>2. thread' \in [Thread -> Local] /\ EnqueueInv'
      BY <1>0, <2>1, AtType, ThreadMoves
    <2>3. QED
      BY <1>6, <2>2, RowsUndisturbed DEF SchedulerError, TypeOK
  <1>7. QED
    BY <1>1, <1>2, <1>3, <1>4, <1>5, <1>6 DEF Scheduler

LEMMA StepTimePasses ==
  ASSUME IInv, NEW p \in Platform, TimePasses(p)
  PROVE  IInv'
  <1> USE DEF IInv, TimePasses
  <1>1. [schedules[p] EXCEPT !.elapsed = TRUE] \in Schedule
    BY DEF TypeOK, Schedule
  <1>2. schedules' \in [Platform -> Schedule] /\ cycles' \in [Platform -> 0 .. 2]
    BY <1>1 DEF TypeOK
  <1>3. QED
    BY <1>2, RowsUndisturbed DEF TypeOK, EnqueueInv

\* A cancelled row was queued, so no worker holds it as a run.
LEMMA CancelEffect ==
  ASSUME TypeOK, NEW i \in DOMAIN jobs, WebCancel(i)
  PROVE  /\ jobs' \in Seq(Row) /\ Len(jobs') = Len(jobs) /\ DOMAIN jobs' = DOMAIN jobs
         /\ \A j \in DOMAIN jobs : jobs'[j].platform = jobs[j].platform /\ jobs'[j].key = jobs[j].key
         /\ \A j \in DOMAIN jobs : j # i => jobs'[j] = jobs[j]
         /\ jobs[i].status = "queued" /\ jobs'[i].status = "interrupted"
  <1>1. jobs \in Seq(Row) /\ "interrupted" \in Status /\ jobs' = [jobs EXCEPT ![i].status = "interrupted"]
    BY DEF TypeOK, Status, WebCancel
  <1>2. /\ jobs' \in Seq(Row) /\ Len(jobs') = Len(jobs) /\ DOMAIN jobs' = DOMAIN jobs
        /\ \A j \in DOMAIN jobs :
             jobs'[j] = IF j = i THEN [jobs[i] EXCEPT !.status = "interrupted"] ELSE jobs[j]
    BY <1>1, UpdateStatus
  <1>3. jobs[i] \in Row
    BY RowsType
  <1>4. LET r == [jobs[i] EXCEPT !.status = "interrupted"] IN
        r.platform = jobs[i].platform /\ r.key = jobs[i].key /\ r.status = "interrupted"
    BY <1>3 DEF Row
  <1>5. QED
    BY <1>2, <1>4 DEF WebCancel

LEMMA StepWeb ==
  ASSUME IInv, Web
  PROVE  IInv'
  <1> USE DEF IInv
  <1>1. CASE \E r \in Request, p \in Platform, k \in JobKey, full \in Flags : WebRun(r, p, k, full)
    <2>1. PICK r \in Request, p \in Platform, k \in JobKey, full \in Flags : WebRun(r, p, k, full)
      BY <1>1
    <2> DEFINE l == [At("check") EXCEPT !.platform = p, !.plan = {k}, !.full = full]
    <2>2. l \in Local /\ l.pc = "check" /\ l.platform = p
      BY ConstantsAssumption DEF At, Local, Pc
    <2>3. thread' \in [Thread -> Local] /\ EnqueueInv'
      BY <2>1, <2>2, ThreadMoves DEF WebRun, Thread
    <2>4. QED
      BY <2>1, <2>3, RowsUndisturbed DEF WebRun, TypeOK
  <1>2. CASE \E r \in Request, p \in Platform : WebCycle(r, p)
    <2>1. PICK r \in Request, p \in Platform : WebCycle(r, p)
      BY <1>2
    <2>2. schedules[p].categories \in SUBSET Category
      BY DEF TypeOK, Schedule
    <2> DEFINE l == [At("plan") EXCEPT !.platform = p, !.categories = schedules[p].categories]
    <2>l. l \in Local /\ l.pc = "plan" /\ l.platform = p
      BY <2>2, PlanStart
    <2>t. thread' = [thread EXCEPT ![r] = l] /\ r \in Thread
      BY <2>1 DEF WebCycle, Thread
    <2> HIDE DEF l
    <2>3. thread' \in [Thread -> Local] /\ EnqueueInv'
      BY <2>l, <2>t, ThreadMoves
    <2>4. QED
      BY <2>1, <2>3, RowsUndisturbed DEF WebCycle, TypeOK
  <1>3. CASE \E r \in Request : WebError(r)
    <2>1. PICK r \in Request : WebError(r)
      BY <1>3
    <2>2. thread' \in [Thread -> Local] /\ EnqueueInv'
      BY <2>1, AtType, ThreadMoves DEF WebError, Thread
    <2>3. QED
      BY <2>1, <2>2, RowsUndisturbed DEF WebError, TypeOK
  <1>4. CASE \E p \in Platform, enabled \in BOOLEAN, cats \in SUBSET Category :
               WebSchedule(p, enabled, cats)
    <2>1. schedules' \in [Platform -> Schedule]
      BY <1>4 DEF WebSchedule, TypeOK, Schedule
    <2>2. QED
      BY <1>4, <2>1, RowsUndisturbed DEF WebSchedule, TypeOK, EnqueueInv
  <1>5. CASE \E p \in Platform, t \in Target : WebSource(p, t)
    <2>1. PICK p \in Platform, t \in Target : WebSource(p, t)
      BY <1>5
    <2>2. PICK s \in {"absent", "enabled", "paused"} : tracked' = [tracked EXCEPT ![p][t] = s]
      BY <2>1 DEF WebSource
    <2>3. [tracked[p] EXCEPT ![t] = s] \in [Target -> {"absent", "enabled", "paused"}]
      BY DEF TypeOK
    <2>4. tracked' \in [Platform -> [Target -> {"absent", "enabled", "paused"}]]
      BY <2>2, <2>3 DEF TypeOK
    <2>5. QED
      BY <2>1, <2>4, RowsUndisturbed DEF WebSource, TypeOK, EnqueueInv
  <1>6. CASE \E i \in DOMAIN jobs : WebCancel(i)
    <2>1. PICK i \in DOMAIN jobs : WebCancel(i)
      BY <1>6
    <2>2. UNCHANGED <<schedules, tracked, proc, worker, thread, phase, batch, cycles, stops>>
      BY <2>1 DEF WebCancel
    <2>3. TypeOK' /\ EnqueueInv'
      BY <2>1, <2>2, CancelEffect DEF TypeOK, EnqueueInv
    <2>4. WorkerInv'
      BY <2>1, <2>2, CancelEffect DEF WorkerInv
    <2>5. RunningIsOwned' /\ OneRunPerPlatform'
      BY <2>1, <2>2, CancelEffect DEF RunningIsOwned, OneRunPerPlatform
    <2>6. QED
      BY <2>3, <2>4, <2>5
  <1>7. QED
    BY <1>1, <1>2, <1>3, <1>4, <1>5, <1>6 DEF Web

LEMMA StepNext == IInv /\ [Next]_vars => IInv'
  <1> SUFFICES ASSUME IInv, [Next]_vars PROVE IInv'
    OBVIOUS
  <1>1. CASE UNCHANGED vars
    BY <1>1, RowsUndisturbed DEF vars, IInv, TypeOK, EnqueueInv
  <1>2. ASSUME NEW a \in Process, Connect(a) \/ Boot(a) \/ Stop(a) \/ Scheduler(a) \/ SchedulerError(a)
        PROVE  IInv'
    BY <1>2, StepConnect, StepBoot, StepStop, StepScheduler
  <1>3. ASSUME NEW p \in Platform, Claim(p) \/ Finish(p) \/ WorkerDies(p) \/ TimePasses(p)
        PROVE  IInv'
    BY <1>3, StepClaim, StepFinish, StepWorkerDies, StepTimePasses
  <1>4. ASSUME NEW t \in Thread, Enqueue(t)
        PROVE  IInv'
    BY <1>4, StepPlan, StepEnqueueRefused, StepEnqueueFree, StepEnqueueInsert, StepEnqueueReturn
       DEF Enqueue
  <1>5. QED
    BY <1>1, <1>2, <1>3, <1>4, StepWeb DEF Next

LEMMA Invariance == Spec => []IInv
  BY InitInv, StepNext, PTL DEF Spec

\* For any number of platforms, processes and requests, and whatever raises,
\* every variable keeps its type.
THEOREM TypeCorrect == Spec => []TypeOK
  <1>1. IInv => TypeOK
    BY DEF IInv
  <1>2. QED
    BY <1>1, Invariance, PTL

\* "The same platform can never run twice at once" (worker.py), for any
\* processes that split the platforms between them.
THEOREM OneRun == Spec => []OneRunPerPlatform
  <1>1. IInv => OneRunPerPlatform
    BY DEF IInv
  <1>2. QED
    BY <1>1, Invariance, PTL

\* A row marked running is held by its platform's worker, or will be released
\* by the next connect of that worker's process.
THEOREM RunningHasAnOwner == Spec => []RunningIsOwned
  <1>1. IInv => RunningIsOwned
    BY DEF IInv
  <1>2. QED
    BY <1>1, Invariance, PTL

-----------------------------------------------------------------------------
(* One cycle per due schedule                                              *)

\* What a scheduler holds is its own, once each, and not begun since it fell
\* due; a schedule whose time has passed has begun no cycle since.
CycleInv ==
  /\ \A a \in Process : \A s \in batch[a] : Server[s.platform] = a
  /\ \A a \in Process : \A s \in batch[a] : phase[a] = "tick" => cycles[s.platform] = 0
  /\ \A a \in Process : \A s, u \in batch[a] : s.platform = u.platform => s = u
  /\ \A p \in Platform : schedules[p].elapsed => cycles[p] = 0
  /\ OneCyclePerDue

\* Only these steps touch a schedule, its batch or its count.
CycleStep ==
  \/ \E a \in Process : Boot(a) \/ Stop(a) \/ SchedulerStarts(a) \/ StartupCycle(a)
                          \/ SchedulerSleeps(a) \/ Tick(a) \/ Reschedule(a) \/ SchedulerError(a)
  \/ \E p \in Platform : TimePasses(p)
  \/ \E p \in Platform, enabled \in BOOLEAN, cats \in SUBSET Category : WebSchedule(p, enabled, cats)

LEMMA CycleStepOnly ==
  [Next]_vars => CycleStep \/ UNCHANGED <<schedules, phase, batch, cycles>>
  BY DEF Next, vars, CycleStep, Scheduler, Enqueue, Web, Enqueuing, Connect, Claim, Finish, WorkerDies,
         Plan, EnqueueRefused, EnqueueFree, EnqueueInsert, EnqueueReturn,
         WebRun, WebCycle, WebError, WebSource, WebCancel

LEMMA ReadMine ==
  ASSUME NEW a \in Process, NEW S \in SUBSET Mine(a)
  PROVE  /\ \A s \in Read(S) : s.platform \in S /\ Server[s.platform] = a
         /\ \A s, u \in Read(S) : s.platform = u.platform => s = u
  BY DEF Read, Mine

LEMMA CycleInvStep == IInv /\ CycleInv /\ [Next]_vars => CycleInv'
  <1> SUFFICES ASSUME IInv, CycleInv, [Next]_vars PROVE CycleInv'
    OBVIOUS
  <1> USE DEF CycleInv, OneCyclePerDue
  <1>0. /\ schedules \in [Platform -> Schedule] /\ cycles \in [Platform -> 0 .. 2]
        /\ phase \in [Process -> {"startup", "tick"}]
        /\ batch \in [Process -> SUBSET [platform : Platform, categories : SUBSET Category]]
    BY DEF IInv, TypeOK
  <1>1. CASE UNCHANGED <<schedules, phase, batch, cycles>>
    BY <1>1
  <1>2. ASSUME NEW a \in Process, Boot(a) PROVE CycleInv'
    BY <1>0, <1>2 DEF Boot
  <1>3. ASSUME NEW a \in Process, Stop(a) PROVE CycleInv'
    BY <1>0, <1>3 DEF Stop
  <1>4. ASSUME NEW a \in Process, SchedulerStarts(a) PROVE CycleInv'
    <2>1. batch'[a] = {} \/ batch'[a] = Read({p \in Mine(a) : schedules[p].enabled})
      BY <1>0, <1>4 DEF SchedulerStarts
    <2>2. /\ \A s \in batch'[a] : Server[s.platform] = a
          /\ \A s, u \in batch'[a] : s.platform = u.platform => s = u
      BY <2>1, ReadMine
    <2>3. QED
      BY <1>0, <1>4, <2>2 DEF SchedulerStarts
  <1>5. ASSUME NEW a \in Process, StartupCycle(a) PROVE CycleInv'
    BY <1>0, <1>5 DEF StartupCycle
  <1>6. ASSUME NEW a \in Process, SchedulerSleeps(a) PROVE CycleInv'
    BY <1>0, <1>6 DEF SchedulerSleeps
  <1>7. ASSUME NEW a \in Process, Tick(a) PROVE CycleInv'
    <2>1. batch' = [batch EXCEPT ![a] = Read({p \in Mine(a) : Due(p)})]
      BY <1>7 DEF Tick
    <2>2. /\ \A s \in batch'[a] : Server[s.platform] = a /\ Due(s.platform)
          /\ \A s, u \in batch'[a] : s.platform = u.platform => s = u
          /\ \A b \in Process : b # a => batch'[b] = batch[b]
      BY <1>0, <2>1, ReadMine
    <2>3. \A s \in batch'[a] : s.platform \in Platform
      BY <2>1, <1>0 DEF Read, Mine
    <2>4. QED
      BY <1>0, <1>7, <2>2, <2>3 DEF Tick, Due
  <1>8. ASSUME NEW a \in Process, Reschedule(a) PROVE CycleInv'
    BY <1>0, <1>8 DEF Reschedule
  <1>9. ASSUME NEW a \in Process, SchedulerError(a) PROVE CycleInv'
    BY <1>0, <1>9 DEF SchedulerError
  <1>10. ASSUME NEW p \in Platform, TimePasses(p) PROVE CycleInv'
    BY <1>0, <1>10 DEF TimePasses
  <1>11. ASSUME NEW p \in Platform, NEW enabled \in BOOLEAN, NEW cats \in SUBSET Category,
                WebSchedule(p, enabled, cats)
         PROVE  CycleInv'
    BY <1>0, <1>11 DEF WebSchedule
  <1>12. QED
    BY <1>1, <1>2, <1>3, <1>4, <1>5, <1>6, <1>7, <1>8, <1>9, <1>10, <1>11, CycleStepOnly
       DEF CycleStep

\* A due schedule costs one cycle, for any number of processes polling the
\* table, any edits, crashes and failures in between.
THEOREM OneCycle == Spec => []OneCyclePerDue
  <1>1. Init => CycleInv
    BY DEF Init, CycleInv, OneCyclePerDue
  <1>2. CycleInv => OneCyclePerDue
    BY DEF CycleInv
  <1>3. QED
    BY <1>1, <1>2, Invariance, CycleInvStep, PTL DEF Spec

\* A paused schedule is resumed only by its owner or by a tick already holding
\* its row.
THEOREM PauseLostOnlyInTick == Spec => PauseOnlyLostInTick
  <1>1. IInv /\ CycleInv /\ [Next]_vars =>
          [\A p \in Platform : Resumed(p) =>
             \/ \E cats \in SUBSET Category : WebSchedule(p, TRUE, cats)
             \/ /\ phase[Server[p]] = "tick"
                /\ \E s \in batch[Server[p]] : s.platform = p]_vars
    <2> SUFFICES ASSUME IInv, CycleInv, [Next]_vars, NEW p \in Platform, Resumed(p)
                 PROVE  \/ \E cats \in SUBSET Category : WebSchedule(p, TRUE, cats)
                        \/ /\ phase[Server[p]] = "tick"
                           /\ \E s \in batch[Server[p]] : s.platform = p
      OBVIOUS
    <2>0. /\ schedules \in [Platform -> Schedule]
          /\ batch \in [Process -> SUBSET [platform : Platform, categories : SUBSET Category]]
      BY DEF IInv, TypeOK
    <2>1. ~UNCHANGED schedules
      BY DEF Resumed
    <2>2. ASSUME NEW a \in Process, Boot(a) PROVE FALSE
      BY <2>0, <2>2 DEF Boot, Resumed
    <2>3. ASSUME NEW a \in Process, Reschedule(a)
          PROVE  phase[Server[p]] = "tick" /\ \E s \in batch[Server[p]] : s.platform = p
      <3>1. PICK s \in batch[a] : schedules' = [schedules EXCEPT ![s.platform] =
              [seeded |-> TRUE, enabled |-> TRUE, categories |-> s.categories, elapsed |-> FALSE]]
        BY <2>3 DEF Reschedule
      <3>2. s.platform = p
        BY <2>0, <3>1 DEF Resumed
      <3>3. QED
        BY <2>3, <3>1, <3>2 DEF Reschedule, CycleInv
    <2>4. ASSUME NEW q \in Platform, TimePasses(q) PROVE FALSE
      <3>1. schedules[q] \in Schedule /\ schedules' = [schedules EXCEPT ![q].elapsed = TRUE]
        BY <2>0, <2>4 DEF TimePasses
      <3>2. schedules'[p].enabled = schedules[p].enabled
        BY <2>0, <3>1 DEF Schedule
      <3>3. QED
        BY <3>2 DEF Resumed
    <2>5. ASSUME NEW q \in Platform, NEW enabled \in BOOLEAN, NEW cats \in SUBSET Category,
                 WebSchedule(q, enabled, cats)
          PROVE  WebSchedule(p, TRUE, cats)
      <3>1. schedules' = [schedules EXCEPT ![q] =
              [seeded |-> TRUE, enabled |-> enabled, categories |-> cats, elapsed |-> FALSE]]
        BY <2>5 DEF WebSchedule
      <3>2. q = p /\ enabled = TRUE
        BY <2>0, <3>1 DEF Resumed
      <3>3. QED
        BY <2>5, <3>2
    <2>6. ASSUME NEW a \in Process,
                 Stop(a) \/ SchedulerStarts(a) \/ StartupCycle(a) \/ SchedulerSleeps(a) \/ Tick(a)
                   \/ SchedulerError(a)
          PROVE  FALSE
      BY <2>1, <2>6 DEF Stop, SchedulerStarts, StartupCycle, SchedulerSleeps, Tick, SchedulerError
    <2>7. QED
      BY <2>1, <2>2, <2>3, <2>4, <2>5, <2>6, CycleStepOnly DEF CycleStep
  <1>2. Init => CycleInv
    BY DEF Init, CycleInv, OneCyclePerDue
  <1>3. QED
    BY <1>1, <1>2, Invariance, CycleInvStep, PTL DEF Spec, PauseOnlyLostInTick

-----------------------------------------------------------------------------
(* Daemons never stack duplicates                                          *)

\* Apart from an INSERT, no step adds a row or makes a settled row active.
LEMMA NothingRevives ==
  ASSUME IInv, [Next]_vars, ~\E t \in Thread : EnqueueInsert(t)
  PROVE  /\ DOMAIN jobs' = DOMAIN jobs
         /\ \A i \in DOMAIN jobs : /\ jobs'[i].platform = jobs[i].platform
                                   /\ jobs'[i].key = jobs[i].key
                                   /\ jobs'[i].status \in Active => jobs[i].status \in Active
  <1> DEFINE Goal == /\ DOMAIN jobs' = DOMAIN jobs
                     /\ \A i \in DOMAIN jobs :
                          /\ jobs'[i].platform = jobs[i].platform
                          /\ jobs'[i].key = jobs[i].key
                          /\ jobs'[i].status \in Active => jobs[i].status \in Active
  <1>0. TypeOK /\ jobs \in Seq(Row) /\ \A i \in DOMAIN jobs : jobs[i] \in Row
    BY RowsType DEF IInv, TypeOK
  <1>1. CASE UNCHANGED jobs
    BY <1>1
  <1>2. ASSUME NEW a \in Process, Connect(a) PROVE Goal
    <2>1. DOMAIN jobs' = DOMAIN jobs /\ \A i \in DOMAIN jobs : jobs'[i] =
            IF jobs[i].status = "running" THEN [jobs[i] EXCEPT !.status = "interrupted"] ELSE jobs[i]
      BY <1>2 DEF Connect
    <2>2. QED
      BY <1>0, <2>1 DEF Row, Active
  <1>3. ASSUME NEW i \in DOMAIN jobs, NEW s \in Status, jobs[i].status \in Active,
               jobs' = [jobs EXCEPT ![i].status = s]
        PROVE  Goal
    <2>1. DOMAIN jobs' = DOMAIN jobs /\ \A j \in DOMAIN jobs :
            jobs'[j] = IF j = i THEN [jobs[i] EXCEPT !.status = s] ELSE jobs[j]
      BY <1>0, <1>3, UpdateStatus
    <2>2. QED
      BY <1>0, <1>3, <2>1 DEF Row
  <1>4. ASSUME NEW p \in Platform, Claim(p) PROVE Goal
    <2>1. PICK i \in QueuedIds(p) : jobs' = [jobs EXCEPT ![i].status = "running"]
      BY <1>4 DEF Claim
    <2>2. QED
      BY <1>3, <2>1 DEF QueuedIds, Active, Status
  <1>5. ASSUME NEW i \in DOMAIN jobs, WebCancel(i) PROVE Goal
    BY <1>3, <1>5 DEF WebCancel, Active, Status
  <1>6. ASSUME NEW p \in Platform, Finish(p) PROVE Goal
    <2>1. PICK s \in {"done", "failed"} : jobs' = [jobs EXCEPT ![worker[p].job].status = s]
      BY <1>6 DEF Finish
    <2>2. worker[p].job \in DOMAIN jobs
      BY <1>6 DEF Finish, IInv, WorkerInv
    <2>3. DOMAIN jobs' = DOMAIN jobs /\ \A j \in DOMAIN jobs :
            jobs'[j] = IF j = worker[p].job THEN [jobs[j] EXCEPT !.status = s] ELSE jobs[j]
      BY <1>0, <2>1, <2>2, UpdateStatus DEF Status
    <2>4. s \notin Active
      BY DEF Active
    <2>5. QED
      BY <1>0, <2>3, <2>4 DEF Row
  <1>7. QED
    BY <1>1, <1>2, <1>4, <1>5, <1>6
       DEF Next, vars, Scheduler, Enqueue, Web, Enqueuing, Boot, Stop, WorkerDies, SchedulerStarts,
           StartupCycle, SchedulerSleeps, Tick, Reschedule, SchedulerError, TimePasses,
           Plan, EnqueueRefused, EnqueueFree, EnqueueReturn,
           WebRun, WebCycle, WebError, WebSchedule, WebSource

\* A scheduler enqueues for the platforms it serves; a request for any.
Own(t, p) == t \in Process => Server[p] = t

OwnInv ==
  /\ \A a \in Process : \A s \in batch[a] : Own(a, s.platform)
  /\ \A t \in Thread : thread[t].pc \in {"plan", "check", "insert"} => Own(t, thread[t].platform)

\* What a step other than an INSERT can make of a coroutine's locals.
LEMMA ThreadStep ==
  ASSUME IInv, OwnInv, [Next]_vars, ~\E t \in Thread : EnqueueInsert(t), NEW a \in Thread
  PROVE  \/ thread'[a] = thread[a]
         \/ thread'[a].pc \notin {"plan", "check", "insert"}
         \/ thread'[a].pc \in {"plan", "check"} /\ Own(a, thread'[a].platform)
         \/ /\ thread'[a].pc = "insert" /\ Own(a, thread'[a].platform)
            /\ ~IsActive(thread'[a].platform, thread'[a].key)
            /\ UNCHANGED jobs
  <1> DEFINE Goal == \/ thread'[a] = thread[a]
                     \/ thread'[a].pc \notin {"plan", "check", "insert"}
                     \/ thread'[a].pc \in {"plan", "check"} /\ Own(a, thread'[a].platform)
                     \/ /\ thread'[a].pc = "insert" /\ Own(a, thread'[a].platform)
                        /\ ~IsActive(thread'[a].platform, thread'[a].key)
                        /\ UNCHANGED jobs
  <1>0. /\ Process \subseteq Thread /\ Request \subseteq Thread /\ thread \in [Thread -> Local]
        /\ batch \in [Process -> SUBSET [platform : Platform, categories : SUBSET Category]]
        /\ \A t \in Request : t \notin Process
    BY ConstantsAssumption DEF IInv, TypeOK, Thread
  <1>1. CASE UNCHANGED thread
    BY <1>1
  <1>2. ASSUME NEW t \in Thread, NEW pc \in {"off", "boot", "sleep", "loop", "dead", "idle"},
               thread' = [thread EXCEPT ![t] = At(pc)]
        PROVE  Goal
    BY <1>0, <1>2, AtType
  <1>3. ASSUME NEW t \in Thread, NEW l, l.pc \in {"plan", "check"}, Own(t, l.platform), thread' = [thread EXCEPT ![t] = l]
        PROVE  Goal
    BY <1>0, <1>3
  <1>4. ASSUME NEW b \in Process, Boot(b) \/ SchedulerStarts(b) \/ SchedulerSleeps(b) \/ Tick(b) \/ SchedulerError(b)
        PROVE  Goal
    <2>1. \E pc \in {"boot", "loop", "sleep", "dead"} : thread' = [thread EXCEPT ![b] = At(pc)]
      BY <1>4 DEF Boot, SchedulerStarts, SchedulerSleeps, Tick, SchedulerError
    <2>2. QED
      BY <1>0, <1>2, <2>1
  <1>5. ASSUME NEW b \in Process, Stop(b) PROVE Goal
    <2>1. thread'[a] = thread[a] \/ thread'[a] = At("off") \/ thread'[a] = At("idle")
      BY <1>5 DEF Stop
    <2>2. QED
      BY <2>1, AtType
  <1>6. ASSUME NEW b \in Process, StartupCycle(b) \/ Reschedule(b) PROVE Goal
    <2>1. PICK s \in batch[b] :
            thread' = [thread EXCEPT ![b] = [At("plan") EXCEPT !.platform = s.platform, !.categories = s.categories]]
      BY <1>6 DEF StartupCycle, Reschedule
    <2> DEFINE l == [At("plan") EXCEPT !.platform = s.platform, !.categories = s.categories]
    <2>2. s.platform \in Platform /\ s.categories \in SUBSET Category /\ Own(b, s.platform)
      BY <1>0 DEF OwnInv
    <2>3. l.pc = "plan" /\ l.platform = s.platform
      BY <2>2, PlanStart
    <2> HIDE DEF l
    <2>4. thread' = [thread EXCEPT ![b] = l]
      BY <2>1 DEF l
    <2>5. QED
      BY <1>0, <1>3, <2>2, <2>3, <2>4
  <1>7. ASSUME NEW t \in Thread, Plan(t) \/ EnqueueRefused(t) PROVE Goal
    <2>1. \/ thread' = [thread EXCEPT ![t] = [thread[t] EXCEPT !.pc = "check",
                          !.plan = CyclePlan(thread[t].platform, thread[t].categories)]]
          \/ \E k : thread' = [thread EXCEPT ![t] = [thread[t] EXCEPT !.plan = thread[t].plan \ {k}]]
      BY <1>7 DEF Plan, EnqueueRefused
    <2>2. thread'[t].platform = thread[t].platform /\ thread'[t].pc = "check"
          /\ thread[t].pc \in {"plan", "check"}
      BY <1>0, <1>7, <2>1 DEF Local, Plan, EnqueueRefused
    <2>3. a # t => thread'[a] = thread[a]
      BY <1>0, <2>1
    <2>4. QED
      BY <2>2, <2>3 DEF OwnInv
  <1>8. ASSUME NEW t \in Thread, EnqueueFree(t) PROVE Goal
    <2>1. PICK k \in First(thread[t].plan) :
            /\ ~IsActive(thread[t].platform, k)
            /\ thread' = [thread EXCEPT ![t] = [thread[t] EXCEPT
                            !.pc = "insert", !.key = k, !.plan = thread[t].plan \ {k}]]
      BY <1>8 DEF EnqueueFree
    <2>2. thread'[t].platform = thread[t].platform /\ thread'[t].key = k /\ thread'[t].pc = "insert"
      BY <1>0, <2>1 DEF Local
    <2>3. a # t => thread'[a] = thread[a]
      BY <1>0, <2>1
    <2>4. UNCHANGED jobs /\ thread[t].pc = "check"
      BY <1>8 DEF EnqueueFree
    <2>5. QED
      BY <2>1, <2>2, <2>3, <2>4 DEF OwnInv
  <1>9. ASSUME NEW t \in Thread, EnqueueReturn(t) PROVE Goal
    BY <1>2, <1>9 DEF EnqueueReturn
  <1>10. ASSUME NEW r \in Request, NEW p \in Platform, NEW k \in JobKey, NEW full \in Flags, WebRun(r, p, k, full)
         PROVE  Goal
    <2> DEFINE l == [At("check") EXCEPT !.platform = p, !.plan = {k}, !.full = full]
    <2>1. l.pc = "check"
      BY DEF At
    <2> HIDE DEF l
    <2>2. thread' = [thread EXCEPT ![r] = l]
      BY <1>10 DEF WebRun, l
    <2>3. QED
      BY <1>0, <1>3, <2>1, <2>2 DEF Own
  <1>11. ASSUME NEW r \in Request, NEW p \in Platform, WebCycle(r, p)
         PROVE  Goal
    <2> DEFINE l == [At("plan") EXCEPT !.platform = p, !.categories = schedules[p].categories]
    <2>1. l.pc = "plan"
      BY DEF At
    <2> HIDE DEF l
    <2>2. thread' = [thread EXCEPT ![r] = l]
      BY <1>11 DEF WebCycle, l
    <2>3. QED
      BY <1>0, <1>3, <2>1, <2>2 DEF Own
  <1>12. ASSUME NEW r \in Request, WebError(r) PROVE Goal
    BY <1>0, <1>2, <1>12 DEF WebError
  <1>13. QED
    BY <1>1, <1>4, <1>5, <1>6, <1>7, <1>8, <1>9, <1>10, <1>11, <1>12
       DEF Next, vars, Scheduler, Enqueue, Web, Connect, Claim, Finish, WorkerDies, TimePasses, WebSchedule, WebSource, WebCancel

LEMMA OwnStep ==
  ASSUME IInv, OwnInv, [Next]_vars
  PROVE  OwnInv'
  <1>0. /\ thread \in [Thread -> Local]
        /\ batch \in [Process -> SUBSET [platform : Platform, categories : SUBSET Category]]
    BY DEF IInv, TypeOK
  <1>1. \A a \in Process : \A s \in batch'[a] : Own(a, s.platform)
    <2>1. ASSUME NEW a \in Process, NEW S \in SUBSET Mine(a), batch' = [batch EXCEPT ![a] = Read(S)]
          PROVE  \A b \in Process : \A s \in batch'[b] : Own(b, s.platform)
      BY <1>0, <2>1, ReadMine DEF OwnInv, Own
    <2>2. CASE \E a \in Process : SchedulerStarts(a)
      <3>1. PICK a \in Process : SchedulerStarts(a)
        BY <2>2
      <3>2. batch' = [batch EXCEPT ![a] = {}]
            \/ batch' = [batch EXCEPT ![a] = Read({p \in Mine(a) : schedules[p].enabled})]
        BY <3>1 DEF SchedulerStarts
      <3>3. QED
        BY <1>0, <2>1, <3>2 DEF OwnInv
    <2>3. CASE \E a \in Process : Tick(a)
      BY <2>1, <2>3 DEF Tick
    <2>4. CASE \A a \in Process : batch'[a] \subseteq batch[a]
      BY <2>4 DEF OwnInv
    <2>5. CASE \E a \in Process : Stop(a) \/ StartupCycle(a) \/ Reschedule(a) \/ SchedulerError(a)
      <3>1. PICK a \in Process : \E S \in SUBSET batch[a] : batch' = [batch EXCEPT ![a] = S]
        BY <2>5 DEF Stop, StartupCycle, Reschedule, SchedulerError
      <3>2. QED
        BY <1>0, <2>4, <3>1
    <2>6. UNCHANGED batch \/ \E a \in Process : SchedulerStarts(a) \/ Tick(a) \/ Stop(a)
                                 \/ StartupCycle(a) \/ Reschedule(a) \/ SchedulerError(a)
      BY DEF Next, vars, Scheduler, Enqueue, Web, Enqueuing, Connect, Boot, Claim, Finish, WorkerDies,
             SchedulerSleeps, TimePasses, Plan, EnqueueRefused, EnqueueFree, EnqueueInsert,
             EnqueueReturn, WebRun, WebCycle, WebError, WebSchedule, WebSource, WebCancel
    <2>7. QED
      BY <2>2, <2>3, <2>4, <2>5, <2>6
  <1>2. ASSUME NEW t \in Thread, thread'[t].pc \in {"plan", "check", "insert"}
        PROVE  Own(t, thread'[t].platform)
    <2>1. CASE \E u \in Thread : EnqueueInsert(u)
      <3>1. PICK u \in Thread : EnqueueInsert(u)
        BY <2>1
      <3>2. /\ thread[u].pc = "insert"
            /\ thread' = [thread EXCEPT ![u] = [thread[u] EXCEPT !.pc = "check", !.key = None]]
        BY <3>1 DEF EnqueueInsert
      <3>3. thread'[u].platform = thread[u].platform /\ \A v \in Thread : v # u => thread'[v] = thread[v]
        BY <1>0, <3>2 DEF Local
      <3>4. QED
        BY <1>2, <3>2, <3>3 DEF OwnInv
    <2>2. CASE ~\E u \in Thread : EnqueueInsert(u)
      BY <1>2, <2>2, ThreadStep DEF OwnInv
    <2>3. QED
      BY <2>1, <2>2
  <1>3. QED
    BY <1>1, <1>2 DEF OwnInv

\* Once a scheduler has decided to insert, no row of that key is waiting or running.
SingleEnqueuerInv ==
  /\ OwnInv
  /\ \A a \in Process :
       thread[a].pc = "insert" => ~IsActive(thread[a].platform, thread[a].key)
  /\ NoDuplicateWaiting

LEMMA SingleEnqueuerStep ==
  ASSUME Request = {}, IInv, SingleEnqueuerInv, [Next]_vars
  PROVE  SingleEnqueuerInv'
  <1> USE DEF SingleEnqueuerInv
  <1>0. /\ Thread = Process
        /\ thread \in [Process -> Local]
        /\ batch \in [Process -> SUBSET [platform : Platform, categories : SUBSET Category]]
    BY DEF IInv, TypeOK, Thread
  <1>1. CASE \E t \in Thread : EnqueueInsert(t)
    <2>1. PICK t \in Process : EnqueueInsert(t)
      BY <1>0, <1>1
    <2>2. /\ thread[t].pc = "insert" /\ UNCHANGED batch
          /\ thread' = [thread EXCEPT ![t] = [thread[t] EXCEPT !.pc = "check", !.key = None]]
      BY <2>1 DEF EnqueueInsert, Enqueuing
    <2>3. /\ thread'[t].pc = "check" /\ thread'[t].platform = thread[t].platform
          /\ \A a \in Process : a # t => thread'[a] = thread[a]
      BY <1>0, <2>2 DEF Local
    <2>4. /\ NewRow(t).platform = thread[t].platform /\ NewRow(t).key = thread[t].key
          /\ Server[thread[t].platform] = t
      BY <1>0, <2>2 DEF NewRow, OwnInv, Own
    <2>5. /\ DOMAIN jobs' = DOMAIN jobs \cup {Len(jobs) + 1} /\ Len(jobs) + 1 \notin DOMAIN jobs
          /\ \A j \in DOMAIN jobs : jobs'[j] = jobs[j]
          /\ jobs'[Len(jobs) + 1] = NewRow(t)
      BY <1>0, <2>1, InsertEffect
    <2>6. ASSUME NEW a \in Process, thread'[a].pc = "insert"
          PROVE  ~IsActive(thread[a].platform, thread[a].key)' /\ a # t
      <3>1. a # t /\ thread'[a] = thread[a]
        BY <2>3, <2>6
      <3>2. /\ Server[thread[a].platform] = a
            /\ ~IsActive(thread[a].platform, thread[a].key)
        BY <1>0, <2>6, <3>1 DEF OwnInv, Own
      <3>3. NewRow(t).platform # thread'[a].platform
        BY <2>4, <3>1, <3>2
      <3>4. ASSUME NEW i \in DOMAIN jobs', jobs'[i].platform = thread'[a].platform,
                   jobs'[i].key = thread'[a].key, jobs'[i].status \in Active
            PROVE  FALSE
        BY <2>5, <3>1, <3>2, <3>3, <3>4 DEF IsActive
      <3>5. QED
        BY <3>1, <3>4 DEF IsActive
    <2>7. NoDuplicateWaiting'
      <3>1. \A i \in DOMAIN jobs : ~(/\ jobs[i].platform = NewRow(t).platform
                                     /\ jobs[i].key = NewRow(t).key
                                     /\ jobs[i].status \in Active)
        BY <2>2, <2>4 DEF IsActive
      <3>2. QED
        BY <2>5, <3>1 DEF NoDuplicateWaiting
    <2>8. QED
      BY <2>6, <2>7, OwnStep
  <1>2. CASE ~\E t \in Thread : EnqueueInsert(t)
    <2>1. /\ DOMAIN jobs' = DOMAIN jobs
          /\ \A i \in DOMAIN jobs : /\ jobs'[i].platform = jobs[i].platform
                                    /\ jobs'[i].key = jobs[i].key
                                    /\ jobs'[i].status \in Active => jobs[i].status \in Active
      BY <1>2, NothingRevives
    <2>2. NoDuplicateWaiting'
      BY <2>1 DEF NoDuplicateWaiting
    <2>5. ASSUME NEW a \in Process
          PROVE  thread'[a].pc = "insert" => ~IsActive(thread[a].platform, thread[a].key)'
      <3>1. \/ thread'[a] = thread[a]
            \/ thread'[a].pc \notin {"plan", "check", "insert"}
            \/ thread'[a].pc \in {"plan", "check"}
            \/ /\ thread'[a].pc = "insert" /\ UNCHANGED jobs
               /\ ~IsActive(thread'[a].platform, thread'[a].key)
        BY <1>0, <1>2, ThreadStep
      <3>2. CASE thread'[a] = thread[a]
        <4>1. ~IsActive(thread[a].platform, thread[a].key)
                => ~IsActive(thread[a].platform, thread[a].key)'
          BY <2>1, <3>2 DEF IsActive
        <4>2. QED
          BY <3>2, <4>1
      <3>3. CASE thread'[a].pc = "insert" /\ ~IsActive(thread'[a].platform, thread'[a].key) /\ UNCHANGED jobs
        BY <3>3 DEF IsActive
      <3>4. QED
        BY <3>1, <3>2, <3>3
    <2>6. QED
      BY <2>2, <2>5, OwnStep
  <1>3. QED
    BY <1>1, <1>2

\* Where only schedulers enqueue, a tick that lands while the queue is backed up
\* stacks no duplicate: the check and the insert of the one process that serves
\* a platform cannot be split by another enqueue for it.
THEOREM DaemonsNeverStack == ASSUME Request = {} PROVE Spec => []NoDuplicateWaiting
  <1>1. Init => SingleEnqueuerInv
    BY AtType DEF Init, SingleEnqueuerInv, OwnInv, NoDuplicateWaiting, Thread
  <1>2. IInv /\ SingleEnqueuerInv /\ [Next]_vars => SingleEnqueuerInv'
    BY SingleEnqueuerStep
  <1>3. SingleEnqueuerInv => NoDuplicateWaiting
    BY DEF SingleEnqueuerInv
  <1>4. QED
    BY <1>1, <1>2, <1>3, Invariance, PTL DEF Spec

-----------------------------------------------------------------------------
(* A queue that is backed up does not grow                                 *)

Waiting(p, k) == {i \in DOMAIN jobs : jobs[i].platform = p /\ jobs[i].key = k /\ jobs[i].status \in Active}

Decided(p, k) == {t \in Thread : thread[t].pc = "insert" /\ thread[t].platform = p /\ thread[t].key = k}

\* A row that is inserted comes of a decision; a decision comes of an empty queue.
LEMMA DecidedRows ==
  ASSUME IInv, OwnInv, [Next]_vars, NEW p \in Platform, NEW k \in JobKey
  PROVE  \/ Waiting(p, k)' \subseteq Waiting(p, k) /\ Decided(p, k)' \subseteq Decided(p, k)
         \/ Waiting(p, k)' = {}
         \/ \E t \in Decided(p, k) : /\ Waiting(p, k)' = Waiting(p, k) \cup {Len(jobs) + 1}
                                     /\ Decided(p, k)' = Decided(p, k) \ {t}
  <1>1. CASE \E t \in Thread : EnqueueInsert(t)
    <2>1. PICK t \in Thread : EnqueueInsert(t)
      BY <1>1
    <2>2. /\ thread[t].pc = "insert"
          /\ thread' = [thread EXCEPT ![t] = [thread[t] EXCEPT !.pc = "check", !.key = None]]
      BY <2>1 DEF EnqueueInsert
    <2>3. thread'[t].pc = "check" /\ \A u \in Thread : u # t => thread'[u] = thread[u]
      BY <2>2 DEF IInv, TypeOK, Local
    <2>4. Decided(p, k)' = Decided(p, k) \ {t}
      BY <2>3 DEF Decided
    <2>5. /\ DOMAIN jobs' = DOMAIN jobs \cup {Len(jobs) + 1} /\ Len(jobs) + 1 \notin DOMAIN jobs
          /\ \A j \in DOMAIN jobs : jobs'[j] = jobs[j]
          /\ jobs'[Len(jobs) + 1] = NewRow(t)
      BY <2>1, InsertEffect
    <2>6. NewRow(t).platform = thread[t].platform /\ NewRow(t).key = thread[t].key /\ NewRow(t).status \in Active
      BY DEF NewRow, Active
    <2>7. CASE thread[t].platform = p /\ thread[t].key = k
      <3>1. Waiting(p, k)' = Waiting(p, k) \cup {Len(jobs) + 1}
        BY <2>5, <2>6, <2>7 DEF Waiting
      <3>2. t \in Decided(p, k)
        BY <2>2, <2>7 DEF Decided
      <3>3. QED
        BY <2>4, <3>1, <3>2
    <2>8. CASE ~(thread[t].platform = p /\ thread[t].key = k)
      <3>1. Waiting(p, k)' \subseteq Waiting(p, k)
        BY <2>5, <2>6, <2>8 DEF Waiting
      <3>2. QED
        BY <2>4, <3>1
    <2>9. QED
      BY <2>7, <2>8
  <1>2. CASE ~\E t \in Thread : EnqueueInsert(t)
    <2>1. Waiting(p, k)' \subseteq Waiting(p, k)
      BY <1>2, NothingRevives DEF Waiting
    <2>2. ASSUME NEW t \in Decided(p, k)', t \notin Decided(p, k)
          PROVE  Waiting(p, k) = {}
      <3>1. t \in Thread /\ thread'[t].pc = "insert" /\ thread'[t].platform = p /\ thread'[t].key = k
        BY <2>2 DEF Decided
      <3>2. thread'[t] # thread[t]
        BY <2>2, <3>1 DEF Decided
      <3>3. ~IsActive(p, k)
        BY <1>2, <3>1, <3>2, ThreadStep
      <3>4. QED
        BY <3>3 DEF IsActive, Waiting
    <2>3. QED
      BY <2>1, <2>2
  <1>3. QED
    BY <1>1, <1>2

LEMMA OneMore ==
  ASSUME NEW S, NEW e, IsFiniteSet(S)
  PROVE  /\ IsFiniteSet(S \cup {e}) /\ Cardinality(S) \in Nat /\ Cardinality(S \cup {e}) \in Nat
         /\ Cardinality(S \cup {e}) <= Cardinality(S) + 1
  <1>1. IsFiniteSet(S \cup {e}) /\ Cardinality(S \cup {e}) = IF e \in S THEN Cardinality(S) ELSE Cardinality(S) + 1
    BY FS_AddElement
  <1>2. Cardinality(S) \in Nat
    BY FS_CardinalityType
  <1>3. QED
    BY <1>1, <1>2

\* Who may decide at once: the scheduler that serves the platform, and the requests.
LEMMA FewDecide ==
  ASSUME IsFiniteSet(Request), NEW a, NEW D \in SUBSET (Request \cup {a})
  PROVE  /\ IsFiniteSet(D) /\ Cardinality(Request) \in Nat
         /\ Cardinality(D) \in Nat /\ Cardinality(D) <= 1 + Cardinality(Request)
  <1>1. /\ IsFiniteSet(Request \cup {a}) /\ Cardinality(Request) \in Nat /\ Cardinality(Request \cup {a}) \in Nat
        /\ Cardinality(Request \cup {a}) <= Cardinality(Request) + 1
    BY OneMore
  <1>2. IsFiniteSet(D) /\ Cardinality(D) <= Cardinality(Request \cup {a})
    BY <1>1, FS_Subset
  <1>3. Cardinality(D) \in Nat
    BY <1>2, FS_CardinalityType
  <1>4. QED
    BY <1>1, <1>2, <1>3

LEMMA WaitingFinite ==
  ASSUME IInv, NEW p, NEW k
  PROVE  IsFiniteSet(Waiting(p, k)) /\ Cardinality(Waiting(p, k)) \in Nat
  <1>1. Waiting(p, k) \subseteq 1 .. Len(jobs) /\ Len(jobs) \in Nat
    BY DEF Waiting, IInv, TypeOK
  <1>2. IsFiniteSet(1 .. Len(jobs))
    BY <1>1, FS_Interval
  <1>3. QED
    BY <1>1, <1>2, FS_Subset, FS_CardinalityType

LEMMA BoundedStep ==
  ASSUME IsFiniteSet(Request), IInv, OwnInv, DuplicatesBounded, [Next]_vars
  PROVE  DuplicatesBounded'
  <1>1. OwnInv'
    BY OwnStep
  <1>2. ASSUME NEW p \in Platform, NEW k \in JobKey
        PROVE  Cardinality(Waiting(p, k)') + Cardinality(Decided(p, k)') <= 1 + Cardinality(Request)
    <2>1. /\ IsFiniteSet(Waiting(p, k)) /\ IsFiniteSet(Decided(p, k)) /\ Cardinality(Request) \in Nat
          /\ Cardinality(Waiting(p, k)) \in Nat /\ Cardinality(Decided(p, k)) \in Nat
          /\ Cardinality(Waiting(p, k)) + Cardinality(Decided(p, k)) <= 1 + Cardinality(Request)
      <3>1. Decided(p, k) \subseteq Request \cup {Server[p]}
        BY DEF Decided, OwnInv, Own, Thread
      <3>2. IsFiniteSet(Decided(p, k)) /\ Cardinality(Decided(p, k)) \in Nat /\ Cardinality(Request) \in Nat
        BY <3>1, FewDecide
      <3>3. IsFiniteSet(Waiting(p, k)) /\ Cardinality(Waiting(p, k)) \in Nat
        BY WaitingFinite
      <3>4. Cardinality(Waiting(p, k)) + Cardinality(Decided(p, k)) <= 1 + Cardinality(Request)
        BY DEF DuplicatesBounded, Waiting, Decided
      <3>5. QED
        BY <3>2, <3>3, <3>4
    <2>2. /\ IsFiniteSet(Decided(p, k)') /\ Cardinality(Decided(p, k)') \in Nat
          /\ Cardinality(Decided(p, k)') <= 1 + Cardinality(Request)
      <3>1. Decided(p, k)' \subseteq Request \cup {Server[p]}
        BY <1>1 DEF Decided, OwnInv, Own, Thread
      <3>2. QED
        BY <3>1, FewDecide
    <2>3. CASE Waiting(p, k)' \subseteq Waiting(p, k) /\ Decided(p, k)' \subseteq Decided(p, k)
      <3>1. /\ Cardinality(Waiting(p, k)') <= Cardinality(Waiting(p, k)) /\ Cardinality(Waiting(p, k)') \in Nat
            /\ Cardinality(Decided(p, k)') <= Cardinality(Decided(p, k))
        BY <2>1, <2>3, FS_Subset, FS_CardinalityType
      <3>2. QED
        BY <2>1, <2>2, <3>1
    <2>4. CASE Waiting(p, k)' = {}
      BY <2>1, <2>2, <2>4, FS_EmptySet
    <2>5. CASE \E t \in Decided(p, k) : /\ Waiting(p, k)' = Waiting(p, k) \cup {Len(jobs) + 1}
                                         /\ Decided(p, k)' = Decided(p, k) \ {t}
      <3>1. PICK t \in Decided(p, k) : /\ Waiting(p, k)' = Waiting(p, k) \cup {Len(jobs) + 1}
                                       /\ Decided(p, k)' = Decided(p, k) \ {t}
        BY <2>5
      <3>2. Cardinality(Decided(p, k)') = Cardinality(Decided(p, k)) - 1
        BY <2>1, <3>1, FS_RemoveElement
      <3>3. Cardinality(Waiting(p, k)') \in Nat /\ Cardinality(Waiting(p, k)') <= Cardinality(Waiting(p, k)) + 1
        BY <2>1, <3>1, OneMore
      <3>4. QED
        BY <2>1, <2>2, <3>2, <3>3
    <2>6. QED
      BY <2>3, <2>4, <2>5, DecidedRows
  <1>3. QED
    BY <1>2 DEF DuplicatesBounded, Waiting, Decided

\* A tick or a request that finds the queue backed up does not grow it: however
\* checks and inserts interleave, the rows of a key that wait or run are never more
\* than the coroutines that may enqueue for its platform at once.
THEOREM BacklogIsBounded == ASSUME IsFiniteSet(Request) PROVE Spec => []DuplicatesBounded
  <1>1. Init => OwnInv
    BY AtType DEF Init, OwnInv, Thread
  <1>2. Init => DuplicatesBounded
    <2> SUFFICES ASSUME Init, NEW p \in Platform, NEW k \in JobKey
                 PROVE  Cardinality(Waiting(p, k)) + Cardinality(Decided(p, k)) <= 1 + Cardinality(Request)
      BY DEF DuplicatesBounded, Waiting, Decided
    <2>1. Waiting(p, k) = {} /\ Decided(p, k) = {}
      BY AtType DEF Init, Waiting, Decided, Thread
    <2>2. QED
      BY <2>1, FS_EmptySet, FS_CardinalityType
  <1>3. IInv /\ OwnInv /\ DuplicatesBounded /\ [Next]_vars => DuplicatesBounded'
    BY BoundedStep
  <1>4. IInv /\ OwnInv /\ [Next]_vars => OwnInv'
    BY OwnStep
  <1>5. QED
    BY <1>1, <1>2, <1>3, <1>4, Invariance, PTL DEF Spec

-----------------------------------------------------------------------------
(* One process: the queue keeps its promises                               *)

OneProcess == \A a, b \in Process : a = b

\* The job in a worker's hands is running, so long as no second process opens
\* the queue and takes it for an orphan.
LEMMA HeldStep ==
  ASSUME OneProcess, IInv, HeldIsRunning, [Next]_vars
  PROVE  HeldIsRunning'
  <1> USE DEF HeldIsRunning
  <1>0. /\ jobs \in Seq(Row) /\ \A i \in DOMAIN jobs : jobs[i] \in Row
        /\ worker \in [Platform -> [pc : {"off", "idle", "busy", "dead"}, job : 0 .. MaxJobs]]
        /\ Server \in [Platform -> Process]
    BY RowsType, ConstantsAssumption DEF IInv, TypeOK
  <1>1. \A p \in Platform : worker[p].pc = "busy" =>
          /\ worker[p].job \in DOMAIN jobs /\ jobs[worker[p].job].platform = p
          /\ jobs[worker[p].job].status = "running" /\ proc[Server[p]] = "up"
    BY DEF IInv, WorkerInv
  <1>2. CASE UNCHANGED <<jobs, worker>>
    BY <1>2
  <1>3. ASSUME NEW a \in Process, Connect(a) PROVE HeldIsRunning'
    <2>1. \A p \in Platform : proc[Server[p]] = "down" /\ worker'[p] = worker[p]
      BY <1>0, <1>3 DEF Connect, OneProcess
    <2>2. QED
      BY <1>1, <2>1
  <1>4. ASSUME NEW a \in Process, Boot(a) \/ Stop(a) PROVE HeldIsRunning'
    <2>1. UNCHANGED jobs /\ \A p \in Platform :
            worker'[p].pc \in {"idle", "off"} \/ worker'[p] = worker[p]
      BY <1>4 DEF Boot, Stop
    <2>2. QED
      BY <2>1
  <1>5. ASSUME NEW p \in Platform, Claim(p) PROVE HeldIsRunning'
    <2>1. PICK i \in QueuedIds(p) : /\ jobs' = [jobs EXCEPT ![i].status = "running"]
                                    /\ worker' = [worker EXCEPT ![p] = [pc |-> "busy", job |-> i]]
      BY <1>5 DEF Claim
    <2>2. \A j \in DOMAIN jobs : jobs'[j] = IF j = i THEN [jobs[i] EXCEPT !.status = "running"] ELSE jobs[j]
      BY <1>0, <2>1, UpdateStatus DEF QueuedIds, Status
    <2>3. jobs'[i].status = "running"
      BY <1>0, <2>2 DEF QueuedIds, Row
    <2>4. ASSUME NEW q \in Platform, worker'[q].pc = "busy"
          PROVE  jobs'[worker'[q].job].status = "running"
      BY <1>0, <1>1, <2>1, <2>2, <2>3, <2>4 DEF QueuedIds
    <2>5. QED
      BY <2>4
  <1>6. ASSUME NEW p \in Platform, Finish(p) PROVE HeldIsRunning'
    <2>1. PICK s \in {"done", "failed"} : jobs' = [jobs EXCEPT ![worker[p].job].status = s]
      BY <1>6 DEF Finish
    <2>2. worker[p].pc = "busy" /\ worker' = [worker EXCEPT ![p] = [pc |-> "idle", job |-> 0]]
      BY <1>6 DEF Finish
    <2>3. \A j \in DOMAIN jobs : j # worker[p].job => jobs'[j] = jobs[j]
      BY <1>0, <1>1, <2>1, <2>2, UpdateStatus DEF Status
    <2>4. ASSUME NEW q \in Platform, worker'[q].pc = "busy"
          PROVE  jobs'[worker'[q].job].status = "running"
      <3>1. q # p /\ worker'[q] = worker[q]
        BY <1>0, <2>2, <2>4
      <3>2. worker[q].job # worker[p].job
        BY <1>1, <2>2, <2>4, <3>1
      <3>3. QED
        BY <1>1, <2>3, <2>4, <3>1, <3>2
    <2>5. QED
      BY <2>4
  <1>7. ASSUME NEW p \in Platform, WorkerDies(p) PROVE HeldIsRunning'
    BY <1>0, <1>7 DEF WorkerDies
  <1>8. ASSUME NEW t \in Thread, EnqueueInsert(t) PROVE HeldIsRunning'
    BY <1>1, <1>8, InsertEffect DEF EnqueueInsert, Enqueuing
  <1>9. ASSUME NEW i \in DOMAIN jobs, WebCancel(i) PROVE HeldIsRunning'
    <2>1. \A j \in DOMAIN jobs : j # i => jobs'[j] = jobs[j]
      BY <1>0, <1>9, UpdateStatus DEF WebCancel, Status
    <2>2. QED
      BY <1>1, <1>9, <2>1 DEF WebCancel
  <1>10. QED
    BY <1>2, <1>3, <1>4, <1>5, <1>6, <1>7, <1>8, <1>9
       DEF Next, vars, Scheduler, Enqueue, Web, Enqueuing, SchedulerStarts,
           StartupCycle, SchedulerSleeps, Tick, Reschedule, SchedulerError, TimePasses,
           Plan, EnqueueRefused, EnqueueFree, EnqueueReturn,
           WebRun, WebCycle, WebError, WebSchedule, WebSource

\* Where one process opens the queue, nobody settles a job while it runs.
THEOREM HeldJobsRun == ASSUME OneProcess PROVE Spec => []HeldIsRunning
  <1>1. Init => HeldIsRunning
    BY DEF Init, HeldIsRunning
  <1>2. IInv /\ HeldIsRunning /\ [Next]_vars => HeldIsRunning'
    BY HeldStep
  <1>3. QED
    BY <1>1, <1>2, Invariance, PTL DEF Spec

\* A function on an initial segment is a sequence.
LEMMA FunctionIsSequence ==
  ASSUME NEW S, NEW n \in Nat, NEW f \in [1 .. n -> S]
  PROVE  f \in Seq(S) /\ Len(f) = n
  OBVIOUS

\* The rows as the abstract specification sees them.
Rows == [i \in DOMAIN jobs |-> [platform |-> jobs[i].platform, status |-> jobs[i].status]]

\* A row's status changes, and nothing else of the table: the abstract rows
\* change the same way.
LEMMA RowsUpdate ==
  ASSUME IInv, NEW i \in DOMAIN jobs, NEW s \in Status, jobs' = [jobs EXCEPT ![i].status = s]
  PROVE  Rows' = [Rows EXCEPT ![i].status = s]
  <1>0. jobs \in Seq(Row) /\ \A j \in DOMAIN jobs : jobs[j] \in Row
    BY RowsType DEF IInv, TypeOK
  <1>1. DOMAIN jobs' = DOMAIN jobs /\ \A j \in DOMAIN jobs :
          jobs'[j] = IF j = i THEN [jobs[i] EXCEPT !.status = s] ELSE jobs[j]
    BY <1>0, UpdateStatus
  <1>2. /\ jobs'[i].platform = jobs[i].platform /\ jobs'[i].status = s
        /\ \A j \in DOMAIN jobs : j # i => jobs'[j] = jobs[j]
    BY <1>0, <1>1 DEF Row
  <1>3. QED
    BY <1>1, <1>2 DEF Rows

LEMMA LifecycleStep ==
  ASSUME OneProcess, IInv, HeldIsRunning, [Next]_vars
  PROVE  [Lifecycle!Next]_Rows
  <1> DEFINE Goal == Lifecycle!Next \/ Rows' = Rows
  <1>0. jobs \in Seq(Row) /\ \A i \in DOMAIN jobs : jobs[i] \in Row /\ jobs[i].platform \in Platform
    BY RowsType DEF IInv, TypeOK
  <1>r. /\ DOMAIN Rows = DOMAIN jobs
        /\ \A i \in DOMAIN jobs : /\ Rows[i].platform = jobs[i].platform
                                  /\ Rows[i].status = jobs[i].status
    BY DEF Rows
  <1>2. CASE UNCHANGED jobs
    BY <1>2 DEF Rows
  <1>3. ASSUME NEW a \in Process, Connect(a) PROVE Goal
    <2>1. Rows' = [i \in DOMAIN Rows |->
            IF Rows[i].status = "running" THEN [Rows[i] EXCEPT !.status = "interrupted"] ELSE Rows[i]]
      BY <1>0, <1>3 DEF Connect, Rows, Row
    <2>2. Lifecycle!Release
      BY <2>1 DEF Lifecycle!Release, Rows
    <2>3. QED
      BY <2>2 DEF Lifecycle!Next
  <1>4. ASSUME NEW p \in Platform, Claim(p) PROVE Goal
    <2>1. PICK i \in QueuedIds(p) : /\ \A j \in QueuedIds(p) : i <= j
                                    /\ jobs' = [jobs EXCEPT ![i].status = "running"]
      BY <1>4 DEF Claim
    <2>2. i \in DOMAIN jobs /\ jobs[i].status = "queued" /\ jobs[i].platform = p
      BY <2>1 DEF QueuedIds
    <2>3. Rows' = [Rows EXCEPT ![i].status = "running"]
      BY <2>1, <2>2, RowsUpdate DEF Status
    <2>4. \A j \in DOMAIN jobs : jobs[j].platform = p => jobs[j].status # "running"
      BY <1>4 DEF Claim, IInv, RunningIsOwned, WorkerInv
    <2>5. \A j \in DOMAIN jobs : jobs[j].platform = p /\ jobs[j].status = "queued" => i <= j
      BY <2>1 DEF QueuedIds
    <2>6. Lifecycle!Start(i)
      BY <1>r, <2>2, <2>3, <2>4, <2>5 DEF Lifecycle!Start, Rows
    <2>7. QED
      BY <1>r, <2>2, <2>6 DEF Lifecycle!Next, Rows
  <1>5. ASSUME NEW p \in Platform, Finish(p) PROVE Goal
    <2>1. PICK i \in DOMAIN jobs : i = worker[p].job /\ jobs[i].status = "running"
      BY <1>5 DEF Finish, IInv, WorkerInv, HeldIsRunning
    <2>2. PICK s \in {"done", "failed"} : jobs' = [jobs EXCEPT ![i].status = s]
      BY <1>5, <2>1 DEF Finish
    <2>3. Rows' = [Rows EXCEPT ![i].status = s]
      BY <2>2, RowsUpdate DEF Status
    <2>4. Lifecycle!Settle(i)
      BY <1>r, <2>1, <2>3 DEF Lifecycle!Settle, Rows
    <2>5. QED
      BY <1>r, <2>4 DEF Lifecycle!Next, Rows
  <1>6. ASSUME NEW i \in DOMAIN jobs, WebCancel(i) PROVE Goal
    <2>1. jobs[i].status = "queued" /\ jobs' = [jobs EXCEPT ![i].status = "interrupted"]
      BY <1>6 DEF WebCancel
    <2>2. Rows' = [Rows EXCEPT ![i].status = "interrupted"]
      BY <2>1, RowsUpdate DEF Status
    <2>3. Lifecycle!Drop(i)
      BY <1>r, <2>1, <2>2 DEF Lifecycle!Drop, Rows
    <2>4. QED
      BY <1>r, <2>3 DEF Lifecycle!Next, Rows
  <1>7. ASSUME NEW t \in Thread, EnqueueInsert(t) PROVE Goal
    <2>1. PICK p \in Platform : p = thread[t].platform
      BY <1>7 DEF EnqueueInsert, IInv, EnqueueInv
    <2> DEFINE new == [platform |-> p, status |-> "queued"]
    <2>2. Rows \in Seq([platform : Platform, status : Status]) /\ Len(Rows) = Len(jobs)
      <3>1. DOMAIN jobs = 1 .. Len(jobs) /\ Len(jobs) \in Nat
        BY <1>0
      <3>2. Rows \in [1 .. Len(jobs) -> [platform : Platform, status : Status]]
        BY <1>0, <3>1 DEF Rows, Row
      <3>3. QED
        BY <3>1, <3>2, FunctionIsSequence
    <2>3. new \in [platform : Platform, status : Status]
      BY <2>1 DEF Status
    <2>4. /\ DOMAIN jobs' = DOMAIN jobs \cup {Len(jobs) + 1} /\ Len(jobs) + 1 \notin DOMAIN jobs
          /\ \A j \in DOMAIN jobs : jobs'[j] = jobs[j]
          /\ jobs'[Len(jobs) + 1] = NewRow(t)
      BY <1>7, InsertEffect
    <2>5. Rows' = Append(Rows, new)
      BY <1>0, <2>1, <2>2, <2>3, <2>4 DEF Rows, NewRow
    <2>6. Lifecycle!Add(p)
      BY <2>5 DEF Lifecycle!Add, Rows
    <2>7. QED
      BY <2>6 DEF Lifecycle!Next
  <1>8. QED
    BY <1>2, <1>3, <1>4, <1>5, <1>6, <1>7
       DEF Next, vars, Scheduler, Enqueue, Web, Enqueuing, Boot, Stop, WorkerDies, SchedulerStarts,
           StartupCycle, SchedulerSleeps, Tick, Reschedule, SchedulerError, TimePasses,
           Plan, EnqueueRefused, EnqueueFree, EnqueueReturn,
           WebRun, WebCycle, WebError, WebSchedule, WebSource

\* Where one process opens the queue, every job follows the lifecycle the
\* docstrings promise: the queue implements JobLifecycle.
THEOREM QueueImplementsLifecycle == ASSUME OneProcess PROVE Spec => LifecycleSpec
  <1>1. Init => Lifecycle!Init
    BY DEF Init, Lifecycle!Init
  <1>2. IInv /\ HeldIsRunning /\ [Next]_vars => [Lifecycle!Next]_Rows
    BY LifecycleStep
  <1>3. QED
    BY <1>1, <1>2, Invariance, HeldJobsRun, PTL DEF Spec, LifecycleSpec, Lifecycle!Spec, Rows
=============================================================================
