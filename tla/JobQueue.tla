------------------------------ MODULE JobQueue ------------------------------
(***************************************************************************)
(* The durable job queue (core/queue.py), the workers and the scheduler    *)
(* that share it (core/worker.py), the web handlers that feed it           *)
(* (api/control.py), and the processes they live and die in (daemon.py).   *)
(*                                                                         *)
(* One database statement and its commit are one step; everything between  *)
(* two awaits is one step; any other coroutine or process may run between  *)
(* them.  A row's id is its position in `jobs` (AUTOINCREMENT, and rows    *)
(* are never deleted).                                                     *)
(***************************************************************************)
EXTENDS Integers, Sequences, FiniteSets

CONSTANTS
  Platform,    \* the platforms a schedule and a queue exist for
  Category,    \* what an archive job can be restricted to
  Target,      \* accounts or subreddits that can be tracked
  Stage,       \* configured follow-ups, a subset of {"upload", "caption", "embed"}
  Process,     \* operating system processes that open the queue
  Server,      \* Server[p]: the one process that serves platform p
  WebProcess,  \* the process that serves the web UI
  Request,     \* slots for concurrently handled web requests
  ByHand,      \* bound: the kinds of job that requests ask for one by one
  Flags,       \* values a request may give `history` (a subset of BOOLEAN)
  RunOnStart,  \* config.RUN_ON_START
  Errors,      \* whether a statement on the queue database may raise
  MaxJobs,     \* bound: rows ever inserted
  MaxStops,    \* bound: times a process dies
  None         \* SQL NULL

JobKind == {"archive", "source", "profiles", "upload", "caption", "embed"}

ASSUME ConstantsAssumption ==
  /\ Stage \subseteq {"upload", "caption", "embed"}
  /\ Server \in [Platform -> Process]
  /\ ByHand \subseteq JobKind /\ Flags \subseteq BOOLEAN
  /\ None \notin Target
  /\ RunOnStart \in BOOLEAN /\ Errors \in BOOLEAN
  /\ MaxJobs \in Nat /\ MaxStops \in Nat
  /\ Process \cap Request = {}

\* create_app runs every platform in the process that serves the UI.
ASSUME WebAssumption ==
  Request # {} => /\ WebProcess \in Process
                  /\ \A p \in Platform : Server[p] = WebProcess

VARIABLES
  jobs,       \* table jobs: a sequence of rows
  schedules,  \* table schedules, one row per platform once seeded
  tracked,    \* table sources: per platform and target, absent, enabled or paused
  proc,       \* per process: down, connected (orphans released), up (tasks created)
  worker,     \* per platform: its worker task and the job in its hands
  thread,     \* per scheduler and web request: where it is in enqueuing, and its locals
  phase,      \* per process: which loop its scheduler is in
  batch,      \* per process: schedule rows read and not yet acted on
  cycles,     \* ghost: cycles the timer began since the schedule last fell due
  stops       \* how many times a process has died

vars == <<jobs, schedules, tracked, proc, worker, thread, phase, batch, cycles, stops>>

-----------------------------------------------------------------------------
(* Rows                                                                    *)

Status == {"queued", "running", "done", "failed", "interrupted"}
Active == {"queued", "running"}

\* The columns job, category and target; only a source job must have a target.
JobKey ==
  {k \in [job : JobKind, category : Category \cup {None}, target : Target \cup {None}] :
     k.job = "source" => k.target # None}

Row == [platform : Platform, key : JobKey, full : BOOLEAN, status : Status]

Schedule == [seeded : BOOLEAN, enabled : BOOLEAN, categories : SUBSET Category, elapsed : BOOLEAN]

Due(p) == schedules[p].seeded /\ schedules[p].enabled /\ schedules[p].elapsed

IsActive(p, k) ==
  \E i \in DOMAIN jobs : jobs[i].platform = p /\ jobs[i].key = k /\ jobs[i].status \in Active

QueuedIds(p) == {i \in DOMAIN jobs : jobs[i].platform = p /\ jobs[i].status = "queued"}

-----------------------------------------------------------------------------
(* Locals of a coroutine that enqueues: a scheduler or a web request       *)

Thread == Process \cup Request

Pc == {"off", "boot", "sleep", "loop", "plan", "check", "insert", "dead", "idle"}

Local == [pc : Pc, platform : Platform \cup {None}, categories : SUBSET Category,
          plan : SUBSET JobKey, key : JobKey \cup {None}, full : BOOLEAN]

\* A coroutine with nothing in hand, at pc.
At(pc) == [pc |-> pc, platform |-> None, categories |-> {}, plan |-> {}, key |-> None,
           full |-> FALSE]

\* The position of each kind of job in a cycle's plan.
Rank == [archive |-> 1, source |-> 2, profiles |-> 3, upload |-> 4, caption |-> 5, embed |-> 6]

CyclePlan(p, cats) ==
  [job : {"archive"}, category : cats, target : {None}]
    \cup [job : {"source"}, category : {None},
          target : {t \in Target : tracked[p][t] = "enabled"}]
    \cup [job : {"profiles"} \cup Stage, category : {None}, target : {None}]

\* The keys the loop over a plan may reach next: categories come in the
\* schedule's own order, sources sorted, follow-ups last.
First(plan) == {k \in plan : \A l \in plan : Rank[k.job] <= Rank[l.job]}

-----------------------------------------------------------------------------
Init ==
  /\ jobs = << >>
  /\ schedules = [p \in Platform |->
       [seeded |-> FALSE, enabled |-> FALSE, categories |-> {}, elapsed |-> FALSE]]
  /\ tracked = [p \in Platform |-> [t \in Target |-> "absent"]]
  /\ proc = [a \in Process |-> "down"]
  /\ worker = [p \in Platform |-> [pc |-> "off", job |-> 0]]
  /\ thread = [t \in Thread |-> IF t \in Process THEN At("off") ELSE At("idle")]
  /\ phase = [a \in Process |-> "startup"]
  /\ batch = [a \in Process |-> {}]
  /\ cycles = [p \in Platform |-> 0]
  /\ stops = 0

-----------------------------------------------------------------------------
(* Processes                                                               *)

\* mutant: orphans are left alone.
ConnectKeepsOrphans(a) ==
  /\ proc[a] = "down"
  /\ proc' = [proc EXCEPT ![a] = "connected"]
  /\ UNCHANGED <<jobs, schedules, tracked, worker, thread, phase, batch, cycles, stops>>

\* JobQueue.connect: whatever is marked running is taken for an orphan.
Connect(a) ==
  /\ proc[a] = "down"
  /\ proc' = [proc EXCEPT ![a] = "connected"]
  /\ jobs' = [i \in DOMAIN jobs |->
       IF jobs[i].status = "running" THEN [jobs[i] EXCEPT !.status = "interrupted"] ELSE jobs[i]]
  /\ UNCHANGED <<schedules, tracked, worker, thread, phase, batch, cycles, stops>>

\* mutant: INSERT OR REPLACE in ensure_schedule.
BootReplacesSchedules(a) ==
  /\ proc[a] = "connected"
  /\ proc' = [proc EXCEPT ![a] = "up"]
  /\ schedules' = [p \in Platform |->
       [seeded |-> TRUE, enabled |-> TRUE, categories |-> Category, elapsed |-> FALSE]]
  /\ worker' = [p \in Platform |->
       IF Server[p] = a THEN [pc |-> "idle", job |-> 0] ELSE worker[p]]
  /\ thread' = [thread EXCEPT ![a] = At("boot")]
  /\ UNCHANGED <<jobs, tracked, phase, batch, cycles, stops>>

\* seed_schedules for every platform, then the tasks of the platforms served.
Boot(a) ==
  /\ proc[a] = "connected"
  /\ proc' = [proc EXCEPT ![a] = "up"]
  /\ schedules' = [p \in Platform |->
       IF schedules[p].seeded THEN schedules[p]
       ELSE [seeded |-> TRUE, enabled |-> TRUE, categories |-> Category, elapsed |-> FALSE]]
  /\ worker' = [p \in Platform |->
       IF Server[p] = a THEN [pc |-> "idle", job |-> 0] ELSE worker[p]]
  /\ thread' = [thread EXCEPT ![a] = At("boot")]
  /\ UNCHANGED <<jobs, tracked, phase, batch, cycles, stops>>

\* The process ends, killed or through the finally of `running`: its tasks are
\* cancelled wherever they are, and a job in a worker's hands keeps its row.
Stop(a) ==
  /\ proc[a] # "down"
  /\ stops < MaxStops
  /\ stops' = stops + 1
  /\ proc' = [proc EXCEPT ![a] = "down"]
  /\ worker' = [p \in Platform |->
       IF Server[p] = a THEN [pc |-> "off", job |-> 0] ELSE worker[p]]
  /\ thread' = [t \in Thread |->
       IF t = a THEN At("off")
       ELSE IF t \in Request /\ a = WebProcess THEN At("idle") ELSE thread[t]]
  /\ batch' = [batch EXCEPT ![a] = {}]
  /\ UNCHANGED <<jobs, schedules, tracked, phase, cycles>>

-----------------------------------------------------------------------------
(* The worker of a platform                                                *)

\* mutant: no ORDER BY id in the subquery of claim.
ClaimAny(p) ==
  /\ worker[p].pc = "idle"
  /\ \E i \in QueuedIds(p) :
       /\ jobs' = [jobs EXCEPT ![i].status = "running"]
       /\ worker' = [worker EXCEPT ![p] = [pc |-> "busy", job |-> i]]
  /\ UNCHANGED <<schedules, tracked, proc, thread, phase, batch, cycles, stops>>

\* The oldest queued row, read and marked in one statement.
Claim(p) ==
  /\ worker[p].pc = "idle"
  /\ \E i \in QueuedIds(p) :
       /\ \A j \in QueuedIds(p) : i <= j
       /\ jobs' = [jobs EXCEPT ![i].status = "running"]
       /\ worker' = [worker EXCEPT ![p] = [pc |-> "busy", job |-> i]]
  /\ UNCHANGED <<schedules, tracked, proc, thread, phase, batch, cycles, stops>>

\* mutant: a job that raises is logged and its row forgotten.
FinishForgetsFailure(p) ==
  /\ worker[p].pc = "busy"
  /\ \/ jobs' = [jobs EXCEPT ![worker[p].job].status = "done"]
     \/ UNCHANGED jobs
  /\ worker' = [worker EXCEPT ![p] = [pc |-> "idle", job |-> 0]]
  /\ UNCHANGED <<schedules, tracked, proc, thread, phase, batch, cycles, stops>>

\* mutant: finish re-raises what the job raised, and the task ends.
FinishReraises(p) ==
  /\ worker[p].pc = "busy"
  /\ \E outcome \in {"done", "failed"} :
       /\ jobs' = [jobs EXCEPT ![worker[p].job].status = outcome]
       /\ worker' = [worker EXCEPT ![p] =
            [pc |-> IF outcome = "done" THEN "idle" ELSE "dead", job |-> 0]]
  /\ UNCHANGED <<schedules, tracked, proc, thread, phase, batch, cycles, stops>>

\* _invoke returned or raised; finish writes the outcome by id, whatever the
\* row says by now.
Finish(p) ==
  /\ worker[p].pc = "busy"
  /\ \E outcome \in {"done", "failed"} :
       jobs' = [jobs EXCEPT ![worker[p].job].status = outcome]
  /\ worker' = [worker EXCEPT ![p] = [pc |-> "idle", job |-> 0]]
  /\ UNCHANGED <<schedules, tracked, proc, thread, phase, batch, cycles, stops>>

\* claim or finish raises out of the loop: the task ends and nothing restarts it.
WorkerDies(p) ==
  /\ Errors
  /\ worker[p].pc \in {"idle", "busy"}
  /\ worker' = [worker EXCEPT ![p].pc = "dead"]
  /\ UNCHANGED <<jobs, schedules, tracked, proc, thread, phase, batch, cycles, stops>>

-----------------------------------------------------------------------------
(* enqueue and enqueue_cycle, in any coroutine t                           *)

Enqueuing(t) == UNCHANGED <<schedules, tracked, proc, worker, phase, batch, cycles, stops>>

\* enqueue_cycle reads the tracked sources; the categories were read before.
Plan(t) ==
  /\ thread[t].pc = "plan"
  /\ thread' = [thread EXCEPT ![t].pc = "check",
       ![t].plan = CyclePlan(thread[t].platform, thread[t].categories)]
  /\ UNCHANGED jobs
  /\ Enqueuing(t)

\* The SELECT of enqueue finds a waiting or running row with the same key.
EnqueueRefused(t) ==
  /\ thread[t].pc = "check"
  /\ \E k \in First(thread[t].plan) :
       /\ IsActive(thread[t].platform, k)
       /\ thread' = [thread EXCEPT ![t].plan = @ \ {k}]
  /\ UNCHANGED jobs
  /\ Enqueuing(t)

\* mutant: no look for a duplicate.
EnqueueUnchecked(t) ==
  /\ thread[t].pc = "check"
  /\ \E k \in First(thread[t].plan) :
       thread' = [thread EXCEPT ![t].pc = "insert", ![t].key = k, ![t].plan = @ \ {k}]
  /\ UNCHANGED jobs
  /\ Enqueuing(t)

\* It finds none, and the coroutine goes on to its INSERT.
EnqueueFree(t) ==
  /\ thread[t].pc = "check"
  /\ \E k \in First(thread[t].plan) :
       /\ ~IsActive(thread[t].platform, k)
       /\ thread' = [thread EXCEPT ![t].pc = "insert", ![t].key = k, ![t].plan = @ \ {k}]
  /\ UNCHANGED jobs
  /\ Enqueuing(t)

EnqueueInsert(t) ==
  /\ thread[t].pc = "insert"
  /\ Len(jobs) < MaxJobs
  /\ jobs' = Append(jobs, [platform |-> thread[t].platform, key |-> thread[t].key,
                           full |-> thread[t].full, status |-> "queued"])
  /\ thread' = [thread EXCEPT ![t].pc = "check", ![t].key = None]
  /\ Enqueuing(t)

\* The plan is exhausted: a request answers, a scheduler takes its next row.
EnqueueReturn(t) ==
  /\ thread[t].pc = "check" /\ thread[t].plan = {}
  /\ thread' = [thread EXCEPT ![t] = IF t \in Process THEN At("loop") ELSE At("idle")]
  /\ UNCHANGED jobs
  /\ Enqueuing(t)

-----------------------------------------------------------------------------
(* The scheduler of a process                                              *)

\* mutant: every process polls every platform.
MineIsAll(a) == Platform

Mine(a) == {p \in Platform : Server[p] = a}

\* Schedule rows as one SELECT returns them.
Read(S) == {[platform |-> p, categories |-> schedules[p].categories] : p \in S}

\* mutant: without RUN_ON_START the scheduler returns instead of polling.
SchedulerReturns(a) ==
  /\ thread[a].pc = "boot"
  /\ thread' = [thread EXCEPT ![a] = At("dead")]
  /\ UNCHANGED <<jobs, schedules, tracked, proc, worker, phase, batch, cycles, stops>>

\* Before its loop: a cycle for every enabled schedule under RUN_ON_START.
SchedulerStarts(a) ==
  /\ thread[a].pc = "boot"
  /\ thread' = [thread EXCEPT ![a] = At("loop")]
  /\ batch' = [batch EXCEPT ![a] =
       IF RunOnStart THEN Read({p \in Mine(a) : schedules[p].enabled}) ELSE {}]
  /\ phase' = [phase EXCEPT ![a] = "startup"]
  /\ UNCHANGED <<jobs, schedules, tracked, proc, worker, cycles, stops>>

StartupCycle(a) ==
  /\ thread[a].pc = "loop" /\ phase[a] = "startup"
  /\ \E s \in batch[a] :
       /\ batch' = [batch EXCEPT ![a] = @ \ {s}]
       /\ thread' = [thread EXCEPT ![a] =
            [At("plan") EXCEPT !.platform = s.platform, !.categories = s.categories]]
  /\ UNCHANGED <<jobs, schedules, tracked, proc, worker, phase, cycles, stops>>

SchedulerSleeps(a) ==
  /\ thread[a].pc = "loop" /\ batch[a] = {}
  /\ thread' = [thread EXCEPT ![a] = At("sleep")]
  /\ phase' = [phase EXCEPT ![a] = "tick"]
  /\ UNCHANGED <<jobs, schedules, tracked, proc, worker, batch, cycles, stops>>

\* A tick reads every schedule once; what is due is decided from that read.
Tick(a) ==
  /\ thread[a].pc = "sleep"
  /\ \E p \in Mine(a) : Due(p)
  /\ batch' = [batch EXCEPT ![a] = Read({p \in Mine(a) : Due(p)})]
  /\ thread' = [thread EXCEPT ![a] = At("loop")]
  /\ UNCHANGED <<jobs, schedules, tracked, proc, worker, phase, cycles, stops>>

\* mutant: the cycle comes first and the row keeps its past next_run.
RescheduleLater(a) ==
  /\ thread[a].pc = "loop" /\ phase[a] = "tick"
  /\ \E s \in batch[a] :
       /\ batch' = [batch EXCEPT ![a] = @ \ {s}]
       /\ thread' = [thread EXCEPT ![a] =
            [At("plan") EXCEPT !.platform = s.platform, !.categories = s.categories]]
       /\ cycles' = [cycles EXCEPT ![s.platform] = IF @ < 2 THEN @ + 1 ELSE @]
  /\ UNCHANGED <<jobs, schedules, tracked, proc, worker, phase, stops>>

\* For each due row: set_schedule(enabled, as read, next run), then the cycle.
Reschedule(a) ==
  /\ thread[a].pc = "loop" /\ phase[a] = "tick"
  /\ \E s \in batch[a] :
       /\ schedules' = [schedules EXCEPT ![s.platform] =
            [seeded |-> TRUE, enabled |-> TRUE, categories |-> s.categories, elapsed |-> FALSE]]
       /\ batch' = [batch EXCEPT ![a] = @ \ {s}]
       /\ thread' = [thread EXCEPT ![a] =
            [At("plan") EXCEPT !.platform = s.platform, !.categories = s.categories]]
       /\ cycles' = [cycles EXCEPT ![s.platform] = IF @ < 2 THEN @ + 1 ELSE @]
  /\ UNCHANGED <<jobs, tracked, proc, worker, phase, stops>>

\* A statement raises: the tick is abandoned until the next one; before the
\* loop nothing catches it and the task ends.
SchedulerError(a) ==
  /\ Errors
  /\ \/ thread[a].pc \in {"loop", "plan", "check", "insert"}
     \/ thread[a].pc = "boot" /\ RunOnStart
  /\ thread' = [thread EXCEPT ![a] = IF thread[a].pc # "boot" /\ phase[a] = "tick"
                                          THEN At("sleep") ELSE At("dead")]
  /\ batch' = [batch EXCEPT ![a] = {}]
  /\ UNCHANGED <<jobs, schedules, tracked, proc, worker, phase, cycles, stops>>

\* next_run goes by.
TimePasses(p) ==
  /\ schedules[p].seeded /\ ~schedules[p].elapsed
  /\ schedules' = [schedules EXCEPT ![p].elapsed = TRUE]
  /\ cycles' = [cycles EXCEPT ![p] = 0]
  /\ UNCHANGED <<jobs, tracked, proc, worker, thread, phase, batch, stops>>

-----------------------------------------------------------------------------
(* Web requests                                                            *)

Serving == WebProcess \in Process /\ proc[WebProcess] = "up"

\* /api/run and /api/sources/run: one job, past the request's validation.
WebRun(r, p, k, full) ==
  /\ Serving /\ thread[r].pc = "idle"
  /\ thread' = [thread EXCEPT ![r] =
       [At("check") EXCEPT !.platform = p, !.plan = {k}, !.full = full]]
  /\ UNCHANGED <<jobs, schedules, tracked, proc, worker, phase, batch, cycles, stops>>

\* /api/cycle reads the schedule, paused or not, and queues what the timer would.
WebCycle(r, p) ==
  /\ Serving /\ thread[r].pc = "idle"
  /\ thread' = [thread EXCEPT ![r] =
       [At("plan") EXCEPT !.platform = p, !.categories = schedules[p].categories]]
  /\ UNCHANGED <<jobs, schedules, tracked, proc, worker, phase, batch, cycles, stops>>

\* /api/schedule: pausing, resuming or editing restarts the clock.
WebSchedule(p, enabled, cats) ==
  /\ Serving
  /\ schedules' = [schedules EXCEPT ![p] =
       [seeded |-> TRUE, enabled |-> enabled, categories |-> cats, elapsed |-> FALSE]]
  /\ UNCHANGED <<jobs, tracked, proc, worker, thread, phase, batch, cycles, stops>>

\* /api/sources/add (INSERT OR IGNORE), /remove and /enabled.
WebSource(p, t) ==
  /\ Serving
  /\ \/ /\ tracked[p][t] = "absent"
        /\ tracked' = [tracked EXCEPT ![p][t] = "enabled"]
     \/ /\ tracked[p][t] # "absent"
        /\ \E s \in {"absent", "enabled", "paused"} :
             tracked' = [tracked EXCEPT ![p][t] = s]
  /\ UNCHANGED <<jobs, schedules, proc, worker, thread, phase, batch, cycles, stops>>

\* mutant: cancel without its status condition.
CancelAny(i) ==
  /\ Serving
  /\ jobs[i].status \in Active
  /\ jobs' = [jobs EXCEPT ![i].status = "interrupted"]
  /\ UNCHANGED <<schedules, tracked, proc, worker, thread, phase, batch, cycles, stops>>

\* /api/cancel: only a row still queued.
WebCancel(i) ==
  /\ Serving
  /\ jobs[i].status = "queued"
  /\ jobs' = [jobs EXCEPT ![i].status = "interrupted"]
  /\ UNCHANGED <<schedules, tracked, proc, worker, thread, phase, batch, cycles, stops>>

\* A statement raises inside a handler: the request fails and leaves nothing open.
WebError(r) ==
  /\ Errors
  /\ thread[r].pc # "idle"
  /\ thread' = [thread EXCEPT ![r] = At("idle")]
  /\ UNCHANGED <<jobs, schedules, tracked, proc, worker, phase, batch, cycles, stops>>

-----------------------------------------------------------------------------
Enqueue(t) == Plan(t) \/ EnqueueRefused(t) \/ EnqueueFree(t) \/ EnqueueInsert(t) \/ EnqueueReturn(t)

Scheduler(a) ==
  SchedulerStarts(a) \/ StartupCycle(a) \/ SchedulerSleeps(a) \/ Tick(a) \/ Reschedule(a)

Web ==
  \/ \E r \in Request, p \in Platform :
       \/ \E k \in JobKey, full \in Flags : k.job \in ByHand /\ WebRun(r, p, k, full)
       \/ WebCycle(r, p)
  \/ \E r \in Request : WebError(r)
  \/ Request # {} /\ \E p \in Platform :
       \/ \E enabled \in BOOLEAN, cats \in SUBSET Category : WebSchedule(p, enabled, cats)
       \/ \E t \in Target : WebSource(p, t)
  \/ Request # {} /\ \E i \in DOMAIN jobs : WebCancel(i)

Next ==
  \/ \E a \in Process : Connect(a) \/ Boot(a) \/ Stop(a) \/ Scheduler(a) \/ SchedulerError(a)
  \/ \E p \in Platform : Claim(p) \/ Finish(p) \/ WorkerDies(p) \/ TimePasses(p)
  \/ \E t \in Thread : Enqueue(t)
  \/ Web

Spec == Init /\ [][Next]_vars

(***************************************************************************)
(* What keeps running: a container that died is restarted, a worker polls, *)
(* a job that runs ends (each client has timeouts of its own), and the     *)
(* event loop resumes every coroutine that can go on.  Nothing is assumed  *)
(* of the clock, of web requests or of errors.                             *)
(***************************************************************************)
Fairness ==
  /\ \A a \in Process : WF_vars(Connect(a)) /\ WF_vars(Boot(a)) /\ WF_vars(Scheduler(a))
  /\ \A p \in Platform : WF_vars(Claim(p)) /\ WF_vars(Finish(p))
  /\ \A t \in Thread : WF_vars(Enqueue(t))

FairSpec == Spec /\ Fairness

-----------------------------------------------------------------------------
(* Properties                                                              *)

\* Every variable keeps to the shape of its table, task or coroutine.
TypeOK ==
  /\ jobs \in Seq(Row) /\ Len(jobs) <= MaxJobs
  /\ schedules \in [Platform -> Schedule]
  /\ tracked \in [Platform -> [Target -> {"absent", "enabled", "paused"}]]
  /\ proc \in [Process -> {"down", "connected", "up"}]
  /\ worker \in [Platform -> [pc : {"off", "idle", "busy", "dead"}, job : 0 .. MaxJobs]]
  /\ thread \in [Thread -> Local]
  /\ phase \in [Process -> {"startup", "tick"}]
  /\ batch \in [Process -> SUBSET [platform : Platform, categories : SUBSET Category]]
  /\ cycles \in [Platform -> 0 .. 2]
  /\ stops \in 0 .. MaxStops

\* The same platform can never run twice at once (worker.py): whatever is
\* claimed, finished, killed and released in between, at most one row of a
\* platform is marked running.
OneRunPerPlatform ==
  \A i, j \in DOMAIN jobs :
    jobs[i].status = "running" /\ jobs[j].status = "running" /\ jobs[i].platform = jobs[j].platform
      => i = j

\* A row marked running is in the hands of its platform's worker, or that
\* worker's process is down and will release it when it next connects.
RunningIsOwned ==
  \A i \in DOMAIN jobs :
    jobs[i].status = "running" =>
      LET p == jobs[i].platform IN
        \/ worker[p].pc \in {"busy", "dead"} /\ worker[p].job = i
        \/ proc[Server[p]] = "down"

\* The job in a worker's hands is still marked running when the worker comes to
\* finish it: nobody else settled it meanwhile.  Only where one process opens
\* the queue.
HeldIsRunning ==
  \A p \in Platform : worker[p].pc = "busy" => jobs[worker[p].job].status = "running"

\* A schedule that falls due costs one cycle, whatever fails after it and
\* however many processes poll the table ("a failure below costs one cycle,
\* not an immediate retry loop").
OneCyclePerDue == \A p \in Platform : cycles[p] <= 1

\* Rows waiting or running under one key, with the inserts already decided, are
\* never more than the coroutines that enqueue at the same time: a queue that
\* is backed up does not grow with every tick.
DuplicatesBounded ==
  \A p \in Platform, k \in JobKey :
    Cardinality({i \in DOMAIN jobs :
        jobs[i].platform = p /\ jobs[i].key = k /\ jobs[i].status \in Active})
      + Cardinality({t \in Thread :
          thread[t].pc = "insert" /\ thread[t].platform = p /\ thread[t].key = k})
      <= 1 + Cardinality(Request)

\* A paused schedule is resumed by the owner, or by a tick that had read it
\* enabled and due before the pause; never by a restart, a cycle queued by
\* hand, or a tick that read it paused.
Resumed(p) == schedules[p].seeded /\ ~schedules[p].enabled /\ schedules'[p].enabled
PauseOnlyLostInTick ==
  [][\A p \in Platform : Resumed(p) =>
       \/ \E cats \in SUBSET Category : WebSchedule(p, TRUE, cats)
       \/ /\ phase[Server[p]] = "tick"
          /\ \E s \in batch[Server[p]] : s.platform = p]_vars

\* Every job follows the lifecycle the docstrings promise.
Lifecycle == INSTANCE JobLifecycle
  WITH rows <- [i \in DOMAIN jobs |-> [platform |-> jobs[i].platform, status |-> jobs[i].status]]
LifecycleSpec == Lifecycle!Spec

HasStatus(i, status) == i \in DOMAIN jobs /\ jobs[i].status = status

\* A job that is queued is eventually started, or cancelled.
QueuedIsTaken ==
  \A i \in 1 .. MaxJobs : HasStatus(i, "queued") ~> ~HasStatus(i, "queued")

\* No job stays running forever: it settles, or the restart of its process says
\* it was interrupted.
RunningIsSettled ==
  \A i \in 1 .. MaxJobs : HasStatus(i, "running") ~> ~HasStatus(i, "running")

\* The bound of this model on the rows holds the scheduler of a at its INSERT.
HeldAtBound(a) == thread[a].pc = "insert" /\ Len(jobs) = MaxJobs

\* A schedule that is due is eventually acted on or edited: one that fell due
\* while another was served, while its last cycle still ran, or while the process
\* was down.
DueIsServed ==
  \A p \in Platform : Due(p) ~> (~Due(p) \/ HeldAtBound(Server[p]))

-----------------------------------------------------------------------------
(* What the code's own words claim and the code does not do                *)

\* "A scheduler tick that lands while the queue is backed up should not stack
\* duplicates" (queue.py): no two waiting or running rows share a key.
NoDuplicateWaiting ==
  \A i, j \in DOMAIN jobs :
    /\ jobs[i].platform = jobs[j].platform /\ jobs[i].key = jobs[j].key
    /\ jobs[i].status \in Active /\ jobs[j].status \in Active
    => i = j

\* "A paused platform stays paused" (queue.py): only the owner resumes it.
PausedStaysPaused ==
  [][\A p \in Platform : Resumed(p) => \E cats \in SUBSET Category : WebSchedule(p, TRUE, cats)]_vars

\* "A job marked running at startup belonged to a process that died" (queue.py),
\* with platforms split across processes: what Connect interrupts is in no live
\* worker's hands.
OrphansAreOrphans ==
  [][\A i \in DOMAIN jobs :
       jobs[i].status = "running" /\ jobs'[i].status = "interrupted"
         => proc[Server[jobs[i].platform]] # "up"]_vars

\* "So a cycle's uploads carry everything it archived rather than leaving source
\* items until the next one" (worker.py): while no coroutine is enqueuing for a
\* platform, an upload is queued behind each archive or source job that is yet to
\* end.  Where only cycles enqueue.
CycleUploadsWhatItArchives ==
  \A p \in Platform :
    (\A t \in Thread : thread[t].platform # p) =>
      \A i \in DOMAIN jobs :
        /\ jobs[i].platform = p /\ jobs[i].key.job \in {"archive", "source"}
        /\ jobs[i].status \in Active
        => \E j \in DOMAIN jobs :
             i < j /\ jobs[j].platform = p /\ jobs[j].key.job = "upload"

\* "Returns None when an identical job is already waiting" (queue.py): what a
\* refusal found asks for the same walk.
RefusedOnlyForIdentical ==
  [][\A r \in Request : EnqueueRefused(r) =>
       \E i \in DOMAIN jobs :
         /\ jobs[i].platform = thread[r].platform
         /\ jobs[i].key \in thread[r].plan \ thread'[r].plan
         /\ jobs[i].status \in Active
         /\ jobs[i].full = thread[r].full]_vars

\* "A run that dies is visible" (queue.py): a row does not stay running once the
\* worker that ran it has died.
DeadRunIsVisible ==
  \A p \in Platform :
    (\E i \in DOMAIN jobs : jobs[i].platform = p /\ jobs[i].status = "running" /\ worker[p].pc = "dead")
      ~> (\A i \in DOMAIN jobs : jobs[i].platform = p => jobs[i].status # "running")
=============================================================================
