----------------------------- MODULE MCQueueLive -----------------------------
(* What jobs and schedules must come to: one platform whose process queues a  *)
(* cycle when it starts and serves web requests, and two schedules in one     *)
(* process without either.  The two share no state here: part says which one  *)
(* moves.                                                                     *)
EXTENDS MCJobQueue

VARIABLES
  part,
  jobs2, schedules2, tracked2, proc2, worker2, thread2, phase2, batch2, cycles2, stops2

Schedules == {"reddit", "twitter"}
Nothing == {}

D == INSTANCE JobQueue WITH Platform <- Schedules, Category <- Nothing, Target <- Nothing, Stage <- Nothing,
       Server <- [p \in Schedules |-> CHOOSE a \in Process : TRUE], WebProcess <- None, Request <- Nothing,
       ByHand <- Nothing, RunOnStart <- FALSE, Errors <- FALSE, MaxJobs <- 3, MaxStops <- 1,
       jobs <- jobs2, schedules <- schedules2, tracked <- tracked2, proc <- proc2, worker <- worker2,
       thread <- thread2, phase <- phase2, batch <- batch2, cycles <- cycles2, stops <- stops2

two == <<jobs2, schedules2, tracked2, proc2, worker2, thread2, phase2, batch2, cycles2, stops2>>
all == <<part, vars, two>>

LiveInit == part \in {"web", "two"} /\ Init /\ D!Init

Served(action) == part = "web" /\ action /\ UNCHANGED <<part, two>>
Two(action) == part = "two" /\ action /\ UNCHANGED <<part, vars>>

LiveNext == Served(Next) \/ Two(D!Next)

\* The fairness of JobQueue, of the part that moves.
LiveFairness ==
  /\ \A a \in Process :
       /\ WF_all(Served(Connect(a)) \/ Two(D!Connect(a)))
       /\ WF_all(Served(Boot(a)) \/ Two(D!Boot(a)))
       /\ WF_all(Served(Scheduler(a)) \/ Two(D!Scheduler(a)))
       /\ WF_all(Served(Enqueue(a)) \/ Two(D!Enqueue(a)))
  /\ \A r \in Request : WF_all(Served(Enqueue(r)))
  /\ \A p \in Platform : WF_all(Served(Claim(p))) /\ WF_all(Served(Finish(p)))
  /\ \A p \in Schedules : WF_all(Two(D!Claim(p))) /\ WF_all(Two(D!Finish(p)))

LiveSpec == LiveInit /\ [][LiveNext]_all /\ LiveFairness

-----------------------------------------------------------------------------

\* Each of two schedules that is due is eventually acted on: one that fell due while
\* the other was served, while its last cycle still ran, or while the process was down.
SchedulesAreServed == D!DueIsServed
=============================================================================
