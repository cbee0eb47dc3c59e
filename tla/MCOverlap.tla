------------------------------ MODULE MCOverlap ------------------------------
(* What overlaps: two daemons over one queue, and, each in runs of its own, a *)
(* person's uploads with the jobs of the queue, two posts in one captioning   *)
(* call, and the requests such a call makes.  The four share no state here:   *)
(* part says which one moves.                                                 *)
EXTENDS MCJobQueue

VARIABLES
  part,
  row, disk, indexed, sent, run, crashes,             \* ItemStages: a person's uploads
  row2, disk2, indexed2, sent2, run2, crashes2,       \* ItemStages: a captioning call
  client, raw, whole, call                            \* ModelClient

\* One item of any of four shapes; the queue's jobs, and a person who uploads.
One == {"i1"}
ItemShapes == {"text", "media", "removed", "linked"}
Runners == {"queue", "shell"}
SplitJobs == [queue |-> {"archive", "caption", "embed"}, shell |-> {"upload"}]
Once == {"failed"}

S == INSTANCE ItemStages WITH Item <- One, Shape <- ItemShapes, Runner <- Runners, Jobs <- SplitJobs,
       Again <- Once, Captioning <- TRUE, Embedding <- TRUE, MaxAttempts <- 2, MaxSends <- 1, CallSize <- 1,
       Errors <- FALSE, MaxCrashes <- 1, MaxShown <- 3

\* Two posts with media or without, and the jobs that archive and caption them.
Posts == {"p1", "p2"}
PostShapes == {"media", "text"}
PostRunner == {"queue"}
PostJobs == [r \in PostRunner |-> {"archive", "caption"}]
Twice == {"failed", "refused"}

C == INSTANCE ItemStages WITH Item <- Posts, Shape <- PostShapes, Runner <- PostRunner, Jobs <- PostJobs,
       Again <- Twice, Captioning <- TRUE, Embedding <- FALSE, MaxAttempts <- 3, MaxSends <- 1, CallSize <- 2,
       Errors <- TRUE, MaxCrashes <- 1, MaxShown <- 3, row <- row2, disk <- disk2, indexed <- indexed2, sent <- sent2,
       run <- run2, crashes <- crashes2

Clients == {"vertex", "gemini", "openrouter"}

V == INSTANCE ModelClient WITH MaxRetries <- 2, MaxTokens <- 1, thread <- whole

shell == <<row, disk, indexed, sent, run, crashes>>
calls == <<row2, disk2, indexed2, sent2, run2, crashes2>>
requests == <<client, raw, whole, call>>

\* A part that does not move begins in one of its states.
OverlapInit ==
  /\ part \in {"shell", "calls", "daemons", "requests"} /\ Init /\ S!Init /\ C!Init /\ V!Init
  /\ part # "requests" => client = "gemini"

OverlapNext ==
  \/ part = "shell" /\ S!Next /\ UNCHANGED <<part, vars, calls, requests>>
  \/ part = "calls" /\ C!Next /\ UNCHANGED <<part, vars, shell, requests>>
  \/ part = "daemons" /\ Next /\ UNCHANGED <<part, shell, calls, requests>>
  \/ part = "requests" /\ V!Next /\ UNCHANGED <<part, vars, shell, calls>>

OverlapSpec == OverlapInit /\ [][OverlapNext]_<<part, vars, shell, calls, requests>>

-----------------------------------------------------------------------------

\* What a run is about to read of an item's files is there, whoever else cleans up
\* (ItemStages).
UsedFilesExist == S!UsedFilesExist

\* No row of the call runs out of attempts unnoticed, whatever it raises (ItemStages);
\* its requests are as many as the tries, its result says what they cost in all, and
\* nothing but text that was neither cut nor withheld is a success (ModelClient).
CallsAreCounted ==
  C!RetriableHasAttempts /\ V!TypeOK /\ V!TriesAreBounded /\ V!SpendIsWhole /\ V!OnlyAnswersSucceed
=============================================================================
