----------------------------- MODULE CaptionCalls -----------------------------
(***************************************************************************)
(* The captioning job (core/caption.py, and platforms/instagram/embedder.py *)
(* for posts): the backlog is worked through some conversations at a time, *)
(* each in calls that hold so many files and videos, around posts no more  *)
(* than a window; what each answers is put on its posts. *)
(***************************************************************************)
EXTENDS Integers, Sequences, FiniteSets, FiniteSetsExt, SequencesExt

CONSTANTS
  Root,         \* of each item, the item its conversation starts with; later items are newer
  Files,        \* of each item, media_count
  Late,         \* items archived later on
  Videos,       \* items with a video or an animated GIF
  Kinds,        \* "thread": whole conversations; "post": every item by itself
  MaxFiles,     \* EMBED_MAX_MEDIA_PER_CALL
  MaxVideos,    \* VLM_MAX_VIDEOS_PER_CALL
  Window,       \* VLM_MAX_CONTEXT_POSTS
  Concurrency,  \* EMBED_CONCURRENCY
  Batch,        \* CAPTION_BATCH_CONVERSATIONS
  MaxAttempts,  \* CAPTION_MAX_ATTEMPTS
  Limits,       \* limits a run is given; Unlimited for none
  MaxFaults     \* bound: deaths, restores, calls that raise, and runs with retry_failed or retry_refused,
                \* which no schedule starts

VARIABLES
  kind,       \* the job; constant
  archived,   \* items whose archive_status is 'archived'
  caption,    \* items.caption_status
  attempts,   \* items.caption_attempts
  run,        \* CaptionJob.run
  faults

vars == <<kind, archived, caption, attempts, run, faults>>

-----------------------------------------------------------------------------

Item == DOMAIN Root

Unlimited == Cardinality(Item) + 1

Idle == [at |-> "idle", failed |-> FALSE, refused |-> FALSE, left |-> Unlimited, roots |-> <<>>, batch |-> {},
         pending |-> {}, texts |-> {}, calls |-> {}]

Init ==
  /\ kind \in Kinds
  /\ archived = Item \ Late /\ caption = [i \in Item |-> "pending"] /\ attempts = [i \in Item |-> 0]
  /\ run = Idle /\ faults = 0

-----------------------------------------------------------------------------
(* The plan                                                                *)

\* _caption_statuses
Asked(r) == {"pending"} \cup (IF r.failed THEN {"failed"} ELSE {}) \cup (IF r.refused THEN {"refused"} ELSE {})

Pending(r) == {i \in archived : caption[i] \in Asked(r) /\ attempts[i] < MaxAttempts}

\* Videos first, then the newest.
Before(i, j) == IF i \in Videos <=> j \in Videos THEN i > j ELSE i \in Videos

\* pending_caption_roots
PendingRoots(r) ==
  LET of(c) == {i \in Pending(r) : Root[i] = c}
      first(c, d) == LET v == of(c) \cap Videos # {}
                         w == of(d) \cap Videos # {}
                     IN  IF v = w THEN Max(of(c)) > Max(of(d)) ELSE v
  IN  SetToSortSeq({Root[i] : i \in Pending(r)}, first)

\* pending[:cap]
Capped(S, n) == {i \in S : Cardinality({j \in S : j # i /\ Before(j, i)}) < n}

\* mutant: a long thread is its beginning.
ContextFirst(thread, targets) == {i \in thread : Cardinality({j \in thread : j < i}) < Window}

\* _cap_context
Context(thread, targets) ==
  LET at(i) == Cardinality({j \in thread : j < i})
      span == at(Max(targets)) - at(Min(targets)) + 1
      start == Max({0, at(Min(targets)) - Max({0, (Window - span) \div 2})})
  IN  IF Cardinality(thread) <= Window THEN thread
      ELSE IF targets = {} THEN ContextFirst(thread, targets)
      ELSE {i \in thread : at(i) \in start .. start + Window - 1}

\* Files of S, _video_count of each a video is among.
FilesOf(S) == MapThenSumSet(LAMBDA i : Files[i], S)

\* mutant: videos are files like any other.
FitsFiles(S) == FilesOf(S) <= MaxFiles

Fits(S) == FilesOf(S) <= MaxFiles /\ FilesOf(S \cap Videos) <= MaxVideos

\* _plan_calls: the targets with media in the order of the thread, an item whole.
PlanCalls(S) ==
  LET add(chunks, i) ==
        IF chunks # <<>> /\ Fits(Last(chunks) \cup {i})
        THEN Append(Front(chunks), Last(chunks) \cup {i}) ELSE Append(chunks, {i})
  IN  ToSet(FoldLeft(add, <<>>, SetToSortSeq({i \in S : Files[i] > 0}, <)))

-----------------------------------------------------------------------------
(* Other jobs                                                              *)

Archive(i) ==
  /\ i \notin archived
  /\ archived' = archived \cup {i}
  /\ UNCHANGED <<kind, caption, attempts, run, faults>>

\* restore_content: an item whose files are not there is archived once more.
Restore(i) ==
  /\ i \in archived /\ faults < MaxFaults
  /\ archived' = archived \ {i} /\ faults' = faults + 1
  /\ UNCHANGED <<kind, caption, attempts, run>>

Die ==
  /\ run.at # "idle" /\ faults < MaxFaults
  /\ run' = Idle /\ faults' = faults + 1
  /\ UNCHANGED <<kind, archived, caption, attempts>>

-----------------------------------------------------------------------------
(* CaptionJob.run                                                          *)

Start(failed, refused, limit) ==
  /\ run.at = "idle" /\ (failed \/ refused => faults < MaxFaults)
  /\ faults' = IF failed \/ refused THEN faults + 1 ELSE faults
  /\ LET r == [Idle EXCEPT !.at = "batch", !.failed = failed, !.refused = refused, !.left = limit]
     IN  run' = [r EXCEPT !.roots = PendingRoots(r)]
  /\ UNCHANGED <<kind, archived, caption, attempts>>

\* The next conversations, and what is pending in them.
Select ==
  /\ run.at = "batch"
  /\ LET batch == ToSet(SubSeq(run.roots, 1, Min({Batch, Len(run.roots)})))
         pending == Capped({i \in Pending(run) : Root[i] \in batch}, run.left)
         rest == SubSeq(run.roots, Batch + 1, Len(run.roots))
     IN  run' = IF run.roots = <<>> \/ run.left = 0 THEN Idle
                ELSE [run EXCEPT !.roots = rest, !.pending = pending, !.batch = {Root[i] : i \in pending},
                                 !.left = IF @ = Unlimited THEN @ ELSE @ - Cardinality(pending),
                                 !.at = IF pending = {} THEN "batch" ELSE "load"]
  /\ UNCHANGED <<kind, archived, caption, attempts, faults>>

Call(S) == [at |-> "waits", targets |-> S, left |-> S, ask |-> {}, status |-> "none"]

\* _load, and the calls of every conversation.
Load ==
  /\ run.at = "load"
  /\ LET thread(c) == {i \in archived : Root[i] = c}
         targets(c) == run.pending \cap Context(thread(c), run.pending \cap thread(c))
         threads == {targets(c) : c \in run.batch}
         chunks == IF kind = "thread" THEN UNION {PlanCalls(S) : S \in threads} ELSE {{i} : i \in run.pending}
     IN  run' = [run EXCEPT !.at = "calls", !.pending = {}, !.batch = {}, !.calls = {Call(S) : S \in chunks},
                            !.texts = IF kind = "thread" THEN {i \in UNION threads : Files[i] = 0} ELSE {}]
  /\ UNCHANGED <<kind, archived, caption, attempts, faults>>

Marked(S, status) == caption' = [i \in Item |-> IF i \in S THEN status ELSE caption[i]]

\* mark_caption_failed
Failed(i) ==
  /\ attempts' = [attempts EXCEPT ![i] = @ + 1]
  /\ caption' = [caption EXCEPT ![i] = IF attempts[i] + 1 >= MaxAttempts THEN "exhausted" ELSE "failed"]

\* Items without media are captioned before any call.
Text ==
  /\ run.at = "calls" /\ run.texts # {}
  /\ Marked({Min(run.texts)}, "done")
  /\ run' = [run EXCEPT !.texts = @ \ {Min(@)}]
  /\ UNCHANGED <<kind, archived, attempts, faults>>

\* A batch is over with its calls.
BatchEnds ==
  /\ run.at = "calls" /\ run.texts = {} /\ run.calls = {}
  /\ run' = [run EXCEPT !.at = "batch"]
  /\ UNCHANGED <<kind, archived, caption, attempts, faults>>

-----------------------------------------------------------------------------
(* _run_call                                                               *)

\* A call that took a step, or is over.
Went(c, d) == run' = [run EXCEPT !.calls = (@ \ {c}) \cup {d}]
Over(c) == run' = [run EXCEPT !.calls = @ \ {c}]

Calling(c, at) == c \in run.calls /\ c.at = at

\* The semaphore.
Enter(c) ==
  /\ run.texts = {} /\ Calling(c, "waits")
  /\ Cardinality({d \in run.calls : d.at # "waits"}) < Concurrency
  /\ Went(c, [c EXCEPT !.at = "collect"])
  /\ UNCHANGED <<kind, archived, caption, attempts, faults>>

\* The next target's media: some to send, none there any more, or a failure.
Collect(c) ==
  /\ Calling(c, "collect")
  /\ LET i == Min(c.left)
         next(ask) == LET d == [c EXCEPT !.left = @ \ {i}, !.ask = ask]
                      IN  IF d.left # {} THEN Went(c, d) ELSE IF ask = {} THEN Over(c) ELSE Went(c, [d EXCEPT !.at = "ask"])
     IN  \/ next(c.ask \cup {i}) /\ UNCHANGED <<caption, attempts>>
         \/ next(c.ask) /\ Marked({i}, "done") /\ UNCHANGED attempts
         \/ next(c.ask) /\ Failed(i)
  /\ UNCHANGED <<kind, archived, faults>>

\* describe_thread, and _record_trace; of a post, each of its files, the worst of
\* which it comes to (_settle).
Describe(c) ==
  /\ Calling(c, "ask")
  /\ \E status \in {"success", "refused", "failed"} : Went(c, [c EXCEPT !.at = "apply", !.left = c.ask, !.status = status])
  /\ UNCHANGED <<kind, archived, caption, attempts, faults>>

\* _apply: the next target.  The model may have left it out.
Apply(c) ==
  /\ Calling(c, "apply")
  /\ LET i == Min(c.left) IN
     /\ IF c.left = {i} THEN Over(c) ELSE Went(c, [c EXCEPT !.left = @ \ {i}])
     /\ \/ c.status = "success" /\ Marked({i}, "done") /\ UNCHANGED attempts
        \/ c.status = "refused" /\ Marked({i}, "refused") /\ UNCHANGED attempts
        \/ c.status = "failed" /\ Failed(i)
  /\ UNCHANGED <<kind, archived, faults>>

\* Anything in a call raises, and fails every target of it.
Raise(c) ==
  /\ c.at \notin {"waits", "crash"} /\ c \in run.calls /\ faults < MaxFaults
  /\ Went(c, [c EXCEPT !.at = "crash", !.left = c.targets]) /\ faults' = faults + 1
  /\ UNCHANGED <<kind, archived, caption, attempts>>

CrashMark(c) ==
  /\ Calling(c, "crash")
  /\ LET i == Min(c.left) IN
     /\ Failed(i)
     /\ IF c.left = {i} THEN Over(c) ELSE Went(c, [c EXCEPT !.left = @ \ {i}])
  /\ UNCHANGED <<kind, archived, faults>>

CallStep(c) == Enter(c) \/ Collect(c) \/ Describe(c) \/ Apply(c) \/ CrashMark(c)

Job == Select \/ Load \/ Text \/ BatchEnds \/ \E c \in run.calls : CallStep(c)

Starts == \E failed, refused \in BOOLEAN, limit \in Limits : Start(failed, refused, limit)

Next ==
  \/ Job \/ Starts \/ Die
  \/ \E c \in run.calls : Raise(c)
  \/ \E i \in Item : Archive(i) \/ Restore(i)

\* A run goes on while its process lives, and the schedule has another one follow.
Spec == Init /\ [][Next]_vars /\ WF_vars(Job \/ Starts)

-----------------------------------------------------------------------------
(* Properties                                                              *)

TypeOK ==
  /\ kind \in Kinds /\ archived \subseteq Item
  /\ caption \in [Item -> {"pending", "failed", "refused", "exhausted", "done"}] /\ attempts \in [Item -> Nat]
  /\ run.at \in {"idle", "batch", "load", "calls"} /\ run.left \in 0 .. Unlimited
  /\ run.pending \subseteq Item /\ run.texts \subseteq Item

\* No call holds more files or videos than a call may, but for one item that does by
\* itself, and no item is in two calls at once (caption.py:191-199, 22-23).
CallsFit ==
  \A c \in run.calls :
    /\ Cardinality(c.targets) > 1 => FilesOf(c.targets) <= MaxFiles /\ FilesOf(c.targets \cap Videos) <= MaxVideos
    /\ \A d \in run.calls : c.targets \cap d.targets # {} => c = d

\* The backlog is worked off: a target that a cap or the window left out of one run
\* is in a later one (caption.py:180-182).
Backlog == \E i \in archived : caption[i] = "pending" /\ attempts[i] < MaxAttempts

BacklogDrains == Backlog ~> ~Backlog
=============================================================================
