-------------------------- MODULE ItemPromisesProofs --------------------------
(***************************************************************************)
(* What the stages promise of an item, while no job of a platform runs     *)
(* twice at once.                                                          *)
(***************************************************************************)
EXTENDS ItemStagesProofs

\* Nobody else runs one of these jobs: the queue runs one job of a platform at a
\* time (JobQueueProofs!OneRun), and nobody runs one of them from the shell.
Alone(jobs) == \A r, s \in Runner : Jobs[r] \cap jobs # {} /\ Jobs[s] \cap jobs # {} => r = s

Acts(r) ==
  \/ \E job \in Job, again \in SUBSET Again : Begin(r, job, again)
  \/ Crash(r) \/ CallRaises(r) \/ Archive(r) \/ Continue(r)

-----------------------------------------------------------------------------
(* Captions                                                                *)

\* What a captioning run will still settle, and is not settled.
Ahead(l) ==
  l.todo \cup (IF l.pc \in Collecting \cup {"apply"} THEN l.left ELSE {})
         \cup (IF l.pc \in Collecting \cup {"describe"} THEN l.usable ELSE {}) \cup InHand(l)

Unsettled == {"pending", "failed", "refused"}

CaptionDue == \A r \in Runner : Captions(run[r]) => \A s \in Ahead(run[r]) : row[s.id].caption \in Unsettled

AttemptsInv ==
  /\ RetriableHasAttempts /\ CaptionDue
  /\ \A i \in Item : row[i].caption = "unavailable" => row[i].tries < MaxAttempts

\* What a step does to captions: nothing; or an item arrives or is restored; or
\* the captioning run settles one of its items.
CaptionKept(i) == row'[i].caption = row[i].caption /\ row'[i].tries = row[i].tries

CaptionWaits(r) ==
  /\ \A i \in Item : CaptionKept(i)
  /\ Captions(run'[r]) => \A t \in Ahead(run'[r]) : row[t.id].caption \in Unsettled

CaptionOpens(i) ==
  /\ run' = run /\ \A j \in Item \ {i} : CaptionKept(j)
  /\ \/ ~Recorded(i) /\ row'[i].caption \in {"pending", "unavailable", "skipped"} /\ row'[i].tries = 0
     \/ CaptionKept(i)
     \/ row[i].gone /\ row[i].caption = "unavailable" /\ row'[i].caption = "pending" /\ row'[i].tries = row[i].tries

Spends(i) ==
  /\ row'[i].tries = row[i].tries + 1
  /\ row'[i].caption = IF row[i].tries + 1 >= MaxAttempts THEN "exhausted" ELSE "failed"

CaptionSettles(r, i) ==
  /\ Captions(run[r]) /\ \A j \in Item \ {i} : CaptionKept(j)
  /\ Captions(run'[r]) => \A t \in Ahead(run'[r]) : t.id # i /\ row[t.id].caption \in Unsettled
  /\ \/ row[i].caption \in Unsettled /\ row'[i].caption \in {"done", "refused"} /\ row'[i].tries = row[i].tries
     \/ row[i].caption \in Unsettled /\ Spends(i)
     \/ run[r].pc = "crash" /\ (\E s \in run[r].left : s.id = i) /\ Spends(i)

CaptionEffect(r) ==
  /\ \A q \in Runner \ {r} : run'[q] = run[q]
  /\ CaptionWaits(r) \/ \E i \in Item : CaptionOpens(i) \/ CaptionSettles(r, i)

\* Which fields the last step of a run wrote.
LEMMA TurnFields ==
  ASSUME IInv, NEW r \in Runner, NEW l, run' = [run EXCEPT ![r] = l]
  PROVE  run'[r] = l /\ \A q \in Runner \ {r} : run'[q] = run[q]
  BY DEF IInv, TypeOK

LEMMA GoesFields ==
  ASSUME IInv, NEW r \in Runner, NEW pc, Goes(r, pc) \/ Settled(r, pc)
  PROVE  /\ \A q \in Runner \ {r} : run'[q] = run[q]
         /\ run'[r].pc = pc /\ run'[r].job = run[r].job /\ run'[r].todo = run[r].todo /\ run'[r].call = run[r].call
         /\ run'[r].left = run[r].left /\ run'[r].usable = run[r].usable
  BY DEF Goes, Settled, IInv, TypeOK, Run

LEMMA SelectFields ==
  ASSUME IInv, NEW r \in Runner, Select(r) \/ Tidy(r)
  PROVE  /\ \A q \in Runner \ {r} : run'[q] = run[q]
         /\ run'[r].job = run[r].job /\ UNCHANGED <<row, disk, indexed, sent, crashes>>
         /\ run[r].pc = "tidy" => /\ run'[r].pc = "clean"
                                 /\ run'[r].todo = {Read(i) : i \in {j \in Item : Cleanable(j)}}
         /\ run[r].pc = "select" =>
              /\ run'[r].pc = IF run[r].job = "caption" THEN "batch" ELSE "next"
              /\ run'[r].todo = {Read(i) : i \in {j \in Item : Pending(j, run[r].job, run[r].again)}}
  <1> DEFINE todo == IF run[r].pc = "tidy" THEN {Read(i) : i \in {j \in Item : Cleanable(j)}}
                     ELSE {Read(i) : i \in {j \in Item : Pending(j, run[r].job, run[r].again)}}
             pc == IF run[r].pc = "tidy" THEN "clean" ELSE IF run[r].job = "caption" THEN "batch" ELSE "next"
  <1>1. run' = [run EXCEPT ![r].todo = todo, ![r].pc = pc] /\ UNCHANGED <<row, disk, indexed, sent, crashes>>
    BY DEF Select, Tidy
  <1> HIDE DEF todo, pc
  <1>2. /\ run'[r].todo = todo /\ run'[r].pc = pc /\ run'[r].job = run[r].job
        /\ \A q \in Runner \ {r} : run'[q] = run[q]
    BY <1>1 DEF IInv, TypeOK, Run
  <1>3. QED
    BY <1>1, <1>2 DEF todo, pc

\* A run that takes an item from its list.
LEMMA TakeFields ==
  ASSUME IInv, NEW r \in Runner, Take(r) \/ Unlink(r)
  PROVE  \E s \in run[r].todo :
           /\ \A q \in Runner \ {r} : run'[q] = run[q]
           /\ run'[r].todo = run[r].todo \ {s} /\ run'[r].item = s /\ run'[r].job = run[r].job
           /\ \/ /\ Take(r) /\ run'[r].pc = IF run[r].job = "embed" THEN "insert" ELSE "ensure"
                 /\ UNCHANGED <<row, disk, indexed, sent, crashes>>
              \/ /\ Unlink(r) /\ run'[r].pc = "unlinked" /\ disk' = disk \ {s.id}
                 /\ UNCHANGED <<row, indexed, sent, crashes>>
  <1>1. CASE Take(r)
    <2> DEFINE pc == IF run[r].job = "embed" THEN "insert" ELSE "ensure"
    <2>1. PICK s \in run[r].todo : run' = [run EXCEPT ![r].todo = @ \ {s}, ![r].item = s, ![r].n = 1, ![r].pc = pc]
      BY <1>1 DEF Take
    <2> HIDE DEF pc
    <2>2. /\ run'[r].todo = run[r].todo \ {s} /\ run'[r].item = s /\ run'[r].job = run[r].job /\ run'[r].pc = pc
          /\ \A q \in Runner \ {r} : run'[q] = run[q]
      BY <2>1 DEF IInv, TypeOK, Run
    <2>3. QED
      BY <1>1, <2>2 DEF Take, pc
  <1>2. CASE Unlink(r)
    <2>1. PICK s \in run[r].todo : disk' = disk \ {s.id}
                 /\ run' = [run EXCEPT ![r].todo = @ \ {s}, ![r].item = s, ![r].pc = "unlinked"]
      BY <1>2 DEF Unlink
    <2>2. /\ run'[r].todo = run[r].todo \ {s} /\ run'[r].item = s /\ run'[r].job = run[r].job
          /\ run'[r].pc = "unlinked" /\ \A q \in Runner \ {r} : run'[q] = run[q]
      BY <2>1 DEF IInv, TypeOK, Run
    <2>3. QED
      BY <1>2, <2>1, <2>2 DEF Unlink
  <1>3. QED
    BY <1>1, <1>2

LEMMA HasMediaFields ==
  ASSUME IInv, NEW r \in Runner, run[r].item \in Snapshot, NEW files \in BOOLEAN, WithMedia(r, files),
         run[r].job \in {"archive", "upload", "caption"}
  PROVE  /\ \A q \in Runner \ {r} : run'[q] = run[q]
         /\ run'[r].pc = IF run[r].job = "archive" THEN "next" ELSE IF run[r].job = "upload" THEN "send" ELSE "have"
         /\ run[r].job # "archive" => run'[r].item.id = run[r].item.id /\ run'[r].item.paths = files
                                      /\ run'[r].item.media = run[r].item.media
         /\ run'[r].job = run[r].job /\ run'[r].todo = run[r].todo /\ run'[r].call = run[r].call
         /\ run'[r].left = run[r].left /\ run'[r].usable = run[r].usable
  <1> DEFINE item == IF run[r].job = "archive" THEN None ELSE [run[r].item EXCEPT !.paths = files]
             pc == CASE run[r].job = "archive" -> "next" [] run[r].job = "upload" -> "send" [] run[r].job = "caption" -> "have"
  <1>1. run' = [run EXCEPT ![r].item = item, ![r].pc = pc]
    BY DEF WithMedia
  <1>2. pc = IF run[r].job = "archive" THEN "next" ELSE IF run[r].job = "upload" THEN "send" ELSE "have"
    OBVIOUS
  <1>3. run[r].job # "archive" => item.id = run[r].item.id /\ item.paths = files /\ item.media = run[r].item.media
    BY DEF Snapshot
  <1> HIDE DEF item, pc
  <1>4. QED
    BY <1>1, <1>2, <1>3 DEF IInv, TypeOK, Run

-----------------------------------------------------------------------------
(* What a captioning run does to captions, step by step                    *)

\* A captioning run is somewhere in its captions.
LEMMA WhereCaptions ==
  ASSUME IInv, NEW r \in Runner
  PROVE  /\ run[r] \in Run /\ Placed(r, run[r]) /\ Apart(run[r])
         /\ run[r].pc \in {"batch", "collect", "have", "describe", "apply", "crash"} => Captions(run[r])
         /\ run[r].job = "caption" /\ run[r].pc \in {"ensure", "fetched"} => Captions(run[r])
         /\ Captions(run[r]) => "caption" \in Jobs[r]
         /\ \A s \in Held(run[r]) : s.id \in Item /\ Recorded(s.id) /\ row[s.id] \in Row
  <1>1. run[r] \in Run /\ Placed(r, run[r]) /\ Apart(run[r]) /\ Known(run[r])
    BY Begun
  <1>2. run[r].pc \in {"batch", "collect", "have", "describe", "apply", "crash"} => run[r].job = "caption"
    BY <1>1, ConstantsAssumption DEF Placed, Places, Job
  <1>3. \A s \in Held(run[r]) : s.id \in Item
    BY <1>1 DEF Placed, Held, InHand, Run, Snapshot
  <1>4. \A s \in Held(run[r]) : Recorded(s.id) /\ row[s.id] \in Row
    BY <1>1, <1>3 DEF Known, Recorded, IInv, TypeOK
  <1>5. QED
    BY <1>1, <1>2, <1>3, <1>4 DEF Captions, Collecting, Placed

LEMMA MarksCaption ==
  ASSUME IInv, NEW i \in Item
  PROVE  /\ MarkCaptioned(i) =>
              row'[i].caption = "done" /\ row'[i].tries = row[i].tries /\ \A j \in Item \ {i} : CaptionKept(j)
         /\ MarkCaptionRefused(i) =>
              row'[i].caption = "refused" /\ row'[i].tries = row[i].tries /\ \A j \in Item \ {i} : CaptionKept(j)
         /\ MarkCaptionFailed(i) => Spends(i) /\ \A j \in Item \ {i} : CaptionKept(j)
  BY DEF IInv, TypeOK, Row, MarkCaptioned, MarkCaptionRefused, MarkCaptionFailed, CaptionKept, Spends

LEMMA CaptionSelects ==
  ASSUME IInv, CaptionDue, NEW r \in Runner, Select(r), run[r].job = "caption"
  PROVE  CaptionEffect(r)
  <1> DEFINE todo == {Read(i) : i \in {j \in Item : Pending(j, run[r].job, run[r].again)}}
  <1>1. run' = [run EXCEPT ![r].todo = todo, ![r].pc = "batch"] /\ row' = row
    BY DEF Select
  <1>2. \A s \in todo : row[s.id].caption \in Unsettled
    BY ConstantsAssumption, WhereCaptions DEF Read, Pending, Unsettled, Run
  <1> HIDE DEF todo
  <1>3. run'[r].pc = "batch" /\ run'[r].todo = todo /\ \A q \in Runner \ {r} : run'[q] = run[q]
    BY <1>1 DEF IInv, TypeOK, Run
  <1>4. CaptionWaits(r)
    BY <1>1, <1>2, <1>3 DEF CaptionWaits, CaptionKept, Ahead, InHand, Holding, Collecting
  <1>5. QED
    BY <1>3, <1>4 DEF CaptionEffect

LEMMA CaptionTexts ==
  ASSUME IInv, CaptionDue, NEW r \in Runner, CaptionText(r)
  PROVE  CaptionEffect(r)
  <1>0. PICK s \in run[r].todo : MarkCaptioned(s.id) /\ run' = [run EXCEPT ![r].todo = @ \ {s}]
    BY DEF CaptionText
  <1>1. run[r].pc = "batch" /\ Captions(run[r]) /\ Apart(run[r]) /\ s.id \in Item
    BY WhereCaptions DEF CaptionText, Held
  <1>2. run'[r].pc = "batch" /\ run'[r].todo = run[r].todo \ {s} /\ \A q \in Runner \ {r} : run'[q] = run[q]
    BY <1>0, <1>1 DEF IInv, TypeOK, Run
  <1>3. \A t \in run[r].todo : row[t.id].caption \in Unsettled
    BY <1>1 DEF CaptionDue, Ahead
  <1>4. \A t \in run'[r].todo : t.id # s.id
    BY <1>1, <1>2 DEF Apart, Single
  <1>5. CaptionSettles(r, s.id)
    BY <1>0, <1>1, <1>2, <1>3, <1>4, MarksCaption DEF CaptionSettles, Ahead, InHand, Holding, Collecting
  <1>6. QED
    BY <1>1, <1>2, <1>5 DEF CaptionEffect

LEMMA CaptionPlans ==
  ASSUME IInv, CaptionDue, NEW r \in Runner, PlanCall(r)
  PROVE  CaptionEffect(r)
  <1>0. PICK c \in SUBSET run[r].todo :
          run' = [run EXCEPT ![r].todo = @ \ c, ![r].call = c, ![r].left = c, ![r].usable = {}, ![r].pc = "collect"]
    BY DEF PlanCall
  <1>1. run[r].pc = "batch" /\ Captions(run[r]) /\ row' = row
    BY WhereCaptions DEF PlanCall
  <1>2. /\ run'[r].pc = "collect" /\ run'[r].todo = run[r].todo \ c /\ run'[r].left = c /\ run'[r].usable = {}
        /\ \A q \in Runner \ {r} : run'[q] = run[q]
    BY <1>0 DEF IInv, TypeOK, Run
  <1>3. \A t \in run[r].todo : row[t.id].caption \in Unsettled
    BY <1>1 DEF CaptionDue, Ahead
  <1>4. CaptionWaits(r)
    BY <1>1, <1>2, <1>3 DEF CaptionWaits, CaptionKept, Ahead, InHand, Holding, Collecting
  <1>5. QED
    BY <1>2, <1>4 DEF CaptionEffect

LEMMA CaptionCollects ==
  ASSUME IInv, CaptionDue, NEW r \in Runner, Collect(r)
  PROVE  CaptionEffect(r)
  <1>1. run[r].pc = "collect" /\ Captions(run[r]) /\ row' = row
    BY WhereCaptions DEF Collect
  <1>2. \A t \in run[r].todo \cup run[r].left \cup run[r].usable : row[t.id].caption \in Unsettled
    BY <1>1 DEF CaptionDue, Ahead, Collecting
  <1>3. /\ run'[r].todo = run[r].todo /\ run'[r].usable = run[r].usable /\ \A q \in Runner \ {r} : run'[q] = run[q]
        /\ \/ run'[r].pc = "ensure" /\ run'[r].item \in run[r].left /\ run'[r].left \subseteq run[r].left
           \/ run'[r].pc \in {"batch", "describe"} /\ run'[r].left = run[r].left
    <2>1. CASE \E pc \in {"batch", "describe"} : Goes(r, pc)
      BY <2>1, GoesFields
    <2>2. ASSUME NEW s \in run[r].left, run' = [run EXCEPT ![r].left = @ \ {s}, ![r].item = s, ![r].pc = "ensure"]
          PROVE  /\ run'[r].todo = run[r].todo /\ run'[r].usable = run[r].usable
                 /\ \A q \in Runner \ {r} : run'[q] = run[q]
                 /\ run'[r].pc = "ensure" /\ run'[r].item = s /\ run'[r].left = run[r].left \ {s}
      BY <2>2 DEF IInv, TypeOK, Run
    <2>3. QED
      BY <2>1, <2>2 DEF Collect, Goes
  <1>4. CaptionWaits(r)
    BY <1>1, <1>2, <1>3 DEF CaptionWaits, CaptionKept, Ahead, InHand, Holding, Collecting
  <1>5. QED
    BY <1>3, <1>4 DEF CaptionEffect

LEMMA CaptionEnsures ==
  ASSUME IInv, CaptionDue, NEW r \in Runner, EnsureReturns(r) \/ EnsureFetches(r) \/ EnsureMarks(r), run[r].job = "caption"
  PROVE  CaptionEffect(r)
  <1>1. run[r].pc \in {"ensure", "fetched"} /\ Captions(run[r]) /\ run[r].item \in Snapshot /\ Hand(r) \in Item
    BY WhereCaptions, HandIsRecorded DEF EnsureReturns, EnsureFetches, EnsureMarks, Holding
  <1>2. \A t \in run[r].todo \cup run[r].left \cup run[r].usable \cup {run[r].item} : row[t.id].caption \in Unsettled
    BY <1>1 DEF CaptionDue, Ahead, Collecting, InHand, Holding
  <1>3. \A i \in Item : CaptionKept(i)
    <2>1. row' = row \/ MarkArchived(Hand(r), TRUE)
      BY DEF EnsureReturns, EnsureFetches, EnsureMarks
    <2>2. QED
      BY <1>1, <2>1 DEF MarkArchived, CaptionKept, IInv, TypeOK, Row
  <1>4. /\ run'[r].todo = run[r].todo /\ run'[r].left = run[r].left /\ run'[r].usable = run[r].usable
        /\ run'[r].pc \in {"have", "fetched"} /\ run'[r].item.id = run[r].item.id
        /\ \A q \in Runner \ {r} : run'[q] = run[q]
    <2>1. CASE EnsureFetches(r)
      BY <2>1 DEF EnsureFetches, Goes, IInv, TypeOK, Run
    <2>2. CASE EnsureReturns(r) \/ EnsureMarks(r)
      <3>1. PICK files \in BOOLEAN : WithMedia(r, files)
        BY <2>2 DEF EnsureReturns, EnsureMarks
      <3>2. QED
        BY <1>1, <3>1, HasMediaFields
    <2>3. QED
      BY <2>1, <2>2
  <1>5. CaptionWaits(r)
    BY <1>2, <1>3, <1>4 DEF CaptionWaits, Ahead, InHand, Holding, Collecting
  <1>6. QED
    BY <1>4, <1>5 DEF CaptionEffect

\* The item in hand is captioned on its text, or its download failed.
LEMMA CaptionSettlesHand ==
  ASSUME IInv, CaptionDue, NEW r \in Runner, CollectUnusable(r) \/ EnsureRaises(r), run[r].job = "caption"
  PROVE  CaptionEffect(r)
  <1>1. run[r].pc \in {"ensure", "have"} /\ Captions(run[r]) /\ Apart(run[r]) /\ Hand(r) \in Item
    BY WhereCaptions, HandIsRecorded DEF CollectUnusable, EnsureRaises, Holding
  <1>2. \A t \in run[r].todo \cup run[r].left \cup run[r].usable \cup {run[r].item} : row[t.id].caption \in Unsettled
    BY <1>1 DEF CaptionDue, Ahead, Collecting, InHand, Holding
  <1>3. (MarkCaptioned(Hand(r)) \/ MarkCaptionFailed(Hand(r))) /\ Settled(r, "collect")
    BY DEF CollectUnusable, EnsureRaises
  <1>4. /\ run'[r].todo = run[r].todo /\ run'[r].left = run[r].left /\ run'[r].usable = run[r].usable
        /\ run'[r].pc = "collect" /\ \A q \in Runner \ {r} : run'[q] = run[q]
    BY <1>3, GoesFields
  <1>5. \A t \in run[r].todo \cup run[r].left \cup run[r].usable : t.id # Hand(r)
    BY <1>1 DEF Apart, Separate, InHand, Holding, Collecting, Hand
  <1>6. CaptionSettles(r, Hand(r))
    BY <1>1, <1>2, <1>3, <1>4, <1>5, MarksCaption DEF CaptionSettles, Ahead, InHand, Holding, Collecting, Hand
  <1>7. QED
    BY <1>1, <1>4, <1>6 DEF CaptionEffect

LEMMA CaptionUses ==
  ASSUME IInv, CaptionDue, NEW r \in Runner, CollectUsable(r) \/ CallRaises(r)
  PROVE  CaptionEffect(r)
  <1>1. run[r].pc \in {"have", "describe", "apply"} /\ Captions(run[r]) /\ row' = row
    BY WhereCaptions DEF CollectUsable, CallRaises
  <1>2. \A t \in run[r].todo : row[t.id].caption \in Unsettled
    BY <1>1 DEF CaptionDue, Ahead
  <1>3. run[r].pc = "have" => \A t \in run[r].left \cup run[r].usable \cup {run[r].item} : row[t.id].caption \in Unsettled
    BY <1>1 DEF CaptionDue, Ahead, Collecting, InHand, Holding
  <1>4. /\ run'[r].todo = run[r].todo /\ \A q \in Runner \ {r} : run'[q] = run[q]
        /\ \/ run'[r].pc = "crash"
           \/ /\ run'[r].pc = "collect" /\ run[r].pc = "have"
              /\ run'[r].left = run[r].left /\ run'[r].usable = run[r].usable \cup {run[r].item}
    BY DEF CollectUsable, CallRaises, IInv, TypeOK, Run
  <1>5. CaptionWaits(r)
    BY <1>1, <1>2, <1>3, <1>4 DEF CaptionWaits, CaptionKept, Ahead, InHand, Holding, Collecting
  <1>6. QED
    BY <1>4, <1>5 DEF CaptionEffect

LEMMA CaptionDescribes ==
  ASSUME IInv, CaptionDue, NEW r \in Runner, Describe(r)
  PROVE  CaptionEffect(r)
  <1>1. run[r].pc = "describe" /\ Captions(run[r]) /\ row' = row
    BY WhereCaptions DEF Describe
  <1>2. \A t \in run[r].todo \cup run[r].usable : row[t.id].caption \in Unsettled
    BY <1>1 DEF CaptionDue, Ahead
  <1>3. /\ run'[r].todo = run[r].todo /\ run'[r].left = run[r].usable /\ run'[r].pc = "apply"
        /\ \A q \in Runner \ {r} : run'[q] = run[q]
    BY DEF Describe, IInv, TypeOK, Run
  <1>4. CaptionWaits(r)
    BY <1>1, <1>2, <1>3 DEF CaptionWaits, CaptionKept, Ahead, InHand, Holding, Collecting
  <1>5. QED
    BY <1>3, <1>4 DEF CaptionEffect

LEMMA CaptionApplies ==
  ASSUME IInv, CaptionDue, NEW r \in Runner, Apply(r) \/ CrashMarks(r)
  PROVE  CaptionEffect(r)
  <1>1. run[r].pc \in {"apply", "crash"} /\ Captions(run[r]) /\ Apart(run[r])
    BY WhereCaptions DEF Apply, CrashMarks
  <1>2. \A t \in run[r].todo : row[t.id].caption \in Unsettled
    BY <1>1 DEF CaptionDue, Ahead
  <1>3. run[r].pc = "apply" => \A t \in run[r].left : row[t.id].caption \in Unsettled
    BY <1>1 DEF CaptionDue, Ahead
  <1>4. CASE Goes(r, "batch") /\ row' = row
    <2>1. run'[r].pc = "batch" /\ run'[r].todo = run[r].todo /\ \A q \in Runner \ {r} : run'[q] = run[q]
      BY <1>4, GoesFields
    <2>2. CaptionWaits(r)
      BY <1>2, <1>4, <2>1 DEF CaptionWaits, CaptionKept, Ahead, InHand, Holding, Collecting
    <2>3. QED
      BY <2>1, <2>2 DEF CaptionEffect
  <1>5. ASSUME NEW s \in run[r].left, run' = [run EXCEPT ![r].left = @ \ {s}],
               \/ run[r].pc = "apply" /\ (MarkCaptioned(s.id) \/ MarkCaptionRefused(s.id) \/ MarkCaptionFailed(s.id))
               \/ run[r].pc = "crash" /\ MarkCaptionFailed(s.id)
        PROVE  CaptionEffect(r)
    <2>1. s.id \in Item
      BY WhereCaptions DEF Held
    <2>2. /\ run'[r].pc = run[r].pc /\ run'[r].todo = run[r].todo /\ run'[r].left = run[r].left \ {s}
          /\ \A q \in Runner \ {r} : run'[q] = run[q]
      BY <1>5 DEF IInv, TypeOK, Run
    <2>3. \A t \in run[r].todo : t.id # s.id
      BY <1>1 DEF Apart, Separate
    <2>4. run[r].pc = "apply" => \A t \in run[r].left \ {s} : t.id # s.id
      BY <1>1 DEF Apart, Single
    <2>5. CaptionSettles(r, s.id)
      BY <1>1, <1>2, <1>3, <1>5, <2>1, <2>2, <2>3, <2>4, MarksCaption
         DEF CaptionSettles, Ahead, InHand, Holding, Collecting
    <2>6. QED
      BY <2>1, <2>2, <2>5 DEF CaptionEffect
  <1>6. QED
    BY <1>4, <1>5 DEF Apply, CrashMarks

-----------------------------------------------------------------------------
(* What every other step does to captions                                  *)

\* A run that is not captioning, and does not begin to.
LEMMA CaptionElsewhere ==
  ASSUME IInv, NEW r \in Runner, \A q \in Runner \ {r} : run'[q] = run[q],
         ~Captions(run'[r]), \A i \in Item : CaptionKept(i)
  PROVE  CaptionEffect(r)
  BY DEF CaptionEffect, CaptionWaits

LEMMA OtherMarks ==
  ASSUME IInv, NEW i \in Item,
         \/ MarkArchiveFailed(i) \/ MarkUploaded(i) \/ MarkUploadFailed(i) \/ MarkEmbedded(i) \/ MarkEmbedFailed(i)
         \/ \E paths \in BOOLEAN : MarkArchived(i, paths)
         \/ row' = [row EXCEPT ![i].paths = FALSE] \/ row' = [row EXCEPT ![i].media = "none"]
  PROVE  \A j \in Item : CaptionKept(j)
  BY DEF MarkArchiveFailed, MarkUploaded, MarkUploadFailed, MarkEmbedded, MarkEmbedFailed, MarkArchived,
         CaptionKept, IInv, TypeOK, Row

LEMMA ArrivalColumns ==
  ASSUME NEW shape \in Shapes
  PROVE  /\ Arrival(shape).caption \in {"pending", "unavailable"} /\ Arrival(shape).tries = 0
         /\ Arrival(shape).embed \in {"pending", "skipped"}
         /\ Arrival(shape).upload = IF shape \in {"tombstone", "igtv"} THEN "skipped" ELSE "pending"
         /\ Arrival(shape).paths = (shape = "linked")
  <1>1. \A a, m : /\ New(a, m).caption = "pending" /\ New(a, m).tries = 0 /\ New(a, m).embed = "pending"
                  /\ New(a, m).upload = "pending" /\ New(a, m).paths = FALSE
    BY DEF New
  <1>2. CASE shape \in {"text", "media", "lost"}
    BY <1>1, <1>2 DEF Arrival
  <1>3. CASE shape = "tombstone"
    <2>1. Arrival(shape) = [New("tombstone", "none") EXCEPT !.gone = TRUE, !.upload = "skipped",
                                 !.caption = "unavailable", !.embed = "skipped"]
      BY <1>3 DEF Arrival
    <2>2. QED
      BY <1>3, <2>1 DEF New
  <1>4. CASE shape = "removed"
    <2>1. Arrival(shape) = [New("archived", "none") EXCEPT !.gone = TRUE]
      BY <1>4 DEF Arrival
    <2>2. QED
      BY <1>4, <2>1 DEF New
  <1>5. CASE shape = "igtv"
    <2>1. Arrival(shape) = [New("skipped", "urls") EXCEPT !.upload = "skipped", !.embed = "skipped"]
      BY <1>5 DEF Arrival
    <2>2. QED
      BY <1>5, <2>1 DEF New
  <1>6. CASE shape = "linked"
    <2>1. Arrival(shape) = [New("archived", "local") EXCEPT !.paths = TRUE]
      BY <1>6 DEF Arrival
    <2>2. QED
      BY <1>6, <2>1 DEF New
  <1>7. QED
    BY <1>2, <1>3, <1>4, <1>5, <1>6 DEF Shapes

\* What the walk makes of the row of an item that it records or replaces.
LEMMA FreshRow ==
  ASSUME IInv, NEW r \in Runner, NEW i \in Item,
         \/ \E shape \in Shape : Record(r, i, shape)
         \/ \E media \in {"none", "urls"} : ReplaceTombstone(r, i, media)
  PROVE  /\ run' = run /\ sent' = sent /\ indexed' = indexed /\ disk \subseteq disk'
         /\ \A j \in Item \ {i} : row'[j] = row[j]
         /\ ~Recorded(i) /\ row'[i].archive # "absent"
         /\ row'[i].caption \in {"pending", "unavailable"} /\ row'[i].tries = 0
         /\ row'[i].embed \in {"pending", "skipped"} /\ row'[i].upload \in {"pending", "skipped"}
         /\ row'[i].paths => i \in disk'
  <1>1. ASSUME NEW shape \in Shape, Record(r, i, shape)
        PROVE  /\ ~Recorded(i) /\ run' = run /\ sent' = sent /\ indexed' = indexed /\ disk \subseteq disk'
               /\ row' = [row EXCEPT ![i] = Arrival(shape)] /\ shape \in Shapes /\ (shape = "linked" => i \in disk')
    BY <1>1, ConstantsAssumption DEF Record, Recorded
  <1>2. ASSUME NEW media \in {"none", "urls"}, ReplaceTombstone(r, i, media)
        PROVE  /\ ~Recorded(i) /\ run' = run /\ sent' = sent /\ indexed' = indexed /\ disk' = disk
               /\ \E a \in {"archived", "pending"} : row' = [row EXCEPT ![i] = New(a, media)]
    BY <1>2 DEF ReplaceTombstone, Recorded
  <1>3. \A a, m : /\ New(a, m).caption = "pending" /\ New(a, m).tries = 0 /\ New(a, m).embed = "pending"
                  /\ New(a, m).upload = "pending" /\ New(a, m).paths = FALSE /\ New(a, m).archive = a
    BY DEF New
  <1>4. \A shape \in Shapes : Arrival(shape).archive # "absent"
    BY ArrivalIsPlain
  <1>5. row \in [Item -> Row]
    BY DEF IInv, TypeOK
  <1>6. CASE \E shape \in Shape : Record(r, i, shape)
    <2>1. PICK shape \in Shape : Record(r, i, shape)
      BY <1>6
    <2>2. row' = [row EXCEPT ![i] = Arrival(shape)] /\ shape \in Shapes /\ (shape = "linked" => i \in disk')
      BY <1>1, <2>1
    <2>3. row'[i] = Arrival(shape) /\ \A j \in Item \ {i} : row'[j] = row[j]
      BY <1>5, <2>2
    <2>4. /\ Arrival(shape).caption \in {"pending", "unavailable"} /\ Arrival(shape).tries = 0
          /\ Arrival(shape).embed \in {"pending", "skipped"} /\ Arrival(shape).upload \in {"pending", "skipped"}
          /\ Arrival(shape).paths => i \in disk'
      BY <2>2, ArrivalColumns
    <2>5. QED
      BY <1>1, <1>4, <2>1, <2>2, <2>3, <2>4
  <1>7. CASE \E media \in {"none", "urls"} : ReplaceTombstone(r, i, media)
    BY <1>2, <1>3, <1>5, <1>7
  <1>8. QED
    BY <1>6, <1>7

LEMMA CaptionWalks ==
  ASSUME IInv, NEW r \in Runner, Archive(r)
  PROVE  CaptionEffect(r)
  <1>1. ASSUME NEW i \in Item,
               \/ \E shape \in Shape : Record(r, i, shape)
               \/ \E media \in {"none", "urls"} : ReplaceTombstone(r, i, media)
        PROVE  CaptionEffect(r)
    BY <1>1, FreshRow DEF CaptionEffect, CaptionOpens, CaptionKept
  <1>2. ASSUME NEW i \in Item, NEW media \in {"none", "urls"}, Restore(r, i, media)
        PROVE  CaptionEffect(r)
    <2>1. run' = run /\ row \in [Item -> Row]
      BY <1>2 DEF Restore, IInv, TypeOK
    <2>2. \A j \in Item \ {i} : row'[j] = row[j]
      BY <1>2, <2>1, RestoredRow
    <2>3. CaptionOpens(i)
      BY <1>2, <2>1, <2>2, RestoredRow DEF CaptionOpens, CaptionKept
    <2>4. QED
      BY <2>1, <2>3 DEF CaptionEffect
  <1>3. ASSUME NEW i \in Item, RefreshMedia(r, i)
        PROVE  CaptionEffect(r)
    <2>1. row' = [row EXCEPT ![i].media = "none"] /\ run[r].job = "archive"
      BY <1>3 DEF RefreshMedia, Walking
    <2>2. run'[r].job = run[r].job /\ \A q \in Runner \ {r} : run'[q] = run[q]
      BY <1>3 DEF RefreshMedia, IInv, TypeOK, Run
    <2>3. QED
      BY <2>1, <2>2, OtherMarks, CaptionElsewhere DEF Captions
  <1>4. QED
    BY <1>1, <1>2, <1>3 DEF Archive

\* Where a step of each kind leaves its run.
LEMMA CaptionNot ==
  ASSUME IInv, NEW r \in Runner,
         \/ \E job \in Job, again \in SUBSET Again : Begin(r, job, again)
         \/ Crash(r) \/ RefreshSettles(r) \/ WalkEnds(r) \/ (Select(r) /\ run[r].job # "caption") \/ Take(r) \/ Drained(r)
         \/ (Ensure(r) /\ run[r].job # "caption") \/ Upload(r) \/ BatchEnds(r) \/ Embed(r) \/ Cleanup(r)
  PROVE  CaptionEffect(r)
  <1>1. run[r] \in Run /\ Placed(r, run[r]) /\ run \in [Runner -> Run] /\ run[r].job \in Job \cup {None}
    BY Begun DEF IInv, TypeOK, Run
  <1>2. run[r].pc \in Holding => Hand(r) \in Item /\ run[r].item \in Snapshot
    BY HandIsRecorded
  <1>3. \A i \in Item : row' = row => CaptionKept(i)
    BY DEF CaptionKept
  <1>4. CASE Crash(r) \/ CleanEnds(r) \/ (Drained(r) /\ run[r].job = "archive")
    <2>1. run' = [run EXCEPT ![r] = Idle] /\ row' = row
      BY <1>4 DEF Crash, CleanEnds, Drained
    <2>2. run'[r] = Idle /\ \A q \in Runner \ {r} : run'[q] = run[q]
      BY <1>1, <2>1
    <2>3. QED
      BY <1>3, <2>1, <2>2, IdleIsRun, CaptionElsewhere DEF Captions, Collecting
  <1>5. CASE \E job \in Job, again \in SUBSET Again : Begin(r, job, again)
    <2>1. run'[r].pc \in {"walk", "select"} /\ row' = row /\ \A q \in Runner \ {r} : run'[q] = run[q]
      BY <1>1, <1>5 DEF Begin, Idle
    <2>2. QED
      BY <1>3, <2>1, CaptionElsewhere DEF Captions, Collecting
  <1>6. CASE WalkEnds(r) \/ BatchEnds(r) \/ (Drained(r) /\ run[r].job # "archive")
    <2>1. (\E pc \in {"select", "tidy"} : Goes(r, pc)) /\ row' = row
      BY <1>6 DEF WalkEnds, BatchEnds, Drained, Goes
    <2>2. run'[r].pc \in {"select", "tidy"} /\ \A q \in Runner \ {r} : run'[q] = run[q]
      BY <2>1, GoesFields
    <2>3. QED
      BY <1>3, <2>1, <2>2, CaptionElsewhere DEF Captions, Collecting
  <1>7. CASE Select(r) /\ run[r].job # "caption"
    <2>1. run'[r].job = run[r].job /\ row' = row /\ \A q \in Runner \ {r} : run'[q] = run[q]
      BY <1>7, SelectFields
    <2>2. QED
      BY <1>3, <1>7, <2>1, CaptionElsewhere DEF Captions
  <1>8. CASE Take(r)
    <2>1. run'[r].job = run[r].job /\ row' = row /\ (\A q \in Runner \ {r} : run'[q] = run[q]) /\ run[r].pc = "next"
      BY <1>8, TakeFields DEF Take
    <2>2. run[r].job # "caption"
      BY <1>1, <2>1 DEF Placed, Places
    <2>3. QED
      BY <1>3, <2>1, <2>2, CaptionElsewhere DEF Captions
  <1>9. CASE Ensure(r) /\ run[r].job # "caption"
    <2>1. run[r].pc \in {"ensure", "fetched"}
      BY <1>9 DEF Ensure, EnsureReturns, EnsureFetches, EnsureMarks, EnsureRaises
    <2>2. run[r].job \in {"archive", "upload"}
      BY <1>1, <1>9, <2>1, ConstantsAssumption DEF Placed, Places, Job
    <2>3. \/ \E files \in BOOLEAN : WithMedia(r, files)
          \/ \E pc \in {"fetched", "next"} : Goes(r, pc) \/ Settled(r, pc)
      BY <1>9 DEF Ensure, EnsureReturns, EnsureFetches, EnsureMarks, EnsureRaises
    <2>4. run'[r].job = run[r].job /\ \A q \in Runner \ {r} : run'[q] = run[q]
      BY <1>2, <2>1, <2>2, <2>3, GoesFields, HasMediaFields DEF Holding
    <2>5. row' = row \/ MarkArchived(Hand(r), TRUE) \/ MarkArchiveFailed(Hand(r)) \/ MarkUploadFailed(Hand(r))
      BY <1>9 DEF Ensure, EnsureReturns, EnsureFetches, EnsureMarks, EnsureRaises
    <2>6. \A i \in Item : CaptionKept(i)
      BY <1>2, <1>3, <2>1, <2>5, OtherMarks DEF Holding
    <2>7. QED
      BY <1>9, <2>4, <2>6, CaptionElsewhere DEF Captions
  <1>10. CASE Upload(r)
    <2>1. run[r].pc \in {"send", "sent"}
      BY <1>10 DEF Upload, Send, SendAgain, SendFails, SendFlooded, UploadMarks
    <2>2. run[r].job = "upload"
      BY <1>1, <2>1, ConstantsAssumption DEF Placed, Places, Job
    <2>3. \/ run' = [run EXCEPT ![r] = [Idle EXCEPT !.job = "upload", !.pc = "tidy"]]
          \/ run' = [run EXCEPT ![r].n = @ + 1]
          \/ \E pc \in {"sent", "next"} : Goes(r, pc) \/ Settled(r, pc)
      BY <1>10 DEF Upload, Send, SendAgain, SendFails, SendFlooded, UploadMarks
    <2>4. run'[r].job = "upload" /\ \A q \in Runner \ {r} : run'[q] = run[q]
      <3>1. CASE run' = [run EXCEPT ![r] = [Idle EXCEPT !.job = "upload", !.pc = "tidy"]]
        BY <1>1, <3>1 DEF Idle
      <3>2. CASE run' = [run EXCEPT ![r].n = @ + 1]
        BY <1>1, <2>2, <3>2 DEF Run
      <3>3. QED
        BY <2>2, <2>3, <3>1, <3>2, GoesFields
    <2>5. row' = row \/ MarkUploaded(Hand(r)) \/ MarkUploadFailed(Hand(r))
      BY <1>10 DEF Upload, Send, SendAgain, SendFails, SendFlooded, UploadMarks
    <2>6. \A i \in Item : CaptionKept(i)
      BY <1>2, <1>3, <2>1, <2>5, OtherMarks DEF Holding
    <2>7. QED
      BY <2>4, <2>6, CaptionElsewhere DEF Captions
  <1>11. CASE Embed(r)
    <2>1. run[r].pc \in {"insert", "inserted"} /\ \E pc \in {"inserted", "next"} : Goes(r, pc) \/ Settled(r, pc)
      BY <1>11 DEF Embed, EmbedRaises, EmbedInserts, EmbedMarks
    <2>2. run'[r].pc \in {"inserted", "next"} /\ \A q \in Runner \ {r} : run'[q] = run[q]
      BY <2>1, GoesFields
    <2>3. row' = row \/ MarkEmbedded(Hand(r)) \/ MarkEmbedFailed(Hand(r))
      BY <1>11 DEF Embed, EmbedRaises, EmbedInserts, EmbedMarks
    <2>4. \A i \in Item : CaptionKept(i)
      BY <1>2, <1>3, <2>1, <2>3, OtherMarks DEF Holding
    <2>5. QED
      BY <2>2, <2>4, CaptionElsewhere DEF Captions, Collecting
  <1>12. CASE RefreshSettles(r) \/ ClearPaths(r)
    <2>1. run[r].pc \in {"refreshed", "unlinked"} /\ \E pc \in {"walk", "clean"} : Settled(r, pc)
      BY <1>12 DEF RefreshSettles, ClearPaths
    <2>2. run'[r].pc \in {"walk", "clean"} /\ \A q \in Runner \ {r} : run'[q] = run[q]
      BY <2>1, GoesFields
    <2>3. MarkArchived(Hand(r), FALSE) \/ row' = [row EXCEPT ![Hand(r)].paths = FALSE]
      BY <1>12 DEF RefreshSettles, ClearPaths
    <2>4. \A i \in Item : CaptionKept(i)
      BY <1>2, <2>1, <2>3, OtherMarks DEF Holding
    <2>5. QED
      BY <2>2, <2>4, CaptionElsewhere DEF Captions, Collecting
  <1>13. CASE Tidy(r) \/ Unlink(r)
    <2>1. run'[r].pc \in {"clean", "unlinked"} /\ row' = row /\ \A q \in Runner \ {r} : run'[q] = run[q]
      <3>1. CASE Tidy(r)
        <4>1. run[r].pc = "tidy"
          BY <3>1 DEF Tidy
        <4>2. QED
          BY <3>1, <4>1, SelectFields
      <3>2. CASE Unlink(r)
        <4>1. ~Take(r)
          BY <3>2 DEF Unlink, Take
        <4>2. QED
          BY <3>2, <4>1, TakeFields
      <3>3. QED
        BY <1>13, <3>1, <3>2
    <2>2. QED
      BY <1>3, <2>1, CaptionElsewhere DEF Captions, Collecting
  <1>14. QED
    BY <1>4, <1>5, <1>6, <1>7, <1>8, <1>9, <1>10, <1>11, <1>12, <1>13 DEF Cleanup

LEMMA EveryCaptionEffect ==
  ASSUME IInv, CaptionDue, NEW r \in Runner, Acts(r)
  PROVE  CaptionEffect(r)
  <1>1. CASE Crash(r) \/ \E job \in Job, again \in SUBSET Again : Begin(r, job, again)
    BY <1>1, CaptionNot
  <1>2. CASE Archive(r) \/ CallRaises(r)
    BY <1>2, CaptionWalks, CaptionUses
  <1>3. CASE Ensure(r)
    BY <1>3, CaptionNot, CaptionEnsures, CaptionSettlesHand DEF Ensure
  <1>4. CASE Caption(r)
    <2>1. CollectUnusable(r) => run[r].job = "caption"
      BY WhereCaptions DEF CollectUnusable, Captions
    <2>2. QED
      BY <1>4, <2>1, CaptionNot, CaptionTexts, CaptionPlans, CaptionCollects, CaptionUses, CaptionSettlesHand,
         CaptionApplies, CaptionDescribes DEF Caption
  <1>5. CASE RefreshSettles(r) \/ WalkEnds(r) \/ Select(r) \/ Take(r) \/ Drained(r) \/ Upload(r) \/ Embed(r) \/ Cleanup(r)
    BY <1>5, CaptionNot, CaptionSelects
  <1>6. QED
    BY <1>1, <1>2, <1>3, <1>4, <1>5 DEF Acts, Continue

-----------------------------------------------------------------------------
(* Attempts                                                                *)

LEMMA ActsKeepsInv ==
  ASSUME IInv, NEW r \in Runner, Acts(r)
  PROVE  IInv'
  BY NextKeepsInv DEF Acts, Next

\* What a captioning run has before it are items, before and after a step.
LEMMA AheadAreItems ==
  ASSUME IInv, NEW r \in Runner, Acts(r)
  PROVE  /\ \A q \in Runner : \A t \in Ahead(run[q]) : t.id \in Item /\ Recorded(t.id)
         /\ \A q \in Runner : \A t \in Ahead(run'[q]) : t.id \in Item
  <1>1. \A q \in Runner : \A t \in Ahead(run[q]) : t \in Held(run[q])
    BY DEF Ahead, Held
  <1>2. \A q \in Runner : \A t \in Ahead(run'[q]) : t \in Held(run'[q])
    BY DEF Ahead, Held
  <1>3. \A q \in Runner : Placed(q, run'[q])
    BY ActsKeepsInv DEF IInv, Placed
  <1>4. \A q \in Runner : \A t \in Held(run'[q]) : t.id \in Item
    BY <1>3 DEF Placed, Held, InHand, Run, Snapshot
  <1>5. QED
    BY <1>1, <1>2, <1>4, WhereCaptions

LEMMA DueStays ==
  ASSUME IInv, CaptionDue, Alone({"caption"}), NEW r \in Runner, Acts(r)
  PROVE  CaptionDue'
  <1>1. \A q \in Runner \ {r} : run'[q] = run[q]
    BY EveryCaptionEffect DEF CaptionEffect
  <1>2. SUFFICES ASSUME NEW q \in Runner, Captions(run'[q]), NEW t \in Ahead(run'[q])
                 PROVE  row'[t.id].caption \in Unsettled
    BY DEF CaptionDue, Ahead, Captions, InHand
  <1>3. t.id \in Item
    BY AheadAreItems
  <1>4. CASE CaptionWaits(r)
    <2>1. row[t.id].caption \in Unsettled
      BY <1>1, <1>2, <1>4 DEF CaptionWaits, CaptionDue
    <2>2. QED
      BY <1>3, <1>4, <2>1 DEF CaptionWaits, CaptionKept
  <1>5. ASSUME NEW i \in Item, CaptionOpens(i)
        PROVE  row'[t.id].caption \in Unsettled
    <2>1. run'[q] = run[q]
      BY <1>5 DEF CaptionOpens
    <2>2. row[t.id].caption \in Unsettled /\ Recorded(t.id)
      BY <1>2, <2>1, AheadAreItems DEF CaptionDue
    <2>3. QED
      BY <1>3, <1>5, <2>2 DEF CaptionOpens, CaptionKept, Unsettled
  <1>6. ASSUME NEW i \in Item, CaptionSettles(r, i)
        PROVE  row'[t.id].caption \in Unsettled
    <2>1. q = r
      <3>1. Captions(run[r]) /\ "caption" \in Jobs[r]
        BY <1>6, WhereCaptions DEF CaptionSettles
      <3>2. q # r => "caption" \in Jobs[q]
        BY <1>1, <1>2, WhereCaptions
      <3>3. QED
        BY <3>1, <3>2 DEF Alone
    <2>2. t.id # i /\ row[t.id].caption \in Unsettled
      BY <1>2, <1>6, <2>1 DEF CaptionSettles
    <2>3. QED
      BY <1>3, <1>6, <2>2 DEF CaptionSettles, CaptionKept
  <1>7. QED
    BY <1>4, <1>5, <1>6, EveryCaptionEffect DEF CaptionEffect

LEMMA AttemptsStay ==
  ASSUME IInv, AttemptsInv, Alone({"caption"}), [Next]_vars
  PROVE  AttemptsInv'
  <1>1. CASE UNCHANGED vars
    BY <1>1 DEF vars, AttemptsInv, RetriableHasAttempts, CaptionDue, Ahead, Captions, InHand
  <1>2. CASE Next
    <2>1. PICK r \in Runner : Acts(r)
      BY <1>2 DEF Next, Acts
    <2>2. CaptionDue' /\ CaptionEffect(r) /\ row \in [Item -> Row]
      BY <2>1, DueStays, EveryCaptionEffect DEF AttemptsInv, IInv, TypeOK
    <2> DEFINE Good(i) == /\ row[i].caption \in Unsettled \cup {"unavailable"} => row[i].tries < MaxAttempts
                          /\ row[i].caption = "exhausted" => row[i].tries >= MaxAttempts
    <2>3. \A i \in Item : Good(i) /\ row[i].tries \in Nat
      BY <2>2 DEF AttemptsInv, RetriableHasAttempts, Unsettled, Row
    <2>4. ASSUME NEW i \in Item
          PROVE  /\ row'[i].caption \in Unsettled \cup {"unavailable"} => row'[i].tries < MaxAttempts
                 /\ row'[i].caption = "exhausted" => row'[i].tries >= MaxAttempts
      <3>1. CASE CaptionKept(i)
        BY <2>3, <3>1 DEF CaptionKept
      <3>2. CASE Spends(i)
        BY <2>3, <3>2, ConstantsAssumption DEF Spends, Unsettled
      <3>3. CASE CaptionOpens(i)
        BY <2>3, <3>1, <3>3, ConstantsAssumption DEF CaptionOpens, Unsettled
      <3>4. CASE row[i].caption \in Unsettled /\ row'[i].caption \in {"done", "refused"} /\ row'[i].tries = row[i].tries
        BY <2>3, <3>4 DEF Unsettled
      <3>5. QED
        BY <2>2, <3>1, <3>2, <3>3, <3>4 DEF CaptionEffect, CaptionWaits, CaptionOpens, CaptionSettles
    <2>5. QED
      BY <2>2, <2>4 DEF AttemptsInv, RetriableHasAttempts, Unsettled
  <1>3. QED
    BY <1>1, <1>2

\* "A run always makes progress" (caption.py): while one run captions at a time, a
\* caption that may still be asked for has attempts left, and one that has none
\* left says so (mark_caption_failed), through calls that raise and crashes.
THEOREM AttemptsAreLeft == ASSUME Alone({"caption"}) PROVE Spec => []RetriableHasAttempts
  <1>1. Init => AttemptsInv
    <2> SUFFICES ASSUME Init PROVE AttemptsInv
      OBVIOUS
    <2>1. \A i \in Item : row[i].caption = "pending" /\ row[i].tries = 0
      BY DEF Init, New
    <2>2. \A r \in Runner : run[r].pc = "idle"
      BY IdleIsRun DEF Init
    <2>3. QED
      BY <2>1, <2>2, ConstantsAssumption DEF AttemptsInv, RetriableHasAttempts, CaptionDue, Captions, Collecting
  <1>2. AttemptsInv => RetriableHasAttempts
    BY DEF AttemptsInv
  <1>3. QED
    BY <1>1, <1>2, AttemptsStay, InitIsInv, NextKeepsInv, PTL DEF Spec

-----------------------------------------------------------------------------
(* Indexing                                                                *)

Embeds(l) == l.job = "embed" /\ l.pc \in {"next", "insert", "inserted"}

\* What a captioning call may still fail is not indexed, and what an indexing run
\* will index is captioned.
IndexOf(l) ==
  /\ Captions(l) /\ l.pc # "batch" => \A s \in l.call : row[s.id].embed # "done"
  /\ l.pc = "crash" => l.left \subseteq l.call
  /\ Embeds(l) => \A s \in l.todo \cup InHand(l) : row[s.id].caption = "done"

IndexedInv == IndexedIsCaptioned /\ CaptionDue /\ \A r \in Runner : IndexOf(run[r])

\* What a step does to the column embed.
EmbedKept(i) == row'[i].embed = row[i].embed

EmbedEffect(r) ==
  \/ \A i \in Item : EmbedKept(i)
  \/ \E i \in Item : /\ \A j \in Item \ {i} : EmbedKept(j) /\ CaptionKept(j)
                     /\ run' = run /\ row'[i].embed \in {"pending", "skipped"}
                     /\ Recorded(i) /\ row[i].caption = "done" => row'[i].caption = "done"
  \/ /\ run[r].pc \in {"insert", "inserted"} /\ \A j \in Item : CaptionKept(j)
     /\ \A j \in Item \ {Hand(r)} : EmbedKept(j)

LEMMA MarksKeepEmbed ==
  ASSUME IInv, NEW i \in Item,
         \/ MarkArchiveFailed(i) \/ MarkUploaded(i) \/ MarkUploadFailed(i) \/ \E paths \in BOOLEAN : MarkArchived(i, paths)
         \/ MarkCaptioned(i) \/ MarkCaptionRefused(i) \/ MarkCaptionFailed(i)
         \/ row' = [row EXCEPT ![i].paths = FALSE] \/ row' = [row EXCEPT ![i].media = "none"]
  PROVE  \A j \in Item : EmbedKept(j)
  <1>0. row \in [Item -> Row] /\ row[i] = [archive |-> row[i].archive, upload |-> row[i].upload,
               caption |-> row[i].caption, embed |-> row[i].embed, tries |-> row[i].tries,
               paths |-> row[i].paths, media |-> row[i].media, gone |-> row[i].gone]
    BY DEF IInv, TypeOK, Row
  <1>1. CASE MarkCaptioned(i) \/ MarkCaptionRefused(i) \/ MarkCaptionFailed(i)
    BY <1>0, <1>1 DEF MarkCaptioned, MarkCaptionRefused, MarkCaptionFailed, EmbedKept
  <1>2. CASE \E paths \in BOOLEAN : MarkArchived(i, paths)
    <2>1. PICK paths \in BOOLEAN : row' = [row EXCEPT ![i].archive = "archived", ![i].paths = paths]
      BY <1>2 DEF MarkArchived
    <2>2. QED
      BY <1>0, <2>1 DEF EmbedKept
  <1>3. CASE \/ MarkArchiveFailed(i) \/ MarkUploaded(i) \/ MarkUploadFailed(i)
             \/ row' = [row EXCEPT ![i].paths = FALSE] \/ row' = [row EXCEPT ![i].media = "none"]
    BY <1>0, <1>3 DEF MarkArchiveFailed, MarkUploaded, MarkUploadFailed, EmbedKept
  <1>4. QED
    BY <1>1, <1>2, <1>3

\* Every step but the walk's and the indexing run's leaves the column alone.
LEMMA EmbedStays ==
  ASSUME IInv, NEW r \in Runner, Acts(r), ~Archive(r), ~Embed(r)
  PROVE  \A i \in Item : EmbedKept(i)
  <1>1. row' = row => \A i \in Item : EmbedKept(i)
    BY DEF EmbedKept
  <1>2. CASE Ensure(r)
    <2>1. run[r].pc \in {"ensure", "fetched"}
      BY <1>2 DEF Ensure, EnsureReturns, EnsureFetches, EnsureMarks, EnsureRaises
    <2>2. Hand(r) \in Item
      BY <2>1, HandIsRecorded DEF Holding
    <2>3. \/ row' = row \/ MarkArchived(Hand(r), TRUE) \/ MarkArchiveFailed(Hand(r)) \/ MarkUploadFailed(Hand(r))
          \/ MarkCaptionFailed(Hand(r))
      BY <1>2 DEF Ensure, EnsureReturns, EnsureFetches, EnsureMarks, EnsureRaises
    <2>4. QED
      BY <1>1, <2>2, <2>3, MarksKeepEmbed
  <1>3. CASE Upload(r) \/ RefreshSettles(r) \/ ClearPaths(r) \/ CollectUnusable(r)
    <2>1. row' = row \/ run[r].pc \in {"send", "sent", "refreshed", "unlinked", "have"}
      BY <1>3 DEF Upload, Send, SendAgain, SendFails, SendFlooded, UploadMarks, RefreshSettles, ClearPaths, CollectUnusable
    <2>2. row' = row \/ Hand(r) \in Item
      BY <2>1, HandIsRecorded DEF Holding
    <2>3. \/ row' = row \/ MarkUploaded(Hand(r)) \/ MarkUploadFailed(Hand(r)) \/ MarkArchived(Hand(r), FALSE)
          \/ row' = [row EXCEPT ![Hand(r)].paths = FALSE] \/ MarkCaptioned(Hand(r))
      BY <1>3 DEF Upload, Send, SendAgain, SendFails, SendFlooded, UploadMarks, RefreshSettles, ClearPaths, CollectUnusable
    <2>4. QED
      BY <1>1, <2>2, <2>3, MarksKeepEmbed
  <1>4. CASE CaptionText(r) \/ CrashMarks(r) \/ Apply(r)
    <2>1. \/ row' = row
          \/ \E s \in run[r].todo \cup run[r].left :
               MarkCaptioned(s.id) \/ MarkCaptionRefused(s.id) \/ MarkCaptionFailed(s.id)
      BY <1>4 DEF CaptionText, CrashMarks, Apply
    <2>2. \A s \in run[r].todo \cup run[r].left : s.id \in Item
      BY WhereCaptions DEF Held
    <2>3. QED
      BY <1>1, <2>1, <2>2, MarksKeepEmbed
  <1>5. CASE \/ \E job \in Job, again \in SUBSET Again : Begin(r, job, again)
             \/ Crash(r) \/ CallRaises(r) \/ WalkEnds(r) \/ Select(r) \/ Take(r) \/ Drained(r)
             \/ PlanCall(r) \/ BatchEnds(r) \/ Collect(r) \/ CollectUsable(r) \/ Describe(r)
             \/ Tidy(r) \/ Unlink(r) \/ CleanEnds(r)
    <2>1. row' = row
      BY <1>5 DEF Begin, Crash, CallRaises, WalkEnds, Select, Take, Drained, PlanCall, BatchEnds, Collect, CollectUsable,
                  Describe, Tidy, Unlink, CleanEnds
    <2>2. QED
      BY <1>1, <2>1
  <1>6. QED
    BY <1>2, <1>3, <1>4, <1>5 DEF Acts, Continue, Caption, Cleanup

LEMMA EveryEmbedEffect ==
  ASSUME IInv, NEW r \in Runner, Acts(r)
  PROVE  EmbedEffect(r)
  <1>1. CASE Embed(r)
    <2>1. run[r].pc \in {"insert", "inserted"}
      BY <1>1 DEF Embed, EmbedRaises, EmbedInserts, EmbedMarks
    <2>2. Hand(r) \in Item
      BY <2>1, HandIsRecorded DEF Holding
    <2>3. row' = row \/ MarkEmbedded(Hand(r)) \/ MarkEmbedFailed(Hand(r))
      BY <1>1 DEF Embed, EmbedRaises, EmbedInserts, EmbedMarks
    <2>4. \A j \in Item : CaptionKept(j)
      BY <2>2, <2>3, OtherMarks DEF CaptionKept
    <2>5. \A j \in Item \ {Hand(r)} : EmbedKept(j)
      BY <2>2, <2>3 DEF MarkEmbedded, MarkEmbedFailed, EmbedKept, IInv, TypeOK
    <2>6. QED
      BY <2>1, <2>4, <2>5 DEF EmbedEffect
  <1>2. ASSUME NEW i \in Item,
               \/ \E shape \in Shape : Record(r, i, shape)
               \/ \E media \in {"none", "urls"} : ReplaceTombstone(r, i, media)
        PROVE  EmbedEffect(r)
    BY <1>2, FreshRow DEF EmbedEffect, EmbedKept, CaptionKept
  <1>3. ASSUME NEW i \in Item, NEW media \in {"none", "urls"}, Restore(r, i, media)
        PROVE  EmbedEffect(r)
    <2>1. row \in [Item -> Row] /\ run' = run
      BY <1>3 DEF Restore, IInv, TypeOK
    <2>2. \A j \in Item \ {i} : row'[j] = row[j]
      BY <1>3, <2>1, RestoredRow
    <2>3. row'[i].embed = "pending" /\ (row[i].caption = "done" => row'[i].caption = "done")
      BY <1>3, RestoredRow
    <2>4. QED
      BY <2>1, <2>2, <2>3 DEF EmbedEffect, EmbedKept, CaptionKept
  <1>4. ASSUME NEW i \in Item, RefreshMedia(r, i)
        PROVE  EmbedEffect(r)
    BY <1>4, MarksKeepEmbed DEF RefreshMedia, EmbedEffect
  <1>5. CASE ~Embed(r) /\ ~Archive(r)
    BY <1>5, EmbedStays DEF EmbedEffect
  <1>6. QED
    BY <1>1, <1>2, <1>3, <1>4, <1>5 DEF Archive

\* A job goes on until its run ends.
LEMMA JobStays ==
  ASSUME IInv, NEW r \in Runner, Acts(r)
  PROVE  \/ /\ \E job \in Job, again \in SUBSET Again : Begin(r, job, again)
            /\ run'[r].pc \in {"walk", "select"}
         \/ run'[r] = Idle
         \/ run'[r].job = run[r].job /\ run[r].job \in Job /\ Placed(r, run[r]) /\ run[r].pc # "idle"
  <1>1. run \in [Runner -> Run] /\ run[r] \in Run /\ Placed(r, run[r]) /\ (run[r].pc # "idle" => run[r].job \in Job)
    BY Begun, ConstantsAssumption DEF IInv, TypeOK, Placed
  <1>2. CASE \E job \in Job, again \in SUBSET Again : Begin(r, job, again)
    <2>1. run'[r].pc \in {"walk", "select"}
      BY <1>1, <1>2 DEF Begin, Idle
    <2>2. QED
      BY <1>2, <2>1
  <1>3. CASE Crash(r) \/ CleanEnds(r) \/ (Drained(r) /\ run[r].job = "archive")
    BY <1>1, <1>3 DEF Crash, CleanEnds, Drained
  <1>4. ASSUME NEW pc, Goes(r, pc) \/ Settled(r, pc)
        PROVE  run'[r].job = run[r].job
    BY <1>4, GoesFields
  <1>5. CASE WalkEnds(r) \/ BatchEnds(r) \/ (Drained(r) /\ run[r].job # "archive")
    BY <1>1, <1>4, <1>5 DEF WalkEnds, Walking, BatchEnds, Drained, Goes
  <1>6. CASE Select(r) \/ Tidy(r) \/ Take(r) \/ Unlink(r)
    <2>1. run[r].pc # "idle"
      BY <1>6 DEF Select, Tidy, Take, Unlink
    <2>2. run'[r].job = run[r].job
      BY <1>6, SelectFields, TakeFields
    <2>3. QED
      BY <1>1, <2>1, <2>2
  <1>7. CASE Ensure(r)
    <2>1. run[r].pc \in {"ensure", "fetched"} /\ run[r].item \in Snapshot
      BY <1>7, HandIsRecorded DEF Ensure, EnsureReturns, EnsureFetches, EnsureMarks, EnsureRaises, Holding
    <2>2. run[r].job \in {"archive", "upload", "caption"}
      BY <1>1, <2>1, ConstantsAssumption DEF Placed, Places, Job
    <2>3. \/ \E files \in BOOLEAN : WithMedia(r, files)
          \/ \E pc \in {"fetched", "next", "collect"} : Goes(r, pc) \/ Settled(r, pc)
      BY <1>7 DEF Ensure, EnsureReturns, EnsureFetches, EnsureMarks, EnsureRaises
    <2>4. QED
      BY <1>1, <1>4, <2>1, <2>2, <2>3, HasMediaFields
  <1>8. CASE Upload(r)
    <2>1. run[r].pc \in {"send", "sent"}
      BY <1>8 DEF Upload, Send, SendAgain, SendFails, SendFlooded, UploadMarks
    <2>2. run[r].job = "upload"
      BY <1>1, <2>1, ConstantsAssumption DEF Placed, Places, Job
    <2>3. \/ run' = [run EXCEPT ![r] = [Idle EXCEPT !.job = "upload", !.pc = "tidy"]]
          \/ run' = [run EXCEPT ![r].n = @ + 1]
          \/ \E pc \in {"sent", "next"} : Goes(r, pc) \/ Settled(r, pc)
      BY <1>8 DEF Upload, Send, SendAgain, SendFails, SendFlooded, UploadMarks
    <2>4. CASE run' = [run EXCEPT ![r] = [Idle EXCEPT !.job = "upload", !.pc = "tidy"]]
      BY <1>1, <2>1, <2>2, <2>4 DEF Idle
    <2>5. CASE run' = [run EXCEPT ![r].n = @ + 1]
      BY <1>1, <2>1, <2>5 DEF Run
    <2>6. QED
      BY <1>1, <1>4, <2>1, <2>3, <2>4, <2>5
  <1>9. CASE Embed(r) \/ ClearPaths(r) \/ RefreshSettles(r) \/ CollectUnusable(r)
    <2>1. run[r].pc # "idle" /\ \E pc \in {"inserted", "next", "clean", "walk", "collect"} : Goes(r, pc) \/ Settled(r, pc)
      BY <1>9 DEF Embed, EmbedRaises, EmbedInserts, EmbedMarks, ClearPaths, RefreshSettles, CollectUnusable
    <2>2. QED
      BY <1>1, <1>4, <2>1
  <1>10. CASE CaptionText(r) \/ PlanCall(r) \/ Collect(r)
    <2>1. run[r].pc # "idle"
      BY <1>10 DEF CaptionText, PlanCall, Collect
    <2>2. CASE PlanCall(r)
      BY <1>1, <2>1, <2>2 DEF PlanCall, Run
    <2>3. CASE CaptionText(r) \/ Collect(r)
      <3>1. \/ \E s \in run[r].todo : run' = [run EXCEPT ![r].todo = @ \ {s}]
            \/ \E s \in run[r].left : run' = [run EXCEPT ![r].left = @ \ {s}, ![r].item = s, ![r].pc = "ensure"]
            \/ \E pc \in {"batch", "describe"} : Goes(r, pc)
        BY <2>3 DEF CaptionText, Collect, Goes
      <3>2. CASE \E pc \in {"batch", "describe"} : Goes(r, pc)
        BY <1>1, <1>4, <2>1, <3>2
      <3>3. CASE \E s \in run[r].todo : run' = [run EXCEPT ![r].todo = @ \ {s}]
        BY <1>1, <2>1, <3>3 DEF Run
      <3>4. CASE \E s \in run[r].left : run' = [run EXCEPT ![r].left = @ \ {s}, ![r].item = s, ![r].pc = "ensure"]
        BY <1>1, <2>1, <3>4 DEF Run
      <3>5. QED
        BY <3>1, <3>2, <3>3, <3>4
    <2>4. QED
      BY <1>10, <2>2, <2>3
  <1>11. CASE CollectUsable(r) \/ Describe(r) \/ CallRaises(r)
    BY <1>1, <1>11 DEF CollectUsable, Describe, CallRaises, Run
  <1>12. CASE Apply(r) \/ CrashMarks(r)
    <2>1. /\ run[r].pc # "idle"
          /\ \/ Goes(r, "batch")
             \/ \E s \in run[r].left : run' = [run EXCEPT ![r].left = @ \ {s}]
      BY <1>12 DEF Apply, CrashMarks
    <2>2. run'[r].job = run[r].job
      BY <1>1, <2>1, GoesFields DEF Run
    <2>3. QED
      BY <1>1, <2>1, <2>2
  <1>13. CASE Archive(r)
    <2>1. run[r].pc = "walk" /\ (run' = run \/ \E i \in Item : RefreshMedia(r, i))
      BY <1>13 DEF Archive, Record, ReplaceTombstone, Restore, RefreshMedia, Walking
    <2>2. run'[r].job = run[r].job
      BY <1>1, <2>1 DEF RefreshMedia, Run
    <2>3. QED
      BY <1>1, <2>1, <2>2
  <1>14. QED
    BY <1>2, <1>3, <1>5, <1>6, <1>7, <1>8, <1>9, <1>10, <1>11, <1>12, <1>13 DEF Acts, Continue, Caption, Cleanup

\* A step of a captioning run, for the targets of its call.
LEMMA IndexCaptions ==
  ASSUME IInv, IndexedInv, NEW r \in Runner, Acts(r), Captions(run'[r]) \/ run'[r].pc = "crash"
  PROVE  IndexOf(run'[r])
  <1>1. run[r] \in Run /\ IndexOf(run[r]) /\ CaptionDue /\ IndexedIsCaptioned /\ Placed(r, run[r])
    BY Begun DEF IndexedInv
  <1>2. IInv' /\ Placed(r, run'[r])
    BY ActsKeepsInv DEF IInv, Placed
  <1>3. run'[r].job = "caption" /\ ~Embeds(run'[r]) /\ Captions(run'[r])
    BY <1>2, ConstantsAssumption DEF Captions, Placed, Places, Job, Embeds, Collecting
  <1>4. run[r].job = "caption" /\ run[r].pc # "idle"
    BY <1>3, JobStays, IdleIsRun DEF Captions, Collecting
  <1>5. CASE run'[r].pc = "batch"
    BY <1>3, <1>5 DEF IndexOf
  <1>6. CASE PlanCall(r)
    <2>1. PICK c \in SUBSET run[r].todo :
            run' = [run EXCEPT ![r].todo = @ \ c, ![r].call = c, ![r].left = c, ![r].usable = {}, ![r].pc = "collect"]
      BY <1>6 DEF PlanCall
    <2>2. run'[r].call = c /\ run'[r].pc = "collect"
      BY <1>1, <2>1 DEF IInv, TypeOK, Run
    <2>3. Captions(run[r]) /\ run[r].pc = "batch"
      BY <1>6, WhereCaptions DEF PlanCall
    <2>4. \A s \in c : row[s.id].caption \in Unsettled /\ s.id \in Item
      BY <1>1, <2>3, WhereCaptions DEF CaptionDue, Ahead, Held
    <2>5. \A s \in c : row[s.id].embed # "done"
      BY <1>1, <2>4 DEF IndexedIsCaptioned, Unsettled
    <2>6. QED
      BY <1>3, <2>2, <2>5 DEF IndexOf
  <1>7. /\ run[r].pc \in Collecting \cup {"describe", "apply", "crash"} /\ run'[r].call = run[r].call
        /\ \/ run'[r].pc # "crash"
           \/ run'[r].left \subseteq run[r].left /\ run[r].pc = "crash"
           \/ run'[r].left = run[r].call
        => IndexOf(run'[r])
    BY <1>1, <1>3, <1>4 DEF IndexOf, Captions, Collecting
  <1>8. CASE Ensure(r) \/ CollectUnusable(r)
    <2>1. run[r].pc \in {"ensure", "fetched", "have"} /\ run[r].item \in Snapshot
      BY <1>8, HandIsRecorded DEF Ensure, EnsureReturns, EnsureFetches, EnsureMarks, EnsureRaises, CollectUnusable, Holding
    <2>2. \/ \E files \in BOOLEAN : WithMedia(r, files)
          \/ \E pc \in {"fetched", "collect"} : Goes(r, pc) \/ Settled(r, pc)
      BY <1>4, <1>8 DEF Ensure, EnsureReturns, EnsureFetches, EnsureMarks, EnsureRaises, CollectUnusable
    <2>3. run'[r].call = run[r].call /\ run'[r].pc \in {"fetched", "collect", "have"}
      BY <1>4, <2>1, <2>2, GoesFields, HasMediaFields
    <2>4. QED
      BY <1>7, <2>1, <2>3 DEF Collecting
  <1>9. CASE Collect(r)
    <2>1. \/ \E s \in run[r].left : run' = [run EXCEPT ![r].left = @ \ {s}, ![r].item = s, ![r].pc = "ensure"]
          \/ \E pc \in {"batch", "describe"} : Goes(r, pc)
      BY <1>9 DEF Collect, Goes
    <2>2. CASE \E pc \in {"batch", "describe"} : Goes(r, pc)
      <3>1. run'[r].call = run[r].call /\ run'[r].pc # "crash"
        BY <2>2, GoesFields
      <3>2. QED
        BY <1>7, <1>9, <3>1 DEF Collecting, Collect
    <2>3. CASE \E s \in run[r].left : run' = [run EXCEPT ![r].left = @ \ {s}, ![r].item = s, ![r].pc = "ensure"]
      <3>1. run'[r].call = run[r].call /\ run'[r].pc # "crash"
        BY <1>1, <2>3 DEF IInv, TypeOK, Run
      <3>2. QED
        BY <1>7, <1>9, <3>1 DEF Collecting, Collect
    <2>4. QED
      BY <2>1, <2>2, <2>3
  <1>10. CASE CollectUsable(r) \/ Describe(r) \/ CallRaises(r)
    <2>1. run'[r].call = run[r].call /\ (run'[r].pc = "crash" => run'[r].left = run[r].call)
      BY <1>1, <1>10 DEF CollectUsable, Describe, CallRaises, IInv, TypeOK, Run
    <2>2. QED
      BY <1>7, <1>10, <2>1 DEF Collecting, CollectUsable, Describe, CallRaises
  <1>11. CASE Apply(r) \/ CrashMarks(r)
    <2>1. run[r].pc \in {"apply", "crash"}
          /\ (Goes(r, "batch") \/ \E s \in run[r].left : run' = [run EXCEPT ![r].left = @ \ {s}])
      BY <1>11 DEF Apply, CrashMarks
    <2>2. CASE Goes(r, "batch")
      BY <1>5, <2>2, GoesFields
    <2>3. CASE \E s \in run[r].left : run' = [run EXCEPT ![r].left = @ \ {s}]
      <3>1. run'[r].call = run[r].call /\ run'[r].pc = run[r].pc /\ run'[r].left \subseteq run[r].left
        BY <1>1, <2>3 DEF IInv, TypeOK, Run
      <3>2. QED
        BY <1>7, <2>1, <3>1 DEF Collecting
    <2>4. QED
      BY <2>1, <2>2, <2>3
  <1>12. CASE CaptionText(r) \/ Select(r)
    <2>1. CASE CaptionText(r)
      <3>1. run'[r].pc = run[r].pc /\ run[r].pc = "batch"
        BY <1>1, <2>1 DEF CaptionText, IInv, TypeOK, Run
      <3>2. QED
        BY <1>5, <3>1
    <2>2. CASE Select(r)
      BY <1>4, <1>5, <2>2, SelectFields DEF Select
    <2>3. QED
      BY <1>12, <2>1, <2>2
  <1>13. ~Archive(r) /\ ~Upload(r) /\ ~Embed(r) /\ ~Take(r) /\ ~Drained(r) /\ ~RefreshSettles(r) /\ ~WalkEnds(r)
    <2>1. run[r].pc \notin {"walk", "refreshed", "next", "send", "sent", "insert", "inserted"}
      BY <1>1, <1>4 DEF Placed, Places
    <2>2. QED
      BY <2>1 DEF Archive, Record, ReplaceTombstone, Restore, RefreshMedia, Walking, Upload, Send, SendAgain, SendFails,
        SendFlooded, UploadMarks, Embed, EmbedRaises, EmbedInserts, EmbedMarks, Take, Drained, RefreshSettles, WalkEnds
  <1>14. CASE \/ Crash(r) \/ BatchEnds(r) \/ Cleanup(r)
              \/ \E job \in Job, again \in SUBSET Again : Begin(r, job, again)
    <2>1. CASE Cleanup(r)
      <3>1. run[r].pc \in {"tidy", "clean", "unlinked"}
        BY <2>1 DEF Cleanup, Tidy, Unlink, ClearPaths, CleanEnds
      <3>2. run'[r].pc \in {"clean", "unlinked"} \/ run'[r] = Idle
        <4>1. CASE Tidy(r)
          BY <4>1, SelectFields DEF Tidy
        <4>2. CASE Unlink(r)
          BY <4>2, TakeFields DEF Take, Unlink
        <4>3. CASE ClearPaths(r)
          BY <4>3, GoesFields DEF ClearPaths
        <4>4. CASE CleanEnds(r)
          BY <4>4 DEF CleanEnds, IInv, TypeOK
        <4>5. QED
          BY <2>1, <4>1, <4>2, <4>3, <4>4 DEF Cleanup
      <3>3. QED
        BY <1>3, <3>2, IdleIsRun DEF Captions, Collecting
    <2>2. CASE Crash(r)
      BY <1>3, <2>2, IdleIsRun DEF Crash, Captions, Collecting, IInv, TypeOK
    <2>3. CASE BatchEnds(r)
      BY <1>3, <2>3, GoesFields DEF BatchEnds, Captions, Collecting
    <2>4. CASE \E job \in Job, again \in SUBSET Again : Begin(r, job, again)
      BY <1>4, <2>4 DEF Begin
    <2>5. QED
      BY <1>14, <2>1, <2>2, <2>3, <2>4
  <1>15. QED
    BY <1>6, <1>8, <1>9, <1>10, <1>11, <1>12, <1>13, <1>14 DEF Acts, Continue, Caption

LEMMA IndexTurns ==
  ASSUME IInv, IndexedInv, NEW r \in Runner, Acts(r)
  PROVE  IndexOf(run'[r])
  <1>1. run[r] \in Run /\ IndexOf(run[r]) /\ Placed(r, run[r])
    BY Begun DEF IndexedInv
  <1>2. CASE Captions(run'[r]) \/ run'[r].pc = "crash"
    BY <1>2, IndexCaptions
  <1>3. CASE ~Embeds(run'[r]) /\ ~(Captions(run'[r]) \/ run'[r].pc = "crash")
    BY <1>3 DEF IndexOf
  <1>4. CASE Embeds(run'[r])
    <2>1. run'[r].job = "embed" /\ run'[r].pc \in {"next", "insert", "inserted"}
      BY <1>4 DEF Embeds
    <2>2. run[r].job = "embed" /\ run[r].pc \in Places("embed")
      BY <1>1, <2>1, JobStays, IdleIsRun DEF Placed
    <2>3. ~Captions(run'[r]) /\ run'[r].pc # "crash"
      BY <2>1 DEF Captions
    <2>4. CASE Select(r)
      <3>1. run[r].pc = "select"
        BY <2>4 DEF Select
      <3>2. run'[r].todo = {Read(i) : i \in {j \in Item : Pending(j, run[r].job, run[r].again)}} /\ run'[r].pc = "next"
        BY <2>2, <2>4, <3>1, SelectFields
      <3>3. \A s \in run'[r].todo : row[s.id].caption = "done"
        BY <2>2, <3>2 DEF Pending, Read
      <3>4. QED
        BY <2>3, <3>2, <3>3 DEF IndexOf, InHand, Holding
    <2>5. CASE Take(r)
      <3>1. run[r].pc = "next" /\ ~Unlink(r) /\ Embeds(run[r])
        BY <2>2, <2>5 DEF Take, Unlink, Embeds
      <3>2. PICK s \in run[r].todo : run'[r].todo = run[r].todo \ {s} /\ run'[r].item = s
        BY <2>5, TakeFields
      <3>3. QED
        BY <1>1, <2>3, <3>1, <3>2 DEF IndexOf, InHand
    <2>6. CASE Embed(r)
      <3>1. run[r].pc \in {"insert", "inserted"} /\ Embeds(run[r])
        BY <2>2, <2>6 DEF Embed, EmbedRaises, EmbedInserts, EmbedMarks, Embeds
      <3>2. CASE EmbedInserts(r)
        <4>1. run'[r].todo = run[r].todo /\ run'[r].item = run[r].item
          BY <1>1, <3>2 DEF EmbedInserts, Goes, IInv, TypeOK, Run
        <4>2. QED
          BY <1>1, <2>3, <3>1, <4>1 DEF IndexOf, InHand, Holding
      <3>3. CASE EmbedRaises(r) \/ EmbedMarks(r)
        <4>1. run'[r].todo = run[r].todo /\ run'[r].pc = "next"
          BY <3>3, GoesFields DEF EmbedRaises, EmbedMarks
        <4>2. QED
          BY <1>1, <2>3, <3>1, <4>1 DEF IndexOf, InHand, Holding
      <3>4. QED
        BY <2>6, <3>2, <3>3 DEF Embed
    <2>7. ~(Archive(r) \/ CallRaises(r) \/ RefreshSettles(r) \/ WalkEnds(r) \/ Ensure(r) \/ Upload(r) \/ Caption(r))
      <3>1. run[r].pc \notin {"walk", "refreshed", "ensure", "fetched", "send", "sent", "batch", "collect", "have",
                              "describe", "apply", "crash"}
        BY <2>2 DEF Places
      <3>2. QED
        BY <3>1 DEF Archive, Record, ReplaceTombstone, Restore, RefreshMedia, Walking, CallRaises, RefreshSettles, WalkEnds,
          Ensure, EnsureReturns, EnsureFetches, EnsureMarks, EnsureRaises,
          Upload, Send, SendAgain, SendFails, SendFlooded, UploadMarks,
          Caption, CaptionText, PlanCall, BatchEnds, Collect, CollectUsable, CollectUnusable, CrashMarks, Describe, Apply
    <2>8. ~(Crash(r) \/ Drained(r) \/ Cleanup(r) \/ \E job \in Job, again \in SUBSET Again : Begin(r, job, again))
      <3>1. ~Crash(r) /\ ~CleanEnds(r)
        BY <2>1, IdleIsRun DEF Crash, CleanEnds, IInv, TypeOK
      <3>2. ~Drained(r)
        BY <2>1, <2>2, GoesFields DEF Drained, Goes
      <3>3. ~Tidy(r)
        BY <2>1, SelectFields DEF Tidy
      <3>4. ~Unlink(r)
        BY <2>1, TakeFields DEF Take, Unlink
      <3>5. ~ClearPaths(r)
        BY <2>1, GoesFields DEF ClearPaths
      <3>6. ~\E job \in Job, again \in SUBSET Again : Begin(r, job, again)
        BY <2>2 DEF Begin, Places
      <3>7. QED
        BY <3>1, <3>2, <3>3, <3>4, <3>5, <3>6 DEF Cleanup
    <2>9. QED
      BY <2>4, <2>5, <2>6, <2>7, <2>8 DEF Acts, Continue
  <1>5. QED
    BY <1>2, <1>3, <1>4

LEMMA DoneIsRecorded ==
  ASSUME IInv, NEW i \in Item, row[i].caption = "done"
  PROVE  Recorded(i)
  <1>1. New("absent", "none").caption # "done" /\ Arrival("tombstone").caption # "done"
    BY ArrivalColumns DEF New, Shapes
  <1>2. QED
    BY <1>1 DEF IInv, Plain, Recorded

LEMMA IndexedStays ==
  ASSUME IInv, IndexedInv, Alone({"caption", "embed"}), [Next]_vars
  PROVE  IndexedInv'
  <1>1. CASE UNCHANGED vars
    BY <1>1 DEF vars, IndexedInv, IndexedIsCaptioned, IndexOf, Embeds, CaptionDue, Ahead, Captions, InHand
  <1>2. CASE Next
    <2>1. PICK r \in Runner : Acts(r)
      BY <1>2 DEF Next, Acts
    <2>2. /\ CaptionEffect(r) /\ EmbedEffect(r) /\ CaptionDue'
          /\ row \in [Item -> Row] /\ IndexedIsCaptioned
      <3>1. Alone({"caption"})
        BY DEF Alone
      <3>2. QED
        BY <2>1, <3>1, DueStays, EveryCaptionEffect, EveryEmbedEffect DEF IndexedInv, IInv, TypeOK
    <2>3. \A q \in Runner : IndexOf(run[q]) /\ IndexOf(run'[q])
      BY <2>1, <2>2, IndexTurns DEF IndexedInv, CaptionEffect
    <2>4. \A q \in Runner : Placed(q, run[q]) /\ Placed(q, run'[q])
      BY <2>1, ActsKeepsInv DEF IInv, Placed
    <2>5. \A q \in Runner : /\ Captions(run'[q]) => "caption" \in Jobs[q]
                            /\ Embeds(run'[q]) => "embed" \in Jobs[q]
      BY <2>4 DEF Placed, Captions, Collecting, Embeds
    <2>6. Captions(run[r]) => "caption" \in Jobs[r] /\ run[r].job = "caption"
      BY <2>4 DEF Placed, Captions, Collecting
    <2>7. run[r].pc \in {"insert", "inserted"} => /\ Embeds(run[r]) /\ "embed" \in Jobs[r] /\ run[r].job = "embed"
                                                  /\ Hand(r) \in Item /\ row[Hand(r)].caption = "done"
      <3>1. ASSUME run[r].pc \in {"insert", "inserted"}
            PROVE  Embeds(run[r]) /\ "embed" \in Jobs[r] /\ run[r].job = "embed"
        BY <2>4, <3>1, ConstantsAssumption DEF Placed, Places, Job, Embeds
      <3>2. ASSUME run[r].pc \in {"insert", "inserted"}
            PROVE  Hand(r) \in Item /\ run[r].item \in InHand(run[r])
        BY <3>2, HandIsRecorded DEF InHand, Holding
      <3>3. QED
        BY <2>3, <3>1, <3>2 DEF IndexOf, Hand
    \* The two jobs are one runner's, which does one of them at a time.
    <2>8. ASSUME NEW q \in Runner, \/ Captions(run'[q]) /\ run[r].job = "embed" /\ "embed" \in Jobs[r]
                                   \/ Embeds(run'[q]) /\ Captions(run[r])
          PROVE  FALSE
      <3>1. q = r
        BY <2>5, <2>6, <2>8 DEF Alone
      <3>2. run'[r].job = run[r].job
        BY <2>1, <2>8, <3>1, JobStays, IdleIsRun DEF Captions, Collecting, Embeds
      <3>3. QED
        BY <2>6, <2>8, <3>1, <3>2 DEF Captions, Embeds
    <2>9. IndexedIsCaptioned'
      <3> SUFFICES ASSUME NEW i \in Item, row'[i].embed = "done"
                   PROVE  row'[i].caption = "done"
        BY DEF IndexedIsCaptioned
      <3>1. CASE EmbedKept(i)
        <4>1. row[i].caption = "done" /\ row[i].embed = "done" /\ Recorded(i)
          BY <2>2, <3>1, DoneIsRecorded DEF EmbedKept, IndexedIsCaptioned
        <4>2. ASSUME NEW s \in run[r].left, run[r].pc = "crash", s.id = i, Captions(run[r])
              PROVE  FALSE
          BY <2>3, <4>1, <4>2 DEF IndexOf
        <4>3. QED
          BY <2>2, <4>1, <4>2 DEF CaptionEffect, CaptionWaits, CaptionOpens, CaptionSettles, CaptionKept, Unsettled
      <3>2. CASE ~EmbedKept(i)
        <4>1. run[r].pc \in {"insert", "inserted"} /\ i = Hand(r) /\ CaptionKept(i)
          BY <2>2, <3>2 DEF EmbedEffect
        <4>2. QED
          BY <2>7, <4>1 DEF CaptionKept
      <3>3. QED
        BY <3>1, <3>2
    <2>10. ASSUME NEW q \in Runner
           PROVE  IndexOf(run[q])'
      <3>1. ASSUME Captions(run'[q]), run'[q].pc # "batch", NEW s \in run'[q].call
            PROVE  row'[s.id].embed # "done"
        <4>1. s.id \in Item /\ row[s.id].embed # "done"
          <5>1. s \in Snapshot
            BY <2>4, <3>1 DEF Placed, Run
          <5>2. QED
            BY <2>3, <3>1, <5>1 DEF IndexOf, Snapshot
        <4>2. run[r].pc \notin {"insert", "inserted"}
          <5>1. CASE run[r].job = "embed" /\ "embed" \in Jobs[r]
            BY <2>8, <3>1, <5>1
          <5>2. QED
            BY <2>7, <5>1
        <4>3. QED
          BY <2>2, <4>1, <4>2 DEF EmbedEffect, EmbedKept
      <3>2. ASSUME Embeds(run'[q]), NEW s \in run'[q].todo \cup InHand(run'[q])
            PROVE  row'[s.id].caption = "done"
        <4>1. s.id \in Item /\ row[s.id].caption = "done"
          BY <2>3, <2>4, <3>2 DEF IndexOf, Placed, Run, Snapshot, InHand
        <4>2. ~Captions(run[r])
          BY <2>8, <3>2
        <4>3. QED
          BY <2>2, <4>1, <4>2, DoneIsRecorded DEF CaptionEffect, CaptionWaits, CaptionOpens, CaptionSettles, CaptionKept
      <3>3. run'[q].pc = "crash" => run'[q].left \subseteq run'[q].call
        BY <2>3 DEF IndexOf
      <3>4. QED
        BY <3>1, <3>2, <3>3 DEF IndexOf, Captions, Embeds, InHand
    <2>11. QED
      BY <2>2, <2>9, <2>10 DEF IndexedInv
  <1>3. QED
    BY <1>1, <1>2

\* "An item is never embedded before it has a caption" (pending_embed): while one
\* run at a time captions or indexes, a row that says it is indexed is captioned,
\* though a captioning call that raises fails what it has captioned.
THEOREM IndexedHasCaption == ASSUME Alone({"caption", "embed"}) PROVE Spec => []IndexedIsCaptioned
  <1>1. Init => IndexedInv
    <2> SUFFICES ASSUME Init PROVE IndexedInv
      OBVIOUS
    <2>1. \A i \in Item : row[i].embed = "pending"
      BY DEF Init, New
    <2>2. \A r \in Runner : run[r].pc = "idle"
      BY IdleIsRun DEF Init
    <2>3. \A r \in Runner : ~Captions(run[r]) /\ ~Embeds(run[r])
      BY <2>2 DEF Captions, Collecting, Embeds
    <2>4. QED
      BY <2>1, <2>2, <2>3 DEF IndexedInv, IndexedIsCaptioned, CaptionDue, IndexOf
  <1>2. IndexedInv => IndexedIsCaptioned
    BY DEF IndexedInv
  <1>3. QED
    BY <1>1, <1>2, IndexedStays, InitIsInv, NextKeepsInv, PTL DEF Spec

-----------------------------------------------------------------------------
(* Delivery                                                                *)

Uploads(l) == l.job = "upload" /\ l.pc \in {"next", "ensure", "fetched", "send", "sent"}

\* What an uploading run has before it is still to be uploaded, and what is not
\* uploaded was shown as often as that is in doubt or about to be recorded.
Sending(l) == l.todo \cup InHand(l)

Unsent == {"pending", "failed"}

UploadDue == \A r \in Runner : Uploads(run[r]) => \A s \in Sending(run[r]) : row[s.id].upload \in Unsent

Waits(i) == \E r \in Runner : run[r].pc = "sent" /\ Hand(r) = i

DeliveryInv ==
  /\ UploadDue
  /\ \A i \in Item : row[i].upload # "done" => sent[i].times = sent[i].doubts + (IF Waits(i) THEN 1 ELSE 0)

\* What a step does to uploads: nothing; or an item arrives or is restored; or the
\* uploading run shows, fails, records or forgets the item in its hands.
UploadKept(i) == row'[i].upload = row[i].upload /\ (row'[i].archive = "absent" <=> row[i].archive = "absent")

SentKept(i) == sent'[i].times = sent[i].times /\ sent'[i].doubts = sent[i].doubts

UploadWaits(r) ==
  /\ \A i \in Item : UploadKept(i) /\ SentKept(i)
  /\ run[r].pc # "sent" /\ run'[r].pc # "sent"
  /\ Uploads(run'[r]) => \A t \in Sending(run'[r]) : row[t.id].upload \in Unsent

UploadOpens(i) ==
  /\ run' = run /\ sent' = sent /\ \A j \in Item \ {i} : UploadKept(j)
  /\ \/ UploadKept(i)
     \/ /\ row[i].archive = "absent" \/ row[i].upload = "skipped"
        /\ Recorded(i) => row[i].gone
        /\ row'[i].archive # "absent" /\ row'[i].upload \in {"pending", "skipped"}

UploadWorks(r) ==
  /\ Uploads(run[r]) /\ run[r].item \in Sending(run[r]) /\ Hand(r) \in Item /\ Recorded(Hand(r))
  /\ \A j \in Item \ {Hand(r)} : UploadKept(j) /\ SentKept(j)
  /\ row'[Hand(r)].archive # "absent"
  /\ Uploads(run'[r]) =>
       \A t \in Sending(run'[r]) : t \in Sending(run[r]) /\ (t.id = Hand(r) => UploadKept(Hand(r)))
  /\ \/ /\ run[r].pc = "send" /\ run'[r].pc = "sent" /\ run'[r].item = run[r].item
        /\ UploadKept(Hand(r)) /\ sent'[Hand(r)].times = sent[Hand(r)].times + 1
        /\ sent'[Hand(r)].doubts = sent[Hand(r)].doubts
     \/ /\ run[r].pc \in {"ensure", "send"} /\ run'[r].pc # "sent"
        /\ UploadKept(Hand(r)) \/ row'[Hand(r)].upload = "failed"
        /\ \/ SentKept(Hand(r))
           \/ /\ sent'[Hand(r)].times = sent[Hand(r)].times + 1
              /\ sent'[Hand(r)].doubts = sent[Hand(r)].doubts + 1
     \/ /\ run[r].pc = "sent" /\ run'[r].pc # "sent"
        /\ row'[Hand(r)].upload = "done" /\ SentKept(Hand(r))
     \/ /\ run[r].pc = "sent" /\ run'[r].pc # "sent" /\ UploadKept(Hand(r))
        /\ sent'[Hand(r)].times = sent[Hand(r)].times /\ sent'[Hand(r)].doubts = sent[Hand(r)].doubts + 1

UploadEffect(r) ==
  /\ \A q \in Runner \ {r} : run'[q] = run[q]
  /\ UploadWaits(r) \/ UploadWorks(r) \/ \E i \in Item : UploadOpens(i)

LEMMA MarksKeepUpload ==
  ASSUME IInv, NEW i \in Item, Recorded(i),
         \/ MarkArchiveFailed(i) \/ MarkEmbedded(i) \/ MarkEmbedFailed(i) \/ \E paths \in BOOLEAN : MarkArchived(i, paths)
         \/ MarkCaptioned(i) \/ MarkCaptionRefused(i) \/ MarkCaptionFailed(i)
         \/ row' = [row EXCEPT ![i].paths = FALSE] \/ row' = [row EXCEPT ![i].media = "none"]
  PROVE  \A j \in Item : UploadKept(j)
  <1>0. /\ row \in [Item -> Row] /\ row[i].archive # "absent"
        /\ row[i] = [archive |-> row[i].archive, upload |-> row[i].upload,
               caption |-> row[i].caption, embed |-> row[i].embed, tries |-> row[i].tries,
               paths |-> row[i].paths, media |-> row[i].media, gone |-> row[i].gone]
    BY DEF IInv, TypeOK, Row, Recorded
  <1>1. CASE MarkCaptioned(i) \/ MarkCaptionRefused(i) \/ MarkCaptionFailed(i)
    BY <1>0, <1>1 DEF MarkCaptioned, MarkCaptionRefused, MarkCaptionFailed, UploadKept
  <1>2. CASE \E paths \in BOOLEAN : MarkArchived(i, paths)
    <2>1. PICK paths \in BOOLEAN : row' = [row EXCEPT ![i].archive = "archived", ![i].paths = paths]
      BY <1>2 DEF MarkArchived
    <2>2. QED
      BY <1>0, <2>1 DEF UploadKept
  <1>3. CASE \/ MarkArchiveFailed(i) \/ MarkEmbedded(i) \/ MarkEmbedFailed(i)
             \/ row' = [row EXCEPT ![i].paths = FALSE] \/ row' = [row EXCEPT ![i].media = "none"]
    BY <1>0, <1>3 DEF MarkArchiveFailed, MarkEmbedded, MarkEmbedFailed, UploadKept
  <1>4. QED
    BY <1>1, <1>2, <1>3

LEMMA UploadWalks ==
  ASSUME IInv, NEW r \in Runner, Archive(r)
  PROVE  UploadEffect(r)
  <1>1. PICK i \in Item : \/ \E shape \in Shape : Record(r, i, shape)
                          \/ \E media \in {"none", "urls"} : ReplaceTombstone(r, i, media)
                          \/ \E media \in {"none", "urls"} : Restore(r, i, media)
                          \/ RefreshMedia(r, i)
    BY DEF Archive
  <1>2. CASE \/ \E shape \in Shape : Record(r, i, shape)
             \/ \E media \in {"none", "urls"} : ReplaceTombstone(r, i, media)
    <2>1. /\ run' = run /\ sent' = sent /\ \A j \in Item \ {i} : row'[j] = row[j]
          /\ row'[i].archive # "absent" /\ row'[i].upload \in {"pending", "skipped"} /\ ~Recorded(i)
      BY <1>2, FreshRow
    <2>2. row[i].archive = "absent" \/ row[i].upload = "skipped"
      BY <2>1, ArrivalColumns DEF IInv, Plain, Recorded, Shapes
    <2>3. QED
      BY <2>1, <2>2 DEF UploadEffect, UploadOpens, UploadKept
  <1>3. CASE \E media \in {"none", "urls"} : Restore(r, i, media)
    <2>1. PICK media \in {"none", "urls"} : Restore(r, i, media)
      BY <1>3
    <2>2. /\ row \in [Item -> Row] /\ run' = run /\ sent' = sent /\ row' = [row EXCEPT ![i] = row'[i]]
          /\ row[i].archive # "absent" /\ row'[i].archive # "absent" /\ row[i].gone
          /\ row'[i].upload = IF row[i].upload = "skipped" THEN "pending" ELSE row[i].upload
      BY <2>1, RestoredRow DEF Restore, IInv, TypeOK
    <2>3. \A j \in Item \ {i} : row'[j] = row[j]
      BY <2>2
    <2>4. QED
      BY <2>2, <2>3 DEF UploadEffect, UploadOpens, UploadKept
  <1>4. CASE RefreshMedia(r, i)
    <2>1. /\ row' = [row EXCEPT ![i].media = "none"] /\ sent' = sent /\ Recorded(i)
          /\ run' = [run EXCEPT ![r].pc = "refreshed", ![r].item = Read(i)] /\ run[r].pc = "walk"
      BY <1>4 DEF RefreshMedia, Walking, Recorded
    <2>2. run'[r].pc = "refreshed" /\ \A q \in Runner \ {r} : run'[q] = run[q]
      BY <2>1 DEF IInv, TypeOK, Run
    <2>3. QED
      BY <2>1, <2>2, MarksKeepUpload DEF UploadEffect, UploadWaits, Uploads, SentKept
  <1>5. QED
    BY <1>1, <1>2, <1>3, <1>4

\* Every step but the walk's and the uploading run's leaves the column and what
\* was sent alone.
LEMMA UploadElse ==
  ASSUME IInv, NEW r \in Runner, Acts(r), ~Archive(r), ~Upload(r), ~(run[r].job = "upload" /\ EnsureRaises(r)),
         ~(Crash(r) /\ run[r].pc = "sent")
  PROVE  sent' = sent /\ \A i \in Item : UploadKept(i)
  <1>1. row' = row => \A i \in Item : UploadKept(i)
    BY DEF UploadKept
  <1>2. CASE Ensure(r) \/ Embed(r)
    <2>1. sent' = sent /\ run[r].pc \in {"ensure", "fetched", "insert", "inserted"}
      BY <1>2 DEF Ensure, EnsureReturns, EnsureFetches, EnsureMarks, EnsureRaises, Embed, EmbedRaises, EmbedInserts, EmbedMarks
    <2>2. Hand(r) \in Item /\ Recorded(Hand(r))
      BY <2>1, HandIsRecorded DEF Holding
    <2>3. \/ row' = row \/ MarkArchived(Hand(r), TRUE) \/ MarkArchiveFailed(Hand(r))
          \/ MarkCaptionFailed(Hand(r)) \/ MarkEmbedded(Hand(r)) \/ MarkEmbedFailed(Hand(r))
      BY <1>2 DEF Ensure, EnsureReturns, EnsureFetches, EnsureMarks, EnsureRaises, Embed, EmbedRaises, EmbedInserts, EmbedMarks
    <2>4. QED
      BY <1>1, <2>1, <2>2, <2>3, MarksKeepUpload
  <1>3. CASE RefreshSettles(r) \/ ClearPaths(r) \/ CollectUnusable(r)
    <2>1. sent' = sent /\ run[r].pc \in {"refreshed", "unlinked", "have"}
      BY <1>3 DEF RefreshSettles, ClearPaths, CollectUnusable
    <2>2. Hand(r) \in Item /\ Recorded(Hand(r))
      BY <2>1, HandIsRecorded DEF Holding
    <2>3. \/ MarkArchived(Hand(r), FALSE) \/ row' = [row EXCEPT ![Hand(r)].paths = FALSE] \/ MarkCaptioned(Hand(r))
      BY <1>3 DEF RefreshSettles, ClearPaths, CollectUnusable
    <2>4. QED
      BY <1>1, <2>1, <2>2, <2>3, MarksKeepUpload
  <1>4. CASE CaptionText(r) \/ CrashMarks(r) \/ Apply(r)
    <2>1. /\ sent' = sent
          /\ \/ row' = row
             \/ \E s \in run[r].todo \cup run[r].left :
                  MarkCaptioned(s.id) \/ MarkCaptionRefused(s.id) \/ MarkCaptionFailed(s.id)
      BY <1>4 DEF CaptionText, CrashMarks, Apply
    <2>2. \A s \in run[r].todo \cup run[r].left : s.id \in Item /\ Recorded(s.id)
      BY WhereCaptions DEF Held
    <2>3. QED
      BY <1>1, <2>1, <2>2, MarksKeepUpload
  <1>5. CASE \/ \E job \in Job, again \in SUBSET Again : Begin(r, job, again)
             \/ Crash(r) \/ CallRaises(r) \/ WalkEnds(r) \/ Select(r) \/ Take(r) \/ Drained(r)
             \/ PlanCall(r) \/ BatchEnds(r) \/ Collect(r) \/ CollectUsable(r) \/ Describe(r)
             \/ Tidy(r) \/ Unlink(r) \/ CleanEnds(r)
    <2>1. row' = row /\ sent' = sent
      BY <1>5 DEF Begin, Crash, CallRaises, WalkEnds, Select, Take, Drained, PlanCall, BatchEnds, Collect, CollectUsable,
                  Describe, Tidy, Unlink, CleanEnds
    <2>2. QED
      BY <1>1, <2>1
  <1>6. QED
    BY <1>2, <1>3, <1>4, <1>5 DEF Acts, Continue, Caption, Cleanup

\* An uploading run turns to what is still to be uploaded.
LEMMA UploadTurns ==
  ASSUME IInv, UploadDue, NEW r \in Runner, Acts(r), ~Upload(r), ~(run[r].job = "upload" /\ EnsureRaises(r)),
         Uploads(run'[r])
  PROVE  run'[r].pc # "sent" /\ \A t \in Sending(run'[r]) : row[t.id].upload \in Unsent
  <1>1. run'[r].job = "upload" /\ run'[r].pc \in {"next", "ensure", "fetched", "send", "sent"}
    BY DEF Uploads
  <1>2. run[r].job = "upload" /\ Placed(r, run[r]) /\ run[r].pc \in Places("upload")
    BY <1>1, JobStays, IdleIsRun DEF Placed
  <1>3. run[r] \in Run /\ (Uploads(run[r]) => \A t \in Sending(run[r]) : row[t.id].upload \in Unsent)
    BY Begun DEF UploadDue
  <1>4. CASE Select(r)
    <2>1. run[r].pc = "select"
      BY <1>4 DEF Select
    <2>2. run'[r].todo = {Read(i) : i \in {j \in Item : Pending(j, run[r].job, run[r].again)}} /\ run'[r].pc = "next"
      BY <1>2, <1>4, <2>1, SelectFields
    <2>3. \A s \in run'[r].todo : row[s.id].upload \in Unsent
      BY <1>2, <2>2 DEF Pending, Read, Unsent
    <2>4. QED
      BY <2>2, <2>3 DEF Sending, InHand, Holding
  <1>5. CASE Take(r)
    <2>1. run[r].pc = "next" /\ ~Unlink(r) /\ Uploads(run[r])
      BY <1>2, <1>5 DEF Take, Unlink, Uploads
    <2>2. PICK s \in run[r].todo : run'[r].todo = run[r].todo \ {s} /\ run'[r].item = s /\ run'[r].pc = "ensure"
      BY <1>2, <1>5, <2>1, TakeFields
    <2>3. QED
      BY <1>3, <2>1, <2>2 DEF Sending, InHand
  <1>6. CASE Ensure(r)
    <2>1. run[r].pc \in {"ensure", "fetched"} /\ Uploads(run[r]) /\ run[r].item \in Snapshot
      BY <1>2, <1>6, HandIsRecorded DEF Uploads, Ensure, EnsureReturns, EnsureFetches, EnsureMarks, EnsureRaises, Holding
    <2>2. row[Hand(r)].upload \in Unsent /\ \A t \in run[r].todo : row[t.id].upload \in Unsent
      BY <1>3, <2>1 DEF Sending, InHand, Holding, Hand
    <2>3. Goes(r, "fetched") \/ \E files \in BOOLEAN : WithMedia(r, files)
      BY <1>2, <1>6 DEF Ensure, EnsureReturns, EnsureFetches, EnsureMarks, EnsureRaises
    <2>4. CASE Goes(r, "fetched")
      <3>1. run'[r].pc = "fetched" /\ run'[r].todo = run[r].todo /\ run'[r].item = run[r].item
        BY <1>3, <2>4 DEF Goes, IInv, TypeOK, Run
      <3>2. QED
        BY <2>2, <3>1 DEF Sending, InHand, Holding, Hand
    <2>5. CASE \E files \in BOOLEAN : WithMedia(r, files)
      <3>1. run'[r].pc = "send" /\ run'[r].todo = run[r].todo /\ run'[r].item.id = Hand(r)
        BY <1>2, <2>1, <2>5, HasMediaFields DEF Hand
      <3>2. QED
        BY <2>2, <3>1 DEF Sending, InHand, Holding
    <2>6. QED
      BY <2>3, <2>4, <2>5
  <1>7. ~(Archive(r) \/ CallRaises(r) \/ RefreshSettles(r) \/ WalkEnds(r) \/ Embed(r) \/ Caption(r))
    <2>1. run[r].pc \notin {"walk", "refreshed", "insert", "inserted", "batch", "collect", "have",
                            "describe", "apply", "crash"}
      BY <1>2 DEF Places
    <2>2. QED
      BY <1>2, <2>1, ConstantsAssumption DEF Archive, Record, ReplaceTombstone, Restore, RefreshMedia, Walking, CallRaises,
        RefreshSettles, WalkEnds, Embed, EmbedRaises, EmbedInserts, EmbedMarks,
        Caption, CaptionText, PlanCall, BatchEnds, Collect, CollectUsable, CollectUnusable, CrashMarks, Describe, Apply
  <1>8. ~(Crash(r) \/ Drained(r) \/ Cleanup(r) \/ \E job \in Job, again \in SUBSET Again : Begin(r, job, again))
    <2>1. ~Crash(r) /\ ~CleanEnds(r)
      BY <1>1, IdleIsRun DEF Crash, CleanEnds, IInv, TypeOK
    <2>2. ~Drained(r)
      BY <1>1, <1>2, GoesFields DEF Drained, Goes
    <2>3. ~Tidy(r)
      BY <1>1, SelectFields DEF Tidy
    <2>4. ~Unlink(r)
      BY <1>1, TakeFields DEF Take, Unlink
    <2>5. ~ClearPaths(r)
      BY <1>1, GoesFields DEF ClearPaths
    <2>6. ~\E job \in Job, again \in SUBSET Again : Begin(r, job, again)
      BY <1>2 DEF Begin, Places
    <2>7. QED
      BY <2>1, <2>2, <2>3, <2>4, <2>5, <2>6 DEF Cleanup
  <1>9. QED
    BY <1>4, <1>5, <1>6, <1>7, <1>8 DEF Acts, Continue

\* A step is one run's.
LEMMA OthersStay ==
  ASSUME IInv, NEW r \in Runner, Acts(r)
  PROVE  \A q \in Runner \ {r} : run'[q] = run[q]
  <1>0. run \in [Runner -> Run]
    BY DEF IInv, TypeOK
  <1>1. CASE \/ \E job \in Job, again \in SUBSET Again : Begin(r, job, again)
             \/ Crash(r) \/ CallRaises(r) \/ Archive(r)
    BY <1>0, <1>1 DEF Begin, Crash, CallRaises, Archive, Record, ReplaceTombstone, Restore, RefreshMedia
  <1>2. CASE RefreshSettles(r) \/ WalkEnds(r) \/ Drained(r)
    BY <1>0, <1>2 DEF RefreshSettles, WalkEnds, Drained, Goes, Settled
  <1>3. CASE Select(r) \/ Tidy(r)
    BY <1>3, SelectFields
  <1>4. CASE Take(r) \/ Unlink(r)
    BY <1>4, TakeFields
  <1>5. CASE Ensure(r)
    BY <1>0, <1>5 DEF Ensure, EnsureReturns, EnsureFetches, EnsureMarks, EnsureRaises, WithMedia, Goes, Settled
  <1>6. CASE Upload(r) \/ Embed(r)
    BY <1>0, <1>6 DEF Upload, Send, SendAgain, SendFails, SendFlooded, UploadMarks, Embed, EmbedRaises, EmbedInserts,
                      EmbedMarks, Goes, Settled
  <1>7. CASE Caption(r)
    BY <1>0, <1>7 DEF Caption, CaptionText, PlanCall, BatchEnds, Collect, CollectUsable, CollectUnusable, CrashMarks,
                      Describe, Apply, Goes, Settled
  <1>8. CASE ClearPaths(r) \/ CleanEnds(r)
    BY <1>0, <1>8 DEF ClearPaths, CleanEnds, Settled
  <1>9. QED
    BY <1>1, <1>2, <1>3, <1>4, <1>5, <1>6, <1>7, <1>8 DEF Acts, Continue, Cleanup

LEMMA MarksUpload ==
  ASSUME IInv, NEW i \in Item, Recorded(i), MarkUploaded(i) \/ MarkUploadFailed(i)
  PROVE  /\ row'[i].upload = IF MarkUploaded(i) THEN "done" ELSE "failed"
         /\ row'[i].archive = row[i].archive /\ \A j \in Item \ {i} : UploadKept(j)
  <1>1. row \in [Item -> Row] /\ row[i] = [archive |-> row[i].archive, upload |-> row[i].upload,
               caption |-> row[i].caption, embed |-> row[i].embed, tries |-> row[i].tries,
               paths |-> row[i].paths, media |-> row[i].media, gone |-> row[i].gone]
    BY DEF IInv, TypeOK, Row
  <1>2. MarkUploaded(i) => /\ row'[i].upload = "done" /\ row'[i].archive = row[i].archive
                           /\ \A j \in Item \ {i} : row'[j] = row[j]
    BY <1>1 DEF MarkUploaded
  <1>3. MarkUploadFailed(i) => /\ row'[i].upload = "failed" /\ row'[i].archive = row[i].archive
                               /\ \A j \in Item \ {i} : row'[j] = row[j]
    BY <1>1 DEF MarkUploadFailed
  <1>4. QED
    BY <1>2, <1>3 DEF UploadKept

\* Where a run is that sends, and that what it will send later is another item.
LEMMA WhereUploads ==
  ASSUME IInv, NEW r \in Runner,
         run[r].pc \in {"send", "sent"} \/ (run[r].pc \in {"ensure", "fetched"} /\ run[r].job = "upload")
  PROVE  /\ run[r].job = "upload" /\ Uploads(run[r]) /\ run[r].item \in Sending(run[r]) /\ run[r] \in Run
         /\ Hand(r) \in Item /\ Recorded(Hand(r)) /\ row[Hand(r)].archive # "absent"
         /\ run[r].todo \subseteq Sending(run[r]) /\ \A t \in run[r].todo : t.id # Hand(r)
  <1>1. Placed(r, run[r]) /\ Apart(run[r]) /\ run[r] \in Run
    BY Begun
  <1>2. run[r].job = "upload"
    BY <1>1, ConstantsAssumption DEF Placed, Places, Job
  <1>3. Hand(r) \in Item /\ Recorded(Hand(r)) /\ InHand(run[r]) = {run[r].item}
    BY HandIsRecorded DEF Holding, InHand
  <1>4. QED
    BY <1>1, <1>2, <1>3 DEF Uploads, Sending, Recorded, Apart, Separate, Hand

\* A doubtful send: shown or not.
LEMMA DoubtShows ==
  ASSUME IInv, NEW r \in Runner, Hand(r) \in Item, Delivered(r, TRUE) \/ UNCHANGED sent
  PROVE  /\ \A j \in Item \ {Hand(r)} : SentKept(j)
         /\ \/ SentKept(Hand(r))
            \/ /\ sent'[Hand(r)].times = sent[Hand(r)].times + 1
               /\ sent'[Hand(r)].doubts = sent[Hand(r)].doubts + 1
  <1>1. CASE Delivered(r, TRUE)
    BY <1>1, Shows DEF SentKept
  <1>2. CASE UNCHANGED sent
    BY <1>2 DEF SentKept
  <1>3. QED
    BY <1>1, <1>2

LEMMA UploadSends ==
  ASSUME IInv, NEW r \in Runner,
         Upload(r) \/ (run[r].job = "upload" /\ EnsureRaises(r)) \/ (Crash(r) /\ run[r].pc = "sent")
  PROVE  UploadEffect(r)
  <1>0. /\ run[r].job = "upload" /\ Uploads(run[r]) /\ run[r].item \in Sending(run[r]) /\ run[r] \in Run
        /\ Hand(r) \in Item /\ Recorded(Hand(r)) /\ row[Hand(r)].archive # "absent"
        /\ run[r].todo \subseteq Sending(run[r]) /\ \A t \in run[r].todo : t.id # Hand(r)
    <2>1. run[r].pc \in {"send", "sent"} \/ (run[r].pc \in {"ensure", "fetched"} /\ run[r].job = "upload")
      BY DEF Upload, Send, SendAgain, SendFails, SendFlooded, UploadMarks, EnsureRaises
    <2>2. QED
      BY <2>1, WhereUploads
  <1>1. row' = row => \A j \in Item : UploadKept(j)
    BY DEF UploadKept
  <1>2. CASE Send(r)
    <2>1. row' = row /\ run[r].pc = "send" /\ Goes(r, "sent") /\ Delivered(r, FALSE)
      BY <1>2 DEF Send
    <2>2. /\ run'[r].pc = "sent" /\ run'[r].item = run[r].item /\ run'[r].todo = run[r].todo
          /\ \A q \in Runner \ {r} : run'[q] = run[q]
      BY <1>0, <2>1 DEF Goes, IInv, TypeOK, Run
    <2>3. /\ \A j \in Item \ {Hand(r)} : SentKept(j)
          /\ sent'[Hand(r)].times = sent[Hand(r)].times + 1 /\ sent'[Hand(r)].doubts = sent[Hand(r)].doubts + 0
      BY <1>0, <2>1, Shows DEF SentKept
    <2>4. sent'[Hand(r)].doubts = sent[Hand(r)].doubts
      BY <1>0, <2>3 DEF IInv, TypeOK
    <2>5. Sending(run'[r]) = Sending(run[r])
      BY <2>1, <2>2 DEF Sending, InHand, Holding
    <2>6. UploadWorks(r)
      BY <1>0, <1>1, <2>1, <2>2, <2>3, <2>4, <2>5 DEF UploadWorks
    <2>7. QED
      BY <2>2, <2>6 DEF UploadEffect
  <1>3. CASE SendAgain(r)
    <2>1. row' = row /\ run[r].pc = "send" /\ (Delivered(r, TRUE) \/ UNCHANGED sent)
      BY <1>3 DEF SendAgain
    <2>2. /\ run'[r].pc = "send" /\ run'[r].item = run[r].item /\ run'[r].todo = run[r].todo
          /\ \A q \in Runner \ {r} : run'[q] = run[q]
      BY <1>0, <1>3 DEF SendAgain, IInv, TypeOK, Run
    <2>3. Sending(run'[r]) = Sending(run[r])
      BY <2>1, <2>2 DEF Sending, InHand, Holding
    <2>4. UploadWorks(r)
      BY <1>0, <1>1, <2>1, <2>2, <2>3, DoubtShows DEF UploadWorks
    <2>5. QED
      BY <2>2, <2>4 DEF UploadEffect
  <1>4. CASE SendFails(r)
    <2>1. /\ run[r].pc = "send" /\ MarkUploadFailed(Hand(r)) /\ Settled(r, "next")
          /\ Delivered(r, TRUE) \/ UNCHANGED sent
      BY <1>4 DEF SendFails
    <2>2. run'[r].pc = "next" /\ run'[r].todo = run[r].todo /\ \A q \in Runner \ {r} : run'[q] = run[q]
      BY <2>1, GoesFields
    <2>3. Sending(run'[r]) = run[r].todo
      BY <2>2 DEF Sending, InHand, Holding
    <2>4. row'[Hand(r)].upload = "failed" \/ UploadKept(Hand(r))
      BY <1>0, <2>1, MarksUpload DEF MarkUploadFailed, MarkUploaded, IInv, TypeOK, Row
    <2>5. row'[Hand(r)].archive # "absent" /\ \A j \in Item \ {Hand(r)} : UploadKept(j)
      BY <1>0, <2>1, MarksUpload
    <2>6. UploadWorks(r)
      BY <1>0, <2>1, <2>2, <2>3, <2>4, <2>5, DoubtShows DEF UploadWorks
    <2>7. QED
      BY <2>2, <2>6 DEF UploadEffect
  <1>5. CASE SendFlooded(r)
    <2>1. /\ row' = row /\ run[r].pc = "send" /\ (Delivered(r, TRUE) \/ UNCHANGED sent)
          /\ run' = [run EXCEPT ![r] = [Idle EXCEPT !.job = "upload", !.pc = "tidy"]]
      BY <1>5 DEF SendFlooded
    <2>2. run'[r].pc = "tidy" /\ \A q \in Runner \ {r} : run'[q] = run[q]
      BY <2>1 DEF Idle, IInv, TypeOK
    <2>3. UploadWorks(r)
      BY <1>0, <1>1, <2>1, <2>2, DoubtShows DEF UploadWorks, Uploads
    <2>4. QED
      BY <2>2, <2>3 DEF UploadEffect
  <1>6. CASE UploadMarks(r)
    <2>1. run[r].pc = "sent" /\ MarkUploaded(Hand(r)) /\ Settled(r, "next") /\ sent' = sent
      BY <1>6 DEF UploadMarks
    <2>2. run'[r].pc = "next" /\ run'[r].todo = run[r].todo /\ \A q \in Runner \ {r} : run'[q] = run[q]
      BY <2>1, GoesFields
    <2>3. Sending(run'[r]) = run[r].todo
      BY <2>2 DEF Sending, InHand, Holding
    <2>4. /\ row'[Hand(r)].upload = "done" /\ row'[Hand(r)].archive # "absent"
          /\ \A j \in Item \ {Hand(r)} : UploadKept(j)
      BY <1>0, <2>1, MarksUpload
    <2>5. UploadWorks(r)
      BY <1>0, <2>1, <2>2, <2>3, <2>4 DEF UploadWorks, SentKept
    <2>6. QED
      BY <2>2, <2>5 DEF UploadEffect
  <1>7. CASE run[r].job = "upload" /\ EnsureRaises(r)
    <2>1. run[r].pc = "ensure" /\ MarkUploadFailed(Hand(r)) /\ Settled(r, "next") /\ sent' = sent
      BY <1>7 DEF EnsureRaises
    <2>2. run'[r].pc = "next" /\ run'[r].todo = run[r].todo /\ \A q \in Runner \ {r} : run'[q] = run[q]
      BY <2>1, GoesFields
    <2>3. Sending(run'[r]) = run[r].todo
      BY <2>2 DEF Sending, InHand, Holding
    <2>4. row'[Hand(r)].upload = "failed" \/ UploadKept(Hand(r))
      BY <1>0, <2>1, MarksUpload DEF MarkUploadFailed, MarkUploaded, IInv, TypeOK, Row
    <2>5. row'[Hand(r)].archive # "absent" /\ \A j \in Item \ {Hand(r)} : UploadKept(j)
      BY <1>0, <2>1, MarksUpload
    <2>6. UploadWorks(r)
      BY <1>0, <2>1, <2>2, <2>3, <2>4, <2>5 DEF UploadWorks, SentKept
    <2>7. QED
      BY <2>2, <2>6 DEF UploadEffect
  <1>8. CASE Crash(r) /\ run[r].pc = "sent"
    <2>1. /\ row' = row /\ run' = [run EXCEPT ![r] = Idle] /\ run[r].pc = "sent"
          /\ sent' = [sent EXCEPT ![Hand(r)].doubts = @ + 1]
      BY <1>8 DEF Crash
    <2>2. run'[r] = Idle /\ run'[r].pc # "sent" /\ \A q \in Runner \ {r} : run'[q] = run[q]
      BY <2>1, IdleIsRun DEF IInv, TypeOK
    <2>3. /\ \A j \in Item \ {Hand(r)} : SentKept(j)
          /\ sent'[Hand(r)].times = sent[Hand(r)].times /\ sent'[Hand(r)].doubts = sent[Hand(r)].doubts + 1
      BY <1>0, <2>1 DEF SentKept, IInv, TypeOK
    <2>4. ~Uploads(run'[r])
      BY <2>2, IdleIsRun DEF Uploads
    <2>5. UploadWorks(r)
      BY <1>0, <1>1, <2>1, <2>2, <2>3, <2>4 DEF UploadWorks
    <2>6. QED
      BY <2>2, <2>5 DEF UploadEffect
  <1>9. QED
    BY <1>2, <1>3, <1>4, <1>5, <1>6, <1>7, <1>8 DEF Upload

LEMMA EveryUploadEffect ==
  ASSUME IInv, UploadDue, NEW r \in Runner, Acts(r)
  PROVE  UploadEffect(r)
  <1>1. CASE Upload(r) \/ (run[r].job = "upload" /\ EnsureRaises(r)) \/ (Crash(r) /\ run[r].pc = "sent")
    BY <1>1, UploadSends
  <1>2. CASE Archive(r)
    BY <1>2, UploadWalks
  <1>3. CASE /\ ~Archive(r) /\ ~Upload(r) /\ ~(run[r].job = "upload" /\ EnsureRaises(r))
             /\ ~(Crash(r) /\ run[r].pc = "sent")
    <2>1. sent' = sent /\ \A i \in Item : UploadKept(i)
      BY <1>3, UploadElse
    <2>2. Uploads(run'[r]) => run'[r].pc # "sent" /\ \A t \in Sending(run'[r]) : row[t.id].upload \in Unsent
      BY <1>3, UploadTurns
    <2>3. run'[r].pc = "sent" => Uploads(run'[r])
      <3>1. Placed(r, run'[r])
        BY ActsKeepsInv DEF IInv, Placed
      <3>2. QED
        BY <3>1, ConstantsAssumption DEF Placed, Places, Job, Uploads
    <2>4. run[r].pc # "sent"
      <3>1. ASSUME run[r].pc = "sent" PROVE ~Caption(r) /\ ~Embed(r) /\ ~Cleanup(r) /\ ~Ensure(r)
        BY <3>1 DEF Caption, CaptionText, PlanCall, BatchEnds, Collect, CollectUsable, CollectUnusable, CrashMarks, Describe,
          Apply, Embed, EmbedRaises, EmbedInserts, EmbedMarks, Cleanup, Tidy, Unlink, ClearPaths, CleanEnds,
          Ensure, EnsureReturns, EnsureFetches, EnsureMarks, EnsureRaises
      <3>2. ASSUME run[r].pc = "sent"
            PROVE  /\ ~RefreshSettles(r) /\ ~WalkEnds(r) /\ ~Select(r) /\ ~Take(r) /\ ~Drained(r) /\ ~CallRaises(r)
                   /\ ~\E job \in Job, again \in SUBSET Again : Begin(r, job, again)
        BY <3>2 DEF RefreshSettles, WalkEnds, Walking, Select, Take, Drained, CallRaises, Begin
      <3>3. QED
        BY <1>3, <3>1, <3>2 DEF Acts, Continue
    <2>5. \A q \in Runner \ {r} : run'[q] = run[q]
      BY OthersStay
    <2>6. QED
      BY <2>1, <2>2, <2>3, <2>4, <2>5 DEF UploadEffect, UploadWaits, SentKept
  <1>4. QED
    BY <1>1, <1>2, <1>3

\* What the abstract delivery sees of an item, and of a step that is about one item.
Status(i) == IF row[i].archive = "absent" \/ row[i].upload = "skipped" THEN "none" ELSE row[i].upload

Times(i) == sent[i].times
Doubts(i) == sent[i].doubts

LEMMA PromisedStep ==
  ASSUME NEW i \in Item, \A j \in Item \ {i} : Status(j)' = Status(j) /\ Times(j)' = Times(j) /\ Doubts(j)' = Doubts(j),
         Times(i) \in Nat, Doubts(i) \in Nat,
         \/ /\ Status(i)' = Status(i) \/ (Status(i) = "none" /\ Status(i)' = "pending")
            /\ Times(i)' = Times(i) /\ Doubts(i)' = Doubts(i)
         \/ /\ Status(i) \in Unsent /\ Times(i) = Doubts(i)
            /\ \/ Times(i)' = Times(i) + 1 /\ Doubts(i)' = Doubts(i) /\ Status(i)' = Status(i)
               \/ Times(i)' = Times(i) + 1 /\ Doubts(i)' = Doubts(i) + 1 /\ Status(i)' \in {Status(i), "failed"}
               \/ Times(i)' = Times(i) /\ Doubts(i)' = Doubts(i) /\ Status(i)' \in {Status(i), "failed"}
         \/ /\ Status(i) # "done" /\ Times(i) = Doubts(i) + 1 /\ Times(i)' = Times(i)
            /\ \/ Doubts(i)' = Doubts(i) + 1 /\ Status(i)' = Status(i)
               \/ Doubts(i)' = Doubts(i) /\ Status(i)' = "done"
  PROVE  [Promise!Next]_(Promise!vars)
  <1> DEFINE status == [j \in Item |-> Status(j)]
             shown  == [j \in Item |-> Times(j)]
             doubts == [j \in Item |-> Doubts(j)]
  <1>1. /\ status = [j \in Item |-> IF row[j].archive = "absent" \/ row[j].upload = "skipped" THEN "none"
                                    ELSE row[j].upload]
        /\ shown = [j \in Item |-> sent[j].times] /\ doubts = [j \in Item |-> sent[j].doubts]
    BY DEF Status, Times, Doubts
  <1>2. /\ status' = [status EXCEPT ![i] = Status(i)'] /\ shown' = [shown EXCEPT ![i] = Times(i)']
        /\ doubts' = [doubts EXCEPT ![i] = Doubts(i)']
    OBVIOUS
  <1>3. status[i] = Status(i) /\ shown[i] = Times(i) /\ doubts[i] = Doubts(i)
    OBVIOUS
  <1>4. /\ status = [status EXCEPT ![i] = Status(i)] /\ shown = [shown EXCEPT ![i] = Times(i)]
        /\ doubts = [doubts EXCEPT ![i] = Doubts(i)]
    OBVIOUS
  <1>5. Promise!vars = <<status, shown, doubts>> /\ Promise!vars' = <<status', shown', doubts'>>
    BY <1>1 DEF Promise!vars, Status, Times, Doubts
  <1>6. /\ Promise!Offer(i) <=> /\ status[i] = "none" /\ status' = [status EXCEPT ![i] = "pending"]
                                /\ shown' = shown /\ doubts' = doubts
        /\ Promise!Show(i) <=> /\ status[i] \in {"pending", "failed"} /\ ~(shown[i] > doubts[i])
                               /\ shown' = [shown EXCEPT ![i] = shown[i] + 1]
                               /\ \/ status' = status /\ doubts' = doubts
                                  \/ /\ doubts' = [doubts EXCEPT ![i] = doubts[i] + 1]
                                     /\ status' \in {status, [status EXCEPT ![i] = "failed"]}
        /\ Promise!Fail(i) <=> /\ status[i] \in {"pending", "failed"} /\ ~(shown[i] > doubts[i])
                               /\ status' = [status EXCEPT ![i] = "failed"] /\ shown' = shown /\ doubts' = doubts
        /\ Promise!Forget(i) <=> /\ shown[i] > doubts[i] /\ status[i] # "done"
                                 /\ doubts' = [doubts EXCEPT ![i] = doubts[i] + 1] /\ status' = status /\ shown' = shown
        /\ Promise!Record(i) <=> /\ shown[i] > doubts[i] /\ status' = [status EXCEPT ![i] = "done"]
                                 /\ shown' = shown /\ doubts' = doubts
    BY DEF Promise!Offer, Promise!Show, Promise!Fail, Promise!Forget, Promise!Record, Promise!Owed, Promise!Answered,
           Status, Times, Doubts
  <1>7. Promise!Offer(i) \/ Promise!Show(i) \/ Promise!Fail(i) \/ Promise!Forget(i) \/ Promise!Record(i) => Promise!Next
    BY DEF Promise!Next
  <1> HIDE DEF status, shown, doubts
  <1>8. CASE /\ Status(i)' = Status(i) \/ (Status(i) = "none" /\ Status(i)' = "pending")
             /\ Times(i)' = Times(i) /\ Doubts(i)' = Doubts(i)
    <2>1. shown' = shown /\ doubts' = doubts /\ (Status(i)' = Status(i) => status' = status)
      BY <1>2, <1>4, <1>8
    <2>2. QED
      BY <1>2, <1>3, <1>5, <1>6, <1>7, <1>8, <2>1
  <1>9. CASE /\ Status(i) \in Unsent /\ Times(i) = Doubts(i)
             /\ \/ Times(i)' = Times(i) + 1 /\ Doubts(i)' = Doubts(i) /\ Status(i)' = Status(i)
                \/ Times(i)' = Times(i) + 1 /\ Doubts(i)' = Doubts(i) + 1 /\ Status(i)' \in {Status(i), "failed"}
                \/ Times(i)' = Times(i) /\ Doubts(i)' = Doubts(i) /\ Status(i)' \in {Status(i), "failed"}
    <2>1. status[i] \in {"pending", "failed"} /\ ~(shown[i] > doubts[i])
      BY <1>3, <1>9 DEF Unsent
    <2>2. /\ Status(i)' = Status(i) => status' = status
          /\ Times(i)' = Times(i) => shown' = shown
          /\ Doubts(i)' = Doubts(i) => doubts' = doubts
      BY <1>2, <1>4
    <2>3. CASE Times(i)' = Times(i) /\ Doubts(i)' = Doubts(i) /\ Status(i)' \in {Status(i), "failed"}
      BY <1>2, <1>5, <1>6, <1>7, <2>1, <2>2, <2>3
    <2>4. CASE Times(i)' = Times(i) + 1
      <3>1. Promise!Show(i)
        BY <1>2, <1>3, <1>6, <1>9, <2>1, <2>2, <2>4
      <3>2. QED
        BY <1>7, <3>1
    <2>5. QED
      BY <1>9, <2>3, <2>4
  <1>10. CASE /\ Status(i) # "done" /\ Times(i) = Doubts(i) + 1 /\ Times(i)' = Times(i)
              /\ \/ Doubts(i)' = Doubts(i) + 1 /\ Status(i)' = Status(i)
                 \/ Doubts(i)' = Doubts(i) /\ Status(i)' = "done"
    <2>1. shown[i] > doubts[i] /\ status[i] # "done"
      BY <1>3, <1>10
    <2>2. /\ Status(i)' = Status(i) => status' = status
          /\ shown' = shown
          /\ Doubts(i)' = Doubts(i) => doubts' = doubts
      BY <1>2, <1>4, <1>10
    <2>3. Promise!Forget(i) \/ Promise!Record(i)
      BY <1>2, <1>3, <1>6, <1>10, <2>1, <2>2
    <2>4. QED
      BY <1>7, <2>3
  <1>11. QED
    BY <1>8, <1>9, <1>10

\* Only an uploading run has Telegram's answer, and there is one uploading run.
LEMMA OneUploads ==
  ASSUME IInv, Alone({"upload"}), NEW r \in Runner, Acts(r), UploadWorks(r), \A q \in Runner \ {r} : run'[q] = run[q]
  PROVE  /\ \A q \in Runner \ {r} : ~Uploads(run'[q])
         /\ \A i \in Item : Waits(i) <=> i = Hand(r) /\ run[r].pc = "sent"
         /\ \A i \in Item : Waits(i)' <=> i = Hand(r) /\ run'[r].pc = "sent"
  <1>1. \A q \in Runner : Uploads(run[q]) => "upload" \in Jobs[q]
    BY DEF Uploads, IInv, Placed
  <1>2. \A q \in Runner \ {r} : ~Uploads(run[q]) /\ ~Uploads(run'[q])
    BY <1>1 DEF UploadWorks, Alone
  <1>3. \A q \in Runner : run[q].pc = "sent" => Uploads(run[q])
    BY WhereUploads
  <1>4. \A q \in Runner \ {r} : run[q].pc # "sent" /\ run'[q].pc # "sent"
    BY <1>2, <1>3
  <1>5. run'[r].pc = "sent" => run'[r].item = run[r].item
    BY DEF UploadWorks
  <1>6. QED
    BY <1>2, <1>4, <1>5 DEF Waits, Hand

LEMMA UploadDueStays ==
  ASSUME IInv, UploadDue, Alone({"upload"}), NEW r \in Runner, Acts(r)
  PROVE  UploadDue'
  <1>1. SUFFICES ASSUME NEW q \in Runner, Uploads(run'[q]), NEW t \in Sending(run'[q])
                 PROVE  row'[t.id].upload \in Unsent
    BY DEF UploadDue, Uploads, Sending, InHand
  <1>2. UploadEffect(r) /\ \A p \in Runner \ {r} : run'[p] = run[p]
    BY EveryUploadEffect DEF UploadEffect
  <1>3. t.id \in Item
    <2>1. Placed(q, run'[q])
      BY ActsKeepsInv DEF IInv, Placed
    <2>2. QED
      BY <1>1, <2>1 DEF Placed, Sending, InHand, Run, Snapshot
  <1>4. t \in Sending(run[q]) /\ Uploads(run[q]) => row[t.id].upload \in Unsent /\ Recorded(t.id)
    <2>1. ASSUME t \in Sending(run[q]) PROVE Recorded(t.id)
      BY <2>1 DEF Sending, IInv, Known, Held, Recorded
    <2>2. QED
      BY <2>1 DEF UploadDue
  <1>5. CASE UploadWaits(r)
    <2>1. row[t.id].upload \in Unsent
      BY <1>1, <1>2, <1>4, <1>5 DEF UploadWaits
    <2>2. QED
      BY <1>3, <1>5, <2>1 DEF UploadWaits, UploadKept
  <1>6. ASSUME NEW i \in Item, UploadOpens(i)
        PROVE  row'[t.id].upload \in Unsent
    <2>1. row[t.id].upload \in Unsent /\ Recorded(t.id)
      BY <1>1, <1>4, <1>6 DEF UploadOpens
    <2>2. QED
      BY <1>3, <1>6, <2>1 DEF UploadOpens, UploadKept, Recorded, Unsent
  <1>7. CASE UploadWorks(r)
    <2>1. q = r /\ Uploads(run[r])
      BY <1>1, <1>2, <1>7, OneUploads DEF UploadWorks
    <2>2. t \in Sending(run[r]) /\ UploadKept(t.id)
      BY <1>1, <1>3, <1>7, <2>1 DEF UploadWorks
    <2>3. QED
      BY <1>4, <2>1, <2>2 DEF UploadKept
  <1>8. QED
    BY <1>2, <1>5, <1>6, <1>7 DEF UploadEffect

LEMMA StatusKept ==
  ASSUME NEW i \in Item, UploadKept(i)
  PROVE  Status(i)' = Status(i)
  BY DEF UploadKept, Status

LEMMA DeliveryStep ==
  ASSUME IInv, DeliveryInv, Alone({"upload"}), NEW r \in Runner, Acts(r)
  PROVE  DeliveryInv' /\ [Promise!Next]_(Promise!vars)
  <1> DEFINE Counted(i) == row[i].upload # "done" => sent[i].times = sent[i].doubts + (IF Waits(i) THEN 1 ELSE 0)
  <1>1. /\ UploadEffect(r) /\ UploadDue' /\ UploadDue /\ \A q \in Runner \ {r} : run'[q] = run[q]
        /\ \A i \in Item : /\ Counted(i) /\ Times(i) \in Nat /\ Doubts(i) \in Nat
                           /\ sent[i].times \in Nat /\ sent[i].doubts \in Nat
    BY EveryUploadEffect, UploadDueStays DEF DeliveryInv, UploadEffect, IInv, TypeOK, Times, Doubts
  <1>2. SUFFICES (\A i \in Item : Counted(i)') /\ [Promise!Next]_(Promise!vars)
    BY <1>1 DEF DeliveryInv
  <1>3. CASE UploadWaits(r)
    <2>1. \A i \in Item : Waits(i)' <=> Waits(i)
      BY <1>1, <1>3 DEF UploadWaits, Waits, Hand
    <2>2. \A i \in Item : Counted(i)'
      BY <1>1, <1>3, <2>1 DEF UploadWaits, UploadKept, SentKept
    <2>3. \A i \in Item : Status(i)' = Status(i) /\ Times(i)' = Times(i) /\ Doubts(i)' = Doubts(i)
      BY <1>3, StatusKept DEF UploadWaits, SentKept, Times, Doubts
    <2>4. CASE Item = {}
      BY <2>4 DEF Promise!vars
    <2>5. CASE Item # {}
      <3>1. PICK i \in Item : TRUE
        BY <2>5
      <3>2. [Promise!Next]_(Promise!vars)
        BY <1>1, <2>3, <3>1, PromisedStep
      <3>3. QED
        BY <2>2, <3>2
    <2>6. QED
      BY <2>2, <2>4, <2>5
  <1>4. ASSUME NEW i \in Item, UploadOpens(i)
        PROVE  (\A j \in Item : Counted(j)') /\ [Promise!Next]_(Promise!vars)
    <2>1. \A j \in Item : Waits(j)' <=> Waits(j)
      BY <1>4 DEF UploadOpens, Waits, Hand
    <2>2. row[i].archive = "absent" => row[i].upload = "pending"
      BY DEF IInv, Plain, New
    <2>3. \A j \in Item : Counted(j)'
      BY <1>1, <1>4, <2>1, <2>2 DEF UploadOpens, UploadKept
    <2>4. /\ \A j \in Item : Times(j)' = Times(j) /\ Doubts(j)' = Doubts(j)
          /\ \A j \in Item \ {i} : Status(j)' = Status(j)
      BY <1>4, StatusKept DEF UploadOpens, Times, Doubts
    <2>5. Status(i)' = Status(i) \/ (Status(i) = "none" /\ Status(i)' = "pending")
      BY <1>4, StatusKept DEF UploadOpens, Status
    <2>6. QED
      BY <1>1, <2>3, <2>4, <2>5, PromisedStep
  <1>5. CASE UploadWorks(r)
    <2>0. PICK i \in Item : i = Hand(r)
      BY <1>5 DEF UploadWorks
    <2>1. /\ Recorded(i) /\ row'[i].archive # "absent" /\ Uploads(run[r])
          /\ \A j \in Item \ {i} : UploadKept(j) /\ SentKept(j)
      BY <1>5, <2>0 DEF UploadWorks
    <2>2. /\ \A j \in Item : Waits(j) <=> j = i /\ run[r].pc = "sent"
          /\ \A j \in Item : Waits(j)' <=> j = i /\ run'[r].pc = "sent"
      BY <1>1, <1>5, <2>0, OneUploads
    <2>3. row[i].upload \in Unsent
      BY <1>1, <1>5, <2>0 DEF UploadWorks, UploadDue, Hand
    <2>4. Status(i) = row[i].upload /\ Status(i) \in Unsent /\ row[i].upload # "done"
      BY <2>1, <2>3 DEF Status, Unsent, Recorded
    <2>5. /\ row'[i].upload \in {"done", "failed"} => Status(i)' = row'[i].upload
          /\ UploadKept(i) => Status(i)' = Status(i) /\ row'[i].upload = row[i].upload
      <3>1. UploadKept(i) => Status(i)' = Status(i) /\ row'[i].upload = row[i].upload
        BY StatusKept DEF UploadKept
      <3>2. QED
        BY <2>1, <3>1 DEF Status
    <2>6. \A j \in Item \ {i} : Status(j)' = Status(j) /\ Times(j)' = Times(j) /\ Doubts(j)' = Doubts(j)
      BY <2>1, StatusKept DEF SentKept, Times, Doubts
    <2>7. \A j \in Item \ {i} : Counted(j)'
      BY <1>1, <2>1, <2>2 DEF UploadKept, SentKept
    <2>8. Times(i) = Doubts(i) + (IF run[r].pc = "sent" THEN 1 ELSE 0)
      BY <1>1, <2>1, <2>2, <2>4 DEF Times, Doubts
    <2>9. /\ Counted(i)' <=> (row'[i].upload # "done" => Times(i)' = Doubts(i)' + (IF run'[r].pc = "sent" THEN 1 ELSE 0))
          /\ sent'[i].times = Times(i)' /\ sent'[i].doubts = Doubts(i)' /\ sent[i].times = Times(i) /\ sent[i].doubts = Doubts(i)
          /\ Times(i) \in Nat /\ Doubts(i) \in Nat
      BY <1>1, <2>2 DEF Times, Doubts
    <2>10. \/ /\ run[r].pc = "send" /\ run'[r].pc = "sent" /\ Status(i)' = Status(i)
              /\ Times(i)' = Times(i) + 1 /\ Doubts(i)' = Doubts(i)
           \/ /\ run[r].pc \in {"ensure", "send"} /\ run'[r].pc # "sent" /\ Status(i)' \in {Status(i), "failed"}
              /\ \/ Times(i)' = Times(i) /\ Doubts(i)' = Doubts(i)
                 \/ Times(i)' = Times(i) + 1 /\ Doubts(i)' = Doubts(i) + 1
           \/ /\ run[r].pc = "sent" /\ run'[r].pc # "sent" /\ row'[i].upload = "done" /\ Status(i)' = "done"
              /\ Times(i)' = Times(i) /\ Doubts(i)' = Doubts(i)
           \/ /\ run[r].pc = "sent" /\ run'[r].pc # "sent" /\ Status(i)' = Status(i)
              /\ Times(i)' = Times(i) /\ Doubts(i)' = Doubts(i) + 1
      BY <1>5, <2>0, <2>5, <2>9 DEF UploadWorks, SentKept
    <2>11. Counted(i)'
      BY <2>8, <2>9, <2>10
    <2>12. [Promise!Next]_(Promise!vars)
      <3>1. \/ /\ Status(i) \in Unsent /\ Times(i) = Doubts(i)
               /\ \/ Times(i)' = Times(i) + 1 /\ Doubts(i)' = Doubts(i) /\ Status(i)' = Status(i)
                  \/ Times(i)' = Times(i) + 1 /\ Doubts(i)' = Doubts(i) + 1 /\ Status(i)' \in {Status(i), "failed"}
                  \/ Times(i)' = Times(i) /\ Doubts(i)' = Doubts(i) /\ Status(i)' \in {Status(i), "failed"}
            \/ /\ Status(i) # "done" /\ Times(i) = Doubts(i) + 1 /\ Times(i)' = Times(i)
               /\ \/ Doubts(i)' = Doubts(i) + 1 /\ Status(i)' = Status(i)
                  \/ Doubts(i)' = Doubts(i) /\ Status(i)' = "done"
        BY <2>4, <2>8, <2>9, <2>10
      <3>2. QED
        BY <2>6, <2>9, <3>1, PromisedStep
    <2>13. QED
      BY <2>7, <2>11, <2>12
  <1>6. QED
    BY <1>1, <1>3, <1>4, <1>5 DEF UploadEffect

\* Uploading keeps what Delivery promises of an item: one showing at a time, again
\* only after a doubt, "done" only for what was answered for, and nothing after it
\* (upload_pending, send_media, restore_content), where one run uploads at a time.
THEOREM UploadsDeliver == ASSUME Alone({"upload"}) PROVE Spec => DeliverySpec
  <1>1. Init => DeliveryInv /\ Promise!Init
    <2> SUFFICES ASSUME Init PROVE DeliveryInv /\ Promise!Init
      OBVIOUS
    <2>1. /\ \A i \in Item : row[i].archive = "absent" /\ sent[i].times = 0 /\ sent[i].doubts = 0
          /\ \A r \in Runner : run[r].pc = "idle"
      BY IdleIsRun DEF Init, New
    <2>2. DeliveryInv
      BY <2>1 DEF DeliveryInv, UploadDue, Uploads, Waits
    <2>3. Promise!Init
      BY <2>1 DEF Promise!Init
    <2>4. QED
      BY <2>2, <2>3
  <1>2. IInv /\ DeliveryInv /\ [Next]_vars => DeliveryInv' /\ [Promise!Next]_(Promise!vars)
    <2> SUFFICES ASSUME IInv, DeliveryInv, [Next]_vars PROVE DeliveryInv' /\ [Promise!Next]_(Promise!vars)
      OBVIOUS
    <2>1. CASE UNCHANGED vars
      BY <2>1 DEF vars, DeliveryInv, UploadDue, Uploads, Sending, InHand, Waits, Hand, Promise!vars
    <2>2. CASE Next
      <3>1. PICK r \in Runner : Acts(r)
        BY <2>2 DEF Next, Acts
      <3>2. QED
        BY <3>1, DeliveryStep
    <2>3. QED
      BY <2>1, <2>2
  <1>3. QED
    BY <1>1, <1>2, InitIsInv, NextKeepsInv, PTL DEF Spec, DeliverySpec, Promise!Spec

-----------------------------------------------------------------------------
(* Files                                                                   *)

LEMMA MarksKeepFiles ==
  ASSUME IInv, NEW i \in Item,
         \/ MarkArchiveFailed(i) \/ MarkUploaded(i) \/ MarkUploadFailed(i) \/ MarkArchived(i, FALSE)
         \/ MarkCaptioned(i) \/ MarkCaptionRefused(i) \/ MarkCaptionFailed(i) \/ MarkEmbedded(i) \/ MarkEmbedFailed(i)
         \/ row' = [row EXCEPT ![i].paths = FALSE] \/ row' = [row EXCEPT ![i].media = "none"]
  PROVE  \A j \in Item : row'[j].gone = row[j].gone /\ (row'[j].paths => row[j].paths)
  <1>0. /\ row \in [Item -> Row]
        /\ row[i] = [archive |-> row[i].archive, upload |-> row[i].upload,
               caption |-> row[i].caption, embed |-> row[i].embed, tries |-> row[i].tries,
               paths |-> row[i].paths, media |-> row[i].media, gone |-> row[i].gone]
    BY DEF IInv, TypeOK, Row
  <1>1. CASE MarkCaptioned(i) \/ MarkCaptionRefused(i) \/ MarkCaptionFailed(i)
    BY <1>0, <1>1 DEF MarkCaptioned, MarkCaptionRefused, MarkCaptionFailed
  <1>2. CASE MarkArchived(i, FALSE)
    <2>1. row' = [row EXCEPT ![i].archive = "archived", ![i].paths = FALSE]
      BY <1>2 DEF MarkArchived
    <2>2. QED
      BY <1>0, <2>1
  <1>3. CASE \/ MarkArchiveFailed(i) \/ MarkEmbedded(i) \/ MarkEmbedFailed(i) \/ MarkUploaded(i) \/ MarkUploadFailed(i)
             \/ row' = [row EXCEPT ![i].paths = FALSE] \/ row' = [row EXCEPT ![i].media = "none"]
    BY <1>0, <1>3 DEF MarkArchiveFailed, MarkEmbedded, MarkEmbedFailed, MarkUploaded, MarkUploadFailed
  <1>4. QED
    BY <1>1, <1>2, <1>3

\* A run that is to record a download has just made it.
LEMMA OnlyFetches ==
  ASSUME IInv, NEW r \in Runner, Acts(r), run'[r].pc = "fetched"
  PROVE  EnsureFetches(r)
  <1>1. run[r] \in Run /\ Placed(r, run[r]) /\ run \in [Runner -> Run]
    BY Begun DEF IInv, TypeOK
  <1>2. ASSUME NEW pc, pc # "fetched" PROVE ~Goes(r, pc) /\ ~Settled(r, pc)
    BY <1>2, GoesFields
  <1>3. ~((\E job \in Job, again \in SUBSET Again : Begin(r, job, again)) \/ Crash(r) \/ CleanEnds(r)
          \/ Drained(r) \/ SendFlooded(r))
    <2>1. ASSUME NEW job \in Job, NEW again \in SUBSET Again, Begin(r, job, again)
          PROVE  FALSE
      BY <1>1, <2>1 DEF Begin, Idle
    <2>2. ~\E job \in Job, again \in SUBSET Again : Begin(r, job, again)
      BY <2>1
    <2>3. ~(Crash(r) \/ CleanEnds(r) \/ (Drained(r) /\ run[r].job = "archive"))
      BY <1>1, IdleIsRun DEF Crash, CleanEnds, Drained
    <2>4. ~(Drained(r) /\ run[r].job # "archive")
      BY <1>2 DEF Drained, Goes
    <2>5. ~SendFlooded(r)
      BY <1>1 DEF SendFlooded, Idle
    <2>6. QED
      BY <2>2, <2>3, <2>4, <2>5
  <1>4. ~(Select(r) \/ Tidy(r) \/ Take(r) \/ Unlink(r))
    <2>1. ~Select(r) /\ ~Tidy(r)
      BY SelectFields DEF Select, Tidy
    <2>2. QED
      BY <2>1, TakeFields
  <1>5. ~(RefreshSettles(r) \/ WalkEnds(r) \/ EnsureRaises(r) \/ Send(r) \/ SendFails(r) \/ UploadMarks(r) \/ BatchEnds(r)
          \/ CollectUnusable(r) \/ Embed(r) \/ ClearPaths(r))
    BY <1>2 DEF RefreshSettles, WalkEnds, EnsureRaises, Send, SendFails, UploadMarks, BatchEnds, CollectUnusable, Embed,
                EmbedRaises, EmbedInserts, EmbedMarks, ClearPaths
  <1>6. ~(EnsureReturns(r) \/ EnsureMarks(r))
    <2>1. ASSUME NEW files \in BOOLEAN, WithMedia(r, files), run[r].pc \in {"ensure", "fetched"}
          PROVE  FALSE
      <3>1. run[r].item \in Snapshot /\ run[r].job \in {"archive", "upload", "caption"}
        BY <1>1, <2>1, HandIsRecorded, ConstantsAssumption DEF Holding, Placed, Places, Job
      <3>2. QED
        BY <2>1, <3>1, HasMediaFields
    <2>2. QED
      BY <2>1 DEF EnsureReturns, EnsureMarks
  <1>7. ~(SendAgain(r) \/ CaptionText(r))
    <2>1. ~SendAgain(r)
      BY <1>1 DEF SendAgain, Run
    <2>2. CaptionText(r) => run[r].pc = "batch" /\ \E s \in run[r].todo : run' = [run EXCEPT ![r].todo = @ \ {s}]
      BY DEF CaptionText
    <2>3. ASSUME NEW s \in run[r].todo, run' = [run EXCEPT ![r].todo = @ \ {s}] PROVE run'[r].pc = run[r].pc
      BY <1>1, <2>3 DEF Run
    <2>4. QED
      BY <2>1, <2>2, <2>3
  <1>8. ~(CrashMarks(r) \/ Apply(r))
    <2>1. CrashMarks(r) \/ Apply(r) =>
            /\ run[r].pc # "fetched"
            /\ Goes(r, "batch") \/ \E s \in run[r].left : run' = [run EXCEPT ![r].left = @ \ {s}]
      BY DEF CrashMarks, Apply
    <2>2. ASSUME NEW s \in run[r].left, run' = [run EXCEPT ![r].left = @ \ {s}] PROVE run'[r].pc = run[r].pc
      BY <1>1, <2>2 DEF Run
    <2>3. QED
      BY <1>2, <2>1, <2>2
  <1>9. ~(PlanCall(r) \/ CollectUsable(r) \/ Describe(r) \/ CallRaises(r))
    <2>1. ~PlanCall(r)
      <3>1. ASSUME NEW c \in SUBSET run[r].todo,
                   run' = [run EXCEPT ![r].todo = @ \ c, ![r].call = c, ![r].left = c, ![r].usable = {}, ![r].pc = "collect"]
            PROVE  FALSE
        BY <1>1, <3>1 DEF Run
      <3>2. QED
        BY <3>1 DEF PlanCall
    <2>2. QED
      BY <1>1, <2>1 DEF CollectUsable, Describe, CallRaises, Run
  <1>10. ~Collect(r)
    <2>1. Collect(r) => \/ \E s \in run[r].left : run' = [run EXCEPT ![r].left = @ \ {s}, ![r].item = s, ![r].pc = "ensure"]
                        \/ \E pc \in {"batch", "describe"} : Goes(r, pc)
      BY DEF Collect, Goes
    <2>2. ASSUME NEW s \in run[r].left, run' = [run EXCEPT ![r].left = @ \ {s}, ![r].item = s, ![r].pc = "ensure"]
          PROVE  run'[r].pc = "ensure"
      BY <1>1, <2>2 DEF Run
    <2>3. QED
      BY <1>2, <2>1, <2>2
  <1>11. ~Archive(r)
    <2>1. Archive(r) => run[r].pc = "walk" /\ (run' = run \/ \E i \in Item : RefreshMedia(r, i))
      BY DEF Archive, Record, ReplaceTombstone, Restore, RefreshMedia, Walking
    <2>2. ASSUME NEW i \in Item, RefreshMedia(r, i) PROVE run'[r].pc = "refreshed"
      BY <1>1, <2>2 DEF RefreshMedia, Run
    <2>3. QED
      BY <2>1, <2>2
  <1>12. QED
    BY <1>3, <1>4, <1>5, <1>6, <1>7, <1>8, <1>9, <1>10, <1>11 DEF Acts, Continue, Ensure, Upload, Caption, Cleanup

\* What a step does to files: it only names those that are there or were just
\* fetched, and only a run that cleans deletes some.
FilesEffect(r) ==
  /\ \A i \in Item : Recorded(i) /\ ~row[i].gone => ~row'[i].gone
  /\ \A i \in Item : row'[i].paths => row[i].paths \/ i \in disk' \/ (run[r].pc = "fetched" /\ Hand(r) = i)
  /\ \A i \in disk : i \in disk' \/ (run[r].pc = "clean" /\ \E s \in run[r].todo : s.id = i)
  /\ run'[r].pc = "fetched" => run'[r].item.id \in disk'

LEMMA EveryFilesEffect ==
  ASSUME IInv, NEW r \in Runner, Acts(r)
  PROVE  FilesEffect(r)
  <1>1. run[r] \in Run /\ run \in [Runner -> Run] /\ row \in [Item -> Row] /\ disk \subseteq Item
    BY Begun DEF IInv, TypeOK
  <1>2. run'[r].pc = "fetched" => run'[r].item.id \in disk'
    <2>1. ASSUME EnsureFetches(r) PROVE run'[r].item = run[r].item /\ Hand(r) \in disk'
      BY <1>1, <2>1 DEF EnsureFetches, Goes, Run
    <2>2. QED
      BY <2>1, OnlyFetches DEF Hand
  <1>3. CASE \/ \E job \in Job, again \in SUBSET Again : Begin(r, job, again)
             \/ Crash(r) \/ CallRaises(r) \/ WalkEnds(r) \/ Select(r) \/ Take(r) \/ Drained(r)
             \/ EnsureReturns(r) \/ EnsureFetches(r) \/ Send(r) \/ SendAgain(r) \/ SendFlooded(r) \/ EmbedInserts(r)
             \/ PlanCall(r) \/ BatchEnds(r) \/ Collect(r) \/ CollectUsable(r) \/ Describe(r)
             \/ Tidy(r) \/ CleanEnds(r)
    <2>1. row' = row /\ disk \subseteq disk'
      BY <1>3 DEF Begin, Crash, CallRaises, WalkEnds, Select, Take, Drained, EnsureReturns, EnsureFetches, Send, SendAgain,
                  SendFlooded, EmbedInserts, PlanCall, BatchEnds, Collect, CollectUsable, Describe, Tidy, CleanEnds
    <2>2. QED
      BY <1>2, <2>1 DEF FilesEffect
  <1>4. CASE Unlink(r)
    <2>1. row' = row /\ run[r].pc = "clean" /\ \E s \in run[r].todo : disk' = disk \ {s.id}
      BY <1>4 DEF Unlink
    <2>2. QED
      BY <1>2, <2>1 DEF FilesEffect
  <1>5. CASE EnsureMarks(r)
    <2>1. run[r].pc = "fetched" /\ disk' = disk /\ row' = [row EXCEPT ![Hand(r)].archive = "archived", ![Hand(r)].paths = TRUE]
      BY <1>5 DEF EnsureMarks, MarkArchived
    <2>2. Hand(r) \in Item
      BY <2>1, HandIsRecorded DEF Holding
    <2>3. row'[Hand(r)].gone = row[Hand(r)].gone /\ \A j \in Item \ {Hand(r)} : row'[j] = row[j]
      BY <1>1, <2>1, <2>2 DEF Row
    <2>4. QED
      BY <1>2, <2>1, <2>3 DEF FilesEffect
  <1>6. CASE \/ RefreshSettles(r) \/ EnsureRaises(r) \/ SendFails(r) \/ UploadMarks(r) \/ CollectUnusable(r)
             \/ EmbedRaises(r) \/ EmbedMarks(r) \/ ClearPaths(r)
    <2>1. disk' = disk /\ run[r].pc \in {"refreshed", "ensure", "send", "sent", "have", "insert", "inserted", "unlinked"}
      BY <1>6 DEF RefreshSettles, EnsureRaises, SendFails, UploadMarks, CollectUnusable, EmbedRaises, EmbedMarks, ClearPaths
    <2>2. Hand(r) \in Item
      BY <2>1, HandIsRecorded DEF Holding
    <2>3. \/ MarkArchived(Hand(r), FALSE) \/ MarkArchiveFailed(Hand(r)) \/ MarkUploadFailed(Hand(r))
          \/ MarkCaptionFailed(Hand(r)) \/ MarkUploaded(Hand(r)) \/ MarkCaptioned(Hand(r)) \/ MarkEmbedFailed(Hand(r))
          \/ MarkEmbedded(Hand(r)) \/ row' = [row EXCEPT ![Hand(r)].paths = FALSE]
      BY <1>6 DEF RefreshSettles, EnsureRaises, SendFails, UploadMarks, CollectUnusable, EmbedRaises, EmbedMarks, ClearPaths
    <2>4. \A j \in Item : row'[j].gone = row[j].gone /\ (row'[j].paths => row[j].paths)
      BY <2>2, <2>3, MarksKeepFiles
    <2>5. QED
      BY <1>2, <2>1, <2>4 DEF FilesEffect
  <1>7. CASE CaptionText(r) \/ CrashMarks(r) \/ Apply(r)
    <2>1. /\ disk' = disk
          /\ \/ row' = row
             \/ \E s \in run[r].todo \cup run[r].left :
                  MarkCaptioned(s.id) \/ MarkCaptionRefused(s.id) \/ MarkCaptionFailed(s.id)
      BY <1>7 DEF CaptionText, CrashMarks, Apply
    <2>2. \A s \in run[r].todo \cup run[r].left : s.id \in Item
      BY WhereCaptions DEF Held
    <2>3. \A j \in Item : row'[j].gone = row[j].gone /\ (row'[j].paths => row[j].paths)
      BY <2>1, <2>2, MarksKeepFiles
    <2>4. QED
      BY <1>2, <2>1, <2>3 DEF FilesEffect
  <1>8. ASSUME NEW i \in Item,
               \/ \E shape \in Shape : Record(r, i, shape)
               \/ \E media \in {"none", "urls"} : ReplaceTombstone(r, i, media)
        PROVE  FilesEffect(r)
    <2>1. /\ disk \subseteq disk' /\ \A j \in Item \ {i} : row'[j] = row[j]
          /\ ~Recorded(i) /\ (row'[i].paths => i \in disk')
      BY <1>8, FreshRow
    <2>2. QED
      BY <1>2, <2>1 DEF FilesEffect
  <1>9. ASSUME NEW i \in Item, NEW media \in {"none", "urls"}, Restore(r, i, media)
        PROVE  FilesEffect(r)
    <2>1. disk' = disk
      BY <1>9 DEF Restore
    <2>2. ~row'[i].gone /\ row'[i].paths = row[i].paths /\ row' = [row EXCEPT ![i] = row'[i]]
      BY <1>9, RestoredRow
    <2>3. \A j \in Item \ {i} : row'[j] = row[j]
      BY <1>1, <2>2
    <2>4. QED
      BY <1>2, <2>1, <2>2, <2>3 DEF FilesEffect
  <1>10. ASSUME NEW i \in Item, RefreshMedia(r, i)
         PROVE  FilesEffect(r)
    <2>1. disk' = disk /\ row' = [row EXCEPT ![i].media = "none"]
      BY <1>10 DEF RefreshMedia
    <2>2. \A j \in Item : row'[j].gone = row[j].gone /\ (row'[j].paths => row[j].paths)
      BY <2>1, MarksKeepFiles
    <2>3. QED
      BY <1>2, <2>1, <2>2 DEF FilesEffect
  <1>11. QED
    BY <1>3, <1>4, <1>5, <1>6, <1>7, <1>8, <1>9, <1>10 DEF Acts, Archive, Continue, Ensure, Upload, Caption, Embed, Cleanup

\* Where a captioning run got what it works on, and what it fails after an error.
LEMMA CaptionReach ==
  ASSUME IInv, NEW r \in Runner, Acts(r), Captions(run'[r])
  PROVE  /\ \/ /\ run'[r].call = {}
               /\ \A s \in run'[r].todo : s.id \in Item /\ row[s.id].caption \in Unsettled
            \/ Captions(run[r]) /\ run'[r].todo \subseteq run[r].todo /\ run'[r].call \subseteq run[r].todo \cup run[r].call
         /\ run'[r].pc = "crash" => \/ Errors /\ run'[r].left = run'[r].call
                                    \/ /\ run[r].pc = "crash" /\ run'[r].call = run[r].call
                                       /\ run'[r].left \subseteq run[r].left
  <1> DEFINE Keeps == Captions(run[r]) /\ run'[r].todo \subseteq run[r].todo
                      /\ run'[r].call \subseteq run[r].todo \cup run[r].call
             Calm == run'[r].pc # "crash"
  <1>1. run[r] \in Run /\ Placed(r, run[r]) /\ Apart(run[r]) /\ run \in [Runner -> Run]
    BY Begun DEF IInv, TypeOK
  <1>2. run'[r].job = "caption" /\ run[r].job = "caption" /\ run[r].pc \in Places("caption")
    BY JobStays, IdleIsRun DEF Captions, Collecting, Placed
  <1>3. run[r].pc \in {"batch", "collect", "ensure", "fetched", "have", "describe", "apply", "crash"} => Captions(run[r])
    BY <1>2 DEF Captions, Collecting
  <1>4. ASSUME NEW pc, Goes(r, pc) \/ Settled(r, pc), pc # "crash", Captions(run[r])
        PROVE  Keeps /\ Calm
    BY <1>4, GoesFields
  <1>5. CASE Select(r)
    <2>1. run'[r].todo = {Read(i) : i \in {j \in Item : Pending(j, run[r].job, run[r].again)}} /\ run'[r].pc = "batch"
      BY <1>2, <1>5, SelectFields DEF Select
    <2>2. \A s \in run'[r].todo : s.id \in Item /\ row[s.id].caption \in Unsettled
      BY <1>1, <1>2, <2>1, ConstantsAssumption DEF Pending, Read, Unsettled, Run
    <2>3. run'[r].call = run[r].call /\ run[r].call = {}
      <3>1. run[r].pc = "select"
        BY <1>5 DEF Select
      <3>2. run[r].call = {}
        BY <1>1, <1>2, <3>1 DEF Apart
      <3>3. QED
        BY <1>1, <1>5, <3>2 DEF Select, Run
    <2>4. QED
      BY <2>1, <2>2, <2>3
  <1>6. CASE CaptionText(r)
    <2>1. PICK s \in run[r].todo : run' = [run EXCEPT ![r].todo = @ \ {s}]
      BY <1>6 DEF CaptionText
    <2>2. run'[r].todo \subseteq run[r].todo /\ run'[r].call = run[r].call /\ run'[r].pc = run[r].pc
      BY <1>1, <2>1 DEF Run
    <2>3. QED
      BY <1>3, <1>6, <2>2 DEF CaptionText
  <1>7. CASE PlanCall(r)
    <2>1. PICK c \in SUBSET run[r].todo :
            run' = [run EXCEPT ![r].todo = @ \ c, ![r].call = c, ![r].left = c, ![r].usable = {}, ![r].pc = "collect"]
      BY <1>7 DEF PlanCall
    <2>2. run'[r].call = c /\ run'[r].pc = "collect" /\ run'[r].todo = run[r].todo \ c
      BY <1>1, <2>1 DEF Run
    <2>3. QED
      BY <1>3, <1>7, <2>2 DEF PlanCall
  <1>8. CASE Ensure(r) \/ CollectUnusable(r)
    <2>1. run[r].pc \in {"ensure", "fetched", "have"} /\ run[r].item \in Snapshot
      BY <1>8, HandIsRecorded DEF Ensure, EnsureReturns, EnsureFetches, EnsureMarks, EnsureRaises, CollectUnusable, Holding
    <2>2. \/ \E files \in BOOLEAN : WithMedia(r, files)
          \/ \E pc \in {"fetched", "collect"} : Goes(r, pc) \/ Settled(r, pc)
      BY <1>2, <1>8 DEF Ensure, EnsureReturns, EnsureFetches, EnsureMarks, EnsureRaises, CollectUnusable
    <2>3. CASE \E files \in BOOLEAN : WithMedia(r, files)
      <3>1. run'[r].call = run[r].call /\ run'[r].todo = run[r].todo /\ run'[r].pc = "have"
        BY <1>2, <2>1, <2>3, HasMediaFields
      <3>2. QED
        BY <1>3, <2>1, <3>1
    <2>4. QED
      BY <1>3, <1>4, <2>1, <2>2, <2>3
  <1>9. CASE Collect(r)
    <2>1. /\ Captions(run[r])
          /\ \/ \E s \in run[r].left : run' = [run EXCEPT ![r].left = @ \ {s}, ![r].item = s, ![r].pc = "ensure"]
             \/ \E pc \in {"batch", "describe"} : Goes(r, pc)
      BY <1>3, <1>9 DEF Collect, Goes
    <2>2. ASSUME NEW s \in run[r].left, run' = [run EXCEPT ![r].left = @ \ {s}, ![r].item = s, ![r].pc = "ensure"]
          PROVE  run'[r].call = run[r].call /\ run'[r].todo = run[r].todo /\ run'[r].pc = "ensure"
      BY <1>1, <2>2 DEF Run
    <2>3. QED
      BY <1>4, <2>1, <2>2
  <1>10. CASE CollectUsable(r) \/ Describe(r)
    <2>1. run'[r].call = run[r].call /\ run'[r].todo = run[r].todo /\ run'[r].pc # "crash"
      BY <1>1, <1>10 DEF CollectUsable, Describe, Run
    <2>2. QED
      BY <1>3, <1>10, <2>1 DEF CollectUsable, Describe
  <1>11. CASE CallRaises(r)
    <2>1. run'[r].call = run[r].call /\ run'[r].todo = run[r].todo /\ run'[r].left = run[r].call /\ Errors
      BY <1>1, <1>11 DEF CallRaises, Run
    <2>2. QED
      BY <1>3, <1>11, <2>1 DEF CallRaises
  <1>12. CASE Apply(r) \/ CrashMarks(r)
    <2>1. /\ run[r].pc \in {"apply", "crash"}
          /\ Goes(r, "batch") \/ \E s \in run[r].left : run' = [run EXCEPT ![r].left = @ \ {s}]
      BY <1>12 DEF Apply, CrashMarks
    <2>2. ASSUME NEW s \in run[r].left, run' = [run EXCEPT ![r].left = @ \ {s}]
          PROVE  /\ run'[r].call = run[r].call /\ run'[r].todo = run[r].todo /\ run'[r].pc = run[r].pc
                 /\ run'[r].left \subseteq run[r].left
      BY <1>1, <2>2 DEF Run
    <2>3. QED
      BY <1>3, <1>4, <2>1, <2>2
  <1>13. ~Archive(r) /\ ~Upload(r) /\ ~Embed(r) /\ ~Take(r) /\ ~Drained(r) /\ ~RefreshSettles(r) /\ ~WalkEnds(r)
    <2>1. run[r].pc \notin {"walk", "refreshed", "next", "send", "sent", "insert", "inserted"}
      BY <1>2 DEF Places
    <2>2. QED
      BY <2>1 DEF Archive, Record, ReplaceTombstone, Restore, RefreshMedia, Walking, Upload, Send, SendAgain, SendFails,
        SendFlooded, UploadMarks, Embed, EmbedRaises, EmbedInserts, EmbedMarks, Take, Drained, RefreshSettles, WalkEnds
  <1>14. ~(Crash(r) \/ BatchEnds(r) \/ Cleanup(r) \/ \E job \in Job, again \in SUBSET Again : Begin(r, job, again))
    <2>1. run'[r].pc \in {"batch", "collect", "ensure", "fetched", "have", "describe", "apply", "crash"}
      BY DEF Captions, Collecting
    <2>2. ~Crash(r) /\ ~CleanEnds(r)
      BY <1>1, <2>1, IdleIsRun DEF Crash, CleanEnds
    <2>3. ~BatchEnds(r) /\ ~ClearPaths(r)
      BY <2>1, GoesFields DEF BatchEnds, ClearPaths
    <2>4. ~Tidy(r)
      BY <2>1, SelectFields DEF Tidy
    <2>5. ~Unlink(r)
      BY <2>1, TakeFields DEF Take, Unlink
    <2>6. ~\E job \in Job, again \in SUBSET Again : Begin(r, job, again)
      BY <1>2 DEF Begin, Places
    <2>7. QED
      BY <2>2, <2>3, <2>4, <2>5, <2>6 DEF Cleanup
  <1>15. QED
    BY <1>5, <1>6, <1>7, <1>8, <1>9, <1>10, <1>11, <1>12, <1>13, <1>14 DEF Acts, Continue, Caption

\* Whose files every enabled consumer is done with, for good.
Spent(i) ==
  /\ row[i].upload \in {"done", "skipped"} /\ ~row[i].gone
  /\ Captioning => row[i].caption = "done"

Cleans(l) == l.pc \in {"clean", "unlinked"}

\* Whose files may still be asked for: by a stage that is not through with the item,
\* or by a captioning call that fails what it has captioned.
Failable(l, i) == Captions(l) /\ \E s \in l.todo \cup l.call : s.id = i

Needed(i) == Wanted(i) \/ (Errors /\ Captioning /\ \E r \in Runner : Failable(run[r], i))

\* The files are there, if a row names them or a run is about to write that it does.
Here(i) ==
  /\ row[i].paths => i \in disk
  /\ \A r \in Runner : run[r].pc = "fetched" /\ Hand(r) = i => i \in disk

FilesInv ==
  /\ CaptionDue /\ UploadDue
  /\ \A r \in Runner : Cleans(run[r]) => \A s \in Sending(run[r]) : Spent(s.id)
  /\ \A r \in Runner : run[r].pc = "crash" => Errors /\ run[r].left \subseteq run[r].call
  /\ \A i \in Item : Needed(i) => Here(i)

\* One run uploads and one captions; where captioning calls raise, the same one
\* run uploads, captions and indexes.
OneTidies ==
  /\ Alone({"upload"}) /\ Alone({"caption"})
  /\ Errors => Alone({"upload", "caption", "embed"})

\* A run that cleans deletes what every consumer was done with when it looked.
LEMMA CleansTurns ==
  ASSUME IInv, FilesInv, NEW r \in Runner, Acts(r), Cleans(run'[r])
  PROVE  run[r].pc \in {"tidy", "clean", "unlinked"} /\ \A s \in Sending(run'[r]) : s.id \in Item /\ Recorded(s.id) /\ Spent(s.id)
  <1>1. /\ run[r] \in Run /\ run \in [Runner -> Run] /\ Placed(r, run[r])
        /\ Cleans(run[r]) => \A s \in Sending(run[r]) : s.id \in Item /\ Recorded(s.id) /\ Spent(s.id)
    <2>1. \A s \in Sending(run[r]) : s.id \in Item /\ Recorded(s.id)
      BY WhereCaptions DEF Sending, Held
    <2>2. QED
      BY <2>1, Begun DEF FilesInv, IInv, TypeOK
  <1>2. ASSUME NEW pc, pc \notin {"clean", "unlinked"} PROVE ~Goes(r, pc) /\ ~Settled(r, pc)
    BY <1>2, GoesFields DEF Cleans
  <1>3. CASE Tidy(r)
    <2>1. run'[r].pc = "clean" /\ run'[r].todo = {Read(i) : i \in {j \in Item : Cleanable(j)}} /\ run[r].pc = "tidy"
      BY <1>3, SelectFields DEF Tidy
    <2>2. \A i \in Item : Cleanable(i) => Recorded(i) /\ Spent(i)
      BY FilesAreRecorded DEF Cleanable, Spent, IInv, TypeOK, Row, Plain
    <2>3. QED
      BY <2>1, <2>2 DEF Sending, InHand, Holding, Read
  <1>4. CASE Unlink(r)
    <2>1. run[r].pc = "clean" /\ ~Take(r) /\ Cleans(run[r])
      BY <1>4 DEF Unlink, Take, Cleans
    <2>2. PICK s \in run[r].todo : run'[r].todo = run[r].todo \ {s} /\ run'[r].item = s
      BY <1>4, TakeFields
    <2>3. QED
      BY <1>1, <2>1, <2>2 DEF Sending, InHand
  <1>5. CASE ClearPaths(r)
    <2>1. run[r].pc = "unlinked" /\ run'[r].pc = "clean" /\ run'[r].todo = run[r].todo /\ Cleans(run[r])
      BY <1>5, GoesFields DEF ClearPaths, Cleans
    <2>2. QED
      BY <1>1, <2>1 DEF Sending, InHand, Holding
  <1>6. ~(CleanEnds(r) \/ Crash(r) \/ Drained(r) \/ SendFlooded(r))
    <2>1. ~(CleanEnds(r) \/ Crash(r) \/ (Drained(r) /\ run[r].job = "archive"))
      BY <1>1, IdleIsRun DEF Crash, CleanEnds, Drained, Cleans
    <2>2. ~(Drained(r) /\ run[r].job # "archive")
      BY <1>2 DEF Drained, Goes
    <2>3. ~SendFlooded(r)
      BY <1>1 DEF SendFlooded, Idle, Cleans
    <2>4. QED
      BY <2>1, <2>2, <2>3
  <1>7. ~\E job \in Job, again \in SUBSET Again : Begin(r, job, again)
    <2>1. ASSUME NEW job \in Job, NEW again \in SUBSET Again, Begin(r, job, again)
          PROVE  FALSE
      BY <1>1, <2>1 DEF Begin, Idle, Cleans
    <2>2. QED
      BY <2>1
  <1>8. ~(Select(r) \/ Take(r))
    <2>1. ~Select(r)
      BY SelectFields DEF Select, Cleans
    <2>2. ~Take(r)
      BY TakeFields DEF Take, Unlink, Cleans
    <2>3. QED
      BY <2>1, <2>2
  <1>9. ~(RefreshSettles(r) \/ WalkEnds(r) \/ EnsureFetches(r) \/ EnsureRaises(r) \/ Send(r) \/ SendFails(r) \/ UploadMarks(r)
          \/ BatchEnds(r) \/ CollectUnusable(r) \/ Embed(r))
    BY <1>2 DEF RefreshSettles, WalkEnds, EnsureFetches, EnsureRaises, Send, SendFails, UploadMarks, BatchEnds,
                CollectUnusable, Embed, EmbedRaises, EmbedInserts, EmbedMarks
  <1>10. ~(EnsureReturns(r) \/ EnsureMarks(r))
    <2>1. ASSUME NEW files \in BOOLEAN, WithMedia(r, files), run[r].pc \in {"ensure", "fetched"}
          PROVE  FALSE
      <3>1. run[r].item \in Snapshot /\ run[r].job \in {"archive", "upload", "caption"}
        BY <1>1, <2>1, HandIsRecorded, ConstantsAssumption DEF Holding, Placed, Places, Job
      <3>2. QED
        BY <2>1, <3>1, HasMediaFields DEF Cleans
    <2>2. QED
      BY <2>1 DEF EnsureReturns, EnsureMarks
  <1>11. ~SendAgain(r) /\ ~Archive(r)
    <2>1. ~SendAgain(r)
      BY <1>1 DEF SendAgain, Run, Cleans
    <2>2. Archive(r) => run[r].pc = "walk" /\ (run' = run \/ \E i \in Item : RefreshMedia(r, i))
      BY DEF Archive, Record, ReplaceTombstone, Restore, RefreshMedia, Walking
    <2>3. ASSUME NEW i \in Item, RefreshMedia(r, i) PROVE run'[r].pc = "refreshed"
      BY <1>1, <2>3 DEF RefreshMedia, Run
    <2>4. QED
      BY <2>1, <2>2, <2>3 DEF Cleans
  <1>12. ~(CaptionText(r) \/ PlanCall(r) \/ Collect(r) \/ CollectUsable(r) \/ Describe(r) \/ CallRaises(r)
           \/ Apply(r) \/ CrashMarks(r))
    <2>2. ~PlanCall(r)
      <3>1. ASSUME NEW c \in SUBSET run[r].todo,
                   run' = [run EXCEPT ![r].todo = @ \ c, ![r].call = c, ![r].left = c, ![r].usable = {}, ![r].pc = "collect"]
            PROVE  FALSE
        BY <1>1, <3>1 DEF Run, Cleans
      <3>2. QED
        BY <3>1 DEF PlanCall
    <2>3. ~(CollectUsable(r) \/ Describe(r) \/ CallRaises(r))
      BY <1>1 DEF CollectUsable, Describe, CallRaises, Run, Cleans
    <2>4. ~Collect(r)
      <3>1. ASSUME NEW s \in run[r].left, run' = [run EXCEPT ![r].left = @ \ {s}, ![r].item = s, ![r].pc = "ensure"]
            PROVE  FALSE
        BY <1>1, <3>1 DEF Run, Cleans
      <3>2. QED
        BY <1>2, <3>1 DEF Collect, Goes
    <2>5. ASSUME NEW s, \/ run' = [run EXCEPT ![r].left = @ \ {s}] \/ run' = [run EXCEPT ![r].todo = @ \ {s}]
          PROVE  run'[r].pc = run[r].pc
      BY <1>1, <2>5 DEF Run
    <2>6. CaptionText(r) \/ Apply(r) \/ CrashMarks(r) =>
            /\ run[r].pc \in {"batch", "apply", "crash"}
            /\ \/ Goes(r, "batch")
               \/ \E s \in run[r].left \cup run[r].todo :
                    \/ run' = [run EXCEPT ![r].left = @ \ {s}] \/ run' = [run EXCEPT ![r].todo = @ \ {s}]
      BY DEF CaptionText, Apply, CrashMarks
    <2>7. QED
      BY <1>2, <2>2, <2>3, <2>4, <2>5, <2>6 DEF Cleans
  <1>13. QED
    BY <1>3, <1>4, <1>5, <1>6, <1>7, <1>8, <1>9, <1>10, <1>11, <1>12 DEF Acts, Continue, Ensure, Upload, Caption, Cleanup

\* What no consumer wants any more none will want again.
LEMMA SpentStays ==
  ASSUME IInv, FilesInv, NEW r \in Runner, Acts(r), NEW i \in Item, Recorded(i), Spent(i),
         run[r].pc # "crash"
  PROVE  Spent(i)'
  <1>1. UploadEffect(r) /\ CaptionEffect(r) /\ FilesEffect(r)
    BY EveryUploadEffect, EveryCaptionEffect, EveryFilesEffect DEF FilesInv
  <1>2. ~row'[i].gone
    BY <1>1 DEF FilesEffect, Spent
  <1>3. row'[i].upload = row[i].upload
    <2>1. CASE UploadWorks(r)
      <3>1. row[Hand(r)].upload \in Unsent /\ \A j \in Item \ {Hand(r)} : UploadKept(j)
        BY <2>1 DEF UploadWorks, FilesInv, UploadDue, Hand
      <3>2. QED
        BY <3>1 DEF Spent, Unsent, UploadKept
    <2>2. CASE ~UploadWorks(r)
      BY <1>1, <2>2 DEF UploadEffect, UploadWaits, UploadOpens, UploadKept, Spent
    <2>3. QED
      BY <2>1, <2>2
  <1>4. Captioning => row'[i].caption = "done"
    BY <1>1 DEF CaptionEffect, CaptionWaits, CaptionOpens, CaptionSettles, CaptionKept, Spent, Unsettled
  <1>5. QED
    BY <1>2, <1>3, <1>4 DEF Spent

\* Whose files are needed after a step were needed before it, or had no files.
LEMMA NeededBefore ==
  ASSUME IInv, FilesInv, NEW r \in Runner, Acts(r), NEW i \in Item, Needed(i)'
  PROVE  Needed(i) \/ ~Recorded(i) \/ row[i].gone
  <1>1. UploadEffect(r) /\ CaptionEffect(r) /\ \A q \in Runner \ {r} : run'[q] = run[q]
    BY EveryUploadEffect, EveryCaptionEffect, OthersStay DEF FilesInv
  <1>2. CASE row'[i].upload \in {"pending", "failed"}
    <2>1. CASE UploadWorks(r)
      <3>1. row[Hand(r)].upload \in Unsent /\ \A j \in Item \ {Hand(r)} : UploadKept(j)
        BY <2>1 DEF UploadWorks, FilesInv, UploadDue, Hand
      <3>2. QED
        BY <1>2, <3>1 DEF Needed, Wanted, Unsent, UploadKept
    <2>2. CASE ~UploadWorks(r)
      BY <1>1, <1>2, <2>2 DEF UploadEffect, UploadWaits, UploadOpens, UploadKept, Needed, Wanted
    <2>3. QED
      BY <2>1, <2>2
  <1>3. CASE Captioning /\ row'[i].caption \in {"pending", "failed", "refused"}
    <2>1. CASE row[i].caption \in Unsettled
      BY <1>3, <2>1 DEF Needed, Wanted, Unsettled
    <2>2. CASE row[i].caption \notin Unsettled
      <3>1. CASE \E j \in Item : CaptionSettles(r, j)
        <4>1. PICK j \in Item : CaptionSettles(r, j)
          BY <3>1
        <4>2. j = i /\ run[r].pc = "crash" /\ (\E s \in run[r].left : s.id = i) /\ Captions(run[r])
          BY <1>3, <2>2, <4>1 DEF CaptionSettles, CaptionKept, Unsettled
        <4>3. Errors /\ \E s \in run[r].call : s.id = i
          BY <4>2 DEF FilesInv
        <4>4. QED
          BY <1>3, <4>2, <4>3 DEF Needed, Failable
      <3>2. CASE ~\E j \in Item : CaptionSettles(r, j)
        BY <1>1, <1>3, <2>2, <3>2 DEF CaptionEffect, CaptionWaits, CaptionOpens, CaptionKept, Unsettled
      <3>3. QED
        BY <3>1, <3>2
    <2>3. QED
      BY <2>1, <2>2
  <1>4. CASE Errors /\ Captioning /\ \E q \in Runner : Failable(run'[q], i)
    <2>1. PICK q \in Runner : Captions(run'[q]) /\ \E s \in run'[q].todo \cup run'[q].call : s.id = i
      BY <1>4 DEF Failable
    <2>2. CASE q # r
      BY <1>1, <1>4, <2>1, <2>2 DEF Needed, Failable
    <2>3. CASE q = r
      <3>1. \/ Captions(run[r]) /\ \E s \in run[r].todo \cup run[r].call : s.id = i
            \/ row[i].caption \in Unsettled
        BY <2>1, <2>3, CaptionReach
      <3>2. QED
        BY <1>4, <3>1 DEF Needed, Wanted, Failable, Unsettled
    <2>4. QED
      BY <2>2, <2>3
  <1>5. QED
    BY <1>2, <1>3, <1>4 DEF Needed, Wanted, Failable, Captions

\* Nobody deletes what is needed.
LEMMA NeededIsKept ==
  ASSUME IInv, FilesInv, OneTidies, NEW r \in Runner, NEW i \in Item, Needed(i), run[r].pc = "clean",
         NEW s \in run[r].todo, s.id = i
  PROVE  FALSE
  <1>1. Spent(i) /\ ~Wanted(i)
    BY DEF FilesInv, Cleans, Sending, Spent, Wanted
  <1>2. PICK q \in Runner : Captions(run[q]) /\ Errors
    BY <1>1 DEF Needed, Failable
  <1>3. "caption" \in Jobs[q]
    BY <1>2, WhereCaptions
  <1>4. Jobs[r] \cap {"upload", "caption", "embed"} # {}
    BY ConstantsAssumption DEF IInv, Placed, Places, Job
  <1>5. q = r
    BY <1>2, <1>3, <1>4 DEF OneTidies, Alone
  <1>6. QED
    BY <1>2, <1>5 DEF Captions, Collecting

LEMMA FilesStay ==
  ASSUME IInv, FilesInv, OneTidies, [Next]_vars
  PROVE  FilesInv'
  <1>1. CASE UNCHANGED vars
    BY <1>1 DEF vars, FilesInv, CaptionDue, Ahead, Captions, InHand, UploadDue, Uploads, Sending, Cleans, Spent, Needed,
                Wanted, Failable, Here, Hand
  <1>2. CASE Next
    <2>1. PICK r \in Runner : Acts(r)
      BY <1>2 DEF Next, Acts
    <2>2. CaptionDue' /\ UploadDue' /\ FilesEffect(r) /\ \A q \in Runner \ {r} : run'[q] = run[q]
      BY <2>1, DueStays, UploadDueStays, EveryFilesEffect, OthersStay DEF FilesInv, OneTidies
    <2>3. IInv'
      BY <2>1, ActsKeepsInv
    <2>4. ASSUME NEW q \in Runner, Cleans(run'[q]), NEW s \in Sending(run'[q])
          PROVE  Spent(s.id)'
      <3>1. /\ Spent(s.id) /\ s.id \in Item /\ Recorded(s.id)
            /\ q # r => Cleans(run[q])
            /\ q = r => run[r].pc # "crash"
        <4>1. CASE q # r
          <5>1. s \in Held(run[q])
            BY <2>2, <2>4, <4>1 DEF Sending, Held
          <5>2. s.id \in Item /\ Recorded(s.id)
            BY <5>1, WhereCaptions
          <5>3. QED
            BY <2>2, <2>4, <4>1, <5>2 DEF FilesInv
        <4>2. CASE q = r
          BY <2>1, <2>4, <4>2, CleansTurns
        <4>3. QED
          BY <4>1, <4>2
      <3>3. run[r].pc # "crash"
        <4>1. SUFFICES ASSUME run[r].pc = "crash", q # r PROVE FALSE
          BY <3>1
        <4>2. Captions(run[r]) /\ "caption" \in Jobs[r] /\ Errors
          BY <4>1, WhereCaptions DEF FilesInv
        <4>3. Jobs[q] \cap {"upload", "caption", "embed"} # {}
          BY <3>1, <4>1, ConstantsAssumption DEF Cleans, IInv, Placed, Places, Job
        <4>4. QED
          BY <4>1, <4>2, <4>3 DEF OneTidies, Alone
      <3>4. QED
        BY <2>1, <3>1, <3>3, SpentStays
    <2>5. ASSUME NEW q \in Runner, run'[q].pc = "crash"
          PROVE  Errors /\ run'[q].left \subseteq run'[q].call
      <3>1. CASE q # r
        BY <2>2, <2>5, <3>1 DEF FilesInv
      <3>2. CASE q = r
        <4>1. Captions(run'[r])
          BY <2>3, <2>5, <3>2, ConstantsAssumption DEF IInv, Placed, Places, Job, Captions
        <4>2. QED
          BY <2>1, <2>5, <3>2, <4>1, CaptionReach DEF FilesInv
      <3>3. QED
        BY <3>1, <3>2
    <2>6. ASSUME NEW i \in Item, Needed(i)'
          PROVE  Here(i)'
      <3>1. CASE Needed(i)
        <4>1. Here(i) /\ (i \in disk => i \in disk')
          BY <2>2, <3>1, NeededIsKept DEF FilesInv, FilesEffect
        <4>2. row'[i].paths => i \in disk'
          BY <2>2, <4>1 DEF FilesEffect, Here
        <4>3. ASSUME NEW q \in Runner, run'[q].pc = "fetched", run'[q].item.id = i PROVE i \in disk'
          BY <2>2, <4>1, <4>3 DEF FilesEffect, Here, Hand
        <4>4. QED
          BY <4>2, <4>3 DEF Here, Hand
      <3>2. CASE ~Recorded(i) \/ row[i].gone
        <4>1. ~row[i].paths
          BY <3>2, FilesAreRecorded DEF IInv, Plain
        <4>2. ASSUME NEW q \in Runner, run[q].pc = "fetched", Hand(q) = i PROVE FALSE
          <5>1. run[q].item.media = "urls" /\ Recorded(i) /\ run[q].item \in Held(run[q])
            BY <4>2, HandIsRecorded DEF IInv, Placed, Holding, Held, InHand
          <5>2. QED
            BY <3>2, <4>2, <5>1 DEF IInv, Known, Hand
        <4>3. row'[i].paths => i \in disk'
          BY <2>1, <2>2, <4>1, <4>2 DEF FilesEffect
        <4>4. ASSUME NEW q \in Runner, run'[q].pc = "fetched", run'[q].item.id = i PROVE i \in disk'
          BY <2>2, <4>2, <4>4 DEF FilesEffect, Hand
        <4>5. QED
          BY <4>3, <4>4 DEF Here, Hand
      <3>3. QED
        BY <2>1, <2>6, <3>1, <3>2, NeededBefore
    <2>7. QED
      BY <2>2, <2>4, <2>5, <2>6 DEF FilesInv, Cleans, Sending, InHand
  <1>3. QED
    BY <1>1, <1>2

\* "Delete local media once every enabled consumer is done with it" (cleanup_downloads):
\* a row that names files has them while it is still to be uploaded or captioned,
\* through failures and crashes at any step, where one run uploads and one captions.
THEOREM NeededFilesAreKept == ASSUME OneTidies PROVE Spec => []FilesAreKept
  <1>1. Init => FilesInv
    <2> SUFFICES ASSUME Init PROVE FilesInv
      OBVIOUS
    <2>1. /\ \A i \in Item : ~row[i].paths
          /\ \A r \in Runner : run[r].pc = "idle"
      BY IdleIsRun DEF Init, New
    <2>2. QED
      BY <2>1 DEF FilesInv, CaptionDue, Captions, Collecting, UploadDue, Uploads, Cleans, Here
  <1>2. FilesInv => FilesAreKept
    BY DEF FilesInv, Needed, Here, FilesAreKept
  <1>3. QED
    BY <1>1, <1>2, FilesStay, InitIsInv, NextKeepsInv, PTL DEF Spec

-----------------------------------------------------------------------------
(* Files in use                                                            *)

\* What a run has made sure of on disk, and has yet to read.
Counted(l) ==
  {s.id : s \in (IF l.pc \in {"send", "have"} /\ l.item.paths THEN {l.item} ELSE {})
                \cup (IF l.job = "caption" /\ l.pc \in Collecting \cup {"describe"} THEN l.usable ELSE {})}

UsedInv == FilesInv /\ \A r \in Runner : Counted(run[r]) \subseteq disk

\* Nobody captions from the shell while the daemon is told not to wait for captions.
CaptionsAwaited == (\E r \in Runner : "caption" \in Jobs[r]) => Captioning

\* Where nothing is added to what a run counts on.
LEMMA SameCounted ==
  ASSUME NEW l, NEW m, m.pc \notin {"send", "have"}, m.job = l.job, m.usable = l.usable,
         m.job = "caption" /\ m.pc \in Collecting \cup {"describe"} => l.pc \in Collecting \cup {"describe"}
  PROVE  Counted(m) \subseteq Counted(l)
  BY DEF Counted

\* Where media was made sure of.
LEMMA EnsuredCounted ==
  ASSUME IInv, NEW r \in Runner, NEW files \in BOOLEAN, WithMedia(r, files), run[r].pc \in {"ensure", "fetched"}
  PROVE  \A i \in Counted(run'[r]) : i \in Counted(run[r]) \/ (files /\ i = Hand(r))
  <1>1. run[r].item \in Snapshot /\ run[r].job \in {"archive", "upload", "caption"}
    BY Begun, HandIsRecorded, ConstantsAssumption DEF Holding, Placed, Places, Job
  <1>2. /\ run'[r].job = run[r].job /\ run'[r].usable = run[r].usable
        /\ run'[r].pc \in {"next", "send", "have"}
        /\ run'[r].pc = "next" => run[r].job = "archive"
        /\ run'[r].pc # "next" => run'[r].item.id = Hand(r) /\ run'[r].item.paths = files
    BY <1>1, HasMediaFields DEF Hand
  <1>3. CASE files
    BY <1>2, <1>3 DEF Counted, Collecting
  <1>4. CASE ~files
    BY <1>2, <1>4 DEF Counted, Collecting
  <1>5. QED
    BY <1>3, <1>4

\* Where a run got what it counts on.
LEMMA CountedTurns ==
  ASSUME IInv, NEW r \in Runner, Acts(r)
  PROVE  \A i \in Counted(run'[r]) : i \in Counted(run[r]) \/ i \in disk' \/ (run[r].pc = "fetched" /\ i = Hand(r))
  <1>1. run[r] \in Run /\ run \in [Runner -> Run] /\ Placed(r, run[r])
    BY Begun DEF IInv, TypeOK
  <1>2. ASSUME NEW pc, pc \notin {"send", "have"}, Goes(r, pc) \/ Settled(r, pc),
               run[r].job = "caption" /\ pc \in Collecting \cup {"describe"} => run[r].pc \in Collecting \cup {"describe"}
        PROVE  Counted(run'[r]) \subseteq Counted(run[r])
    <2>1. run'[r].pc = pc /\ run'[r].job = run[r].job /\ run'[r].usable = run[r].usable
      BY <1>2, GoesFields
    <2>2. QED
      BY <1>2, <2>1, SameCounted
  <1>3. ASSUME run'[r].pc \notin {"send", "have"} \cup Collecting \cup {"describe"}
        PROVE  Counted(run'[r]) = {}
    BY <1>3 DEF Counted
  <1>4. CASE \/ Crash(r) \/ CleanEnds(r) \/ SendFlooded(r) \/ Drained(r) \/ Select(r) \/ Tidy(r)
             \/ \E job \in Job, again \in SUBSET Again : Begin(r, job, again)
    <2>1. ASSUME NEW job \in Job, NEW again \in SUBSET Again, Begin(r, job, again)
          PROVE  run'[r].pc \in {"walk", "select"}
      BY <1>1, <2>1 DEF Begin, Idle
    <2>2. Crash(r) \/ CleanEnds(r) \/ (Drained(r) /\ run[r].job = "archive") => run'[r].pc = "idle"
      BY <1>1, IdleIsRun DEF Crash, CleanEnds, Drained
    <2>3. SendFlooded(r) \/ (Drained(r) /\ run[r].job # "archive") => run'[r].pc = "tidy"
      BY <1>1 DEF SendFlooded, Drained, Idle, Run
    <2>4. Select(r) \/ Tidy(r) => run'[r].pc \in {"batch", "next", "clean"}
      BY SelectFields DEF Select, Tidy
    <2>5. run'[r].pc \in {"walk", "select", "idle", "tidy", "batch", "next", "clean"}
      BY <1>4, <2>1, <2>2, <2>3, <2>4
    <2>6. QED
      BY <1>3, <2>5 DEF Collecting
  <1>5. CASE Take(r) \/ Unlink(r)
    <2>1. Take(r) => run[r].job # "caption"
      BY <1>1, ConstantsAssumption DEF Take, Placed, Places, Job
    <2>2. /\ run'[r].pc \in {"insert", "ensure", "unlinked"} /\ run'[r].job = run[r].job
          /\ Take(r) \/ run'[r].pc = "unlinked"
      BY <1>5, TakeFields
    <2>3. QED
      BY <2>1, <2>2 DEF Counted, Collecting
  <1>6. CASE EnsureReturns(r) \/ EnsureMarks(r)
    <2>1. ASSUME EnsureMarks(r) PROVE run[r].pc = "fetched" /\ WithMedia(r, TRUE)
      BY <2>1 DEF EnsureMarks
    <2>2. ASSUME EnsureReturns(r)
          PROVE  run[r].pc = "ensure" /\ disk' = disk /\ (WithMedia(r, FALSE) \/ (WithMedia(r, TRUE) /\ Hand(r) \in disk))
      BY <2>2 DEF EnsureReturns, Hand
    <2>3. QED
      BY <1>6, <2>1, <2>2, EnsuredCounted
  <1>7. CASE EnsureFetches(r) \/ EnsureRaises(r) \/ CollectUnusable(r)
    <2>1. run[r].pc \in {"ensure", "have"} /\ \E pc \in {"fetched", "next", "collect"} : Goes(r, pc) \/ Settled(r, pc)
      BY <1>7 DEF EnsureFetches, EnsureRaises, CollectUnusable
    <2>2. QED
      BY <1>2, <2>1 DEF Collecting
  <1>8. CASE RefreshSettles(r) \/ WalkEnds(r) \/ Send(r) \/ SendFails(r) \/ UploadMarks(r) \/ BatchEnds(r) \/ Embed(r) \/ ClearPaths(r)
    <2>1. \E pc \in {"walk", "select", "sent", "next", "tidy", "inserted", "clean"} : Goes(r, pc) \/ Settled(r, pc)
      BY <1>8 DEF RefreshSettles, WalkEnds, Send, SendFails, UploadMarks, BatchEnds, Embed, EmbedRaises, EmbedInserts,
                  EmbedMarks, ClearPaths
    <2>2. QED
      BY <1>2, <2>1 DEF Collecting
  <1>9. CASE SendAgain(r)
    <2>1. run'[r].pc = run[r].pc /\ run'[r].item = run[r].item /\ run'[r].job = run[r].job /\ run'[r].usable = run[r].usable
      BY <1>1, <1>9 DEF SendAgain, Run
    <2>2. QED
      BY <2>1 DEF Counted
  <1>10. CASE CaptionText(r) \/ Apply(r) \/ CrashMarks(r)
    <2>1. /\ run[r].pc \in {"batch", "apply", "crash"}
          /\ \/ Goes(r, "batch")
             \/ \E s \in run[r].left \cup run[r].todo :
                  \/ run' = [run EXCEPT ![r].left = @ \ {s}] \/ run' = [run EXCEPT ![r].todo = @ \ {s}]
      BY <1>10 DEF CaptionText, Apply, CrashMarks
    <2>2. ASSUME NEW s, \/ run' = [run EXCEPT ![r].left = @ \ {s}] \/ run' = [run EXCEPT ![r].todo = @ \ {s}]
          PROVE  run'[r].pc = run[r].pc
      BY <1>1, <2>2 DEF Run
    <2>3. run'[r].pc \in {"batch", "apply", "crash"}
      BY <2>1, <2>2, GoesFields
    <2>4. QED
      BY <1>3, <2>3 DEF Collecting
  <1>11. CASE PlanCall(r)
    <2>1. PICK c \in SUBSET run[r].todo :
            run' = [run EXCEPT ![r].todo = @ \ c, ![r].call = c, ![r].left = c, ![r].usable = {}, ![r].pc = "collect"]
      BY <1>11 DEF PlanCall
    <2>2. run'[r].pc = "collect" /\ run'[r].usable = {}
      BY <1>1, <2>1 DEF Run
    <2>3. QED
      BY <2>2 DEF Counted
  <1>12. CASE Collect(r)
    <2>1. run[r].pc = "collect"
      BY <1>12 DEF Collect
    <2>2. CASE \E s \in run[r].left : run' = [run EXCEPT ![r].left = @ \ {s}, ![r].item = s, ![r].pc = "ensure"]
      <3>1. PICK s \in run[r].left : run' = [run EXCEPT ![r].left = @ \ {s}, ![r].item = s, ![r].pc = "ensure"]
        BY <2>2
      <3>2. run'[r].pc = "ensure" /\ run'[r].job = run[r].job /\ run'[r].usable = run[r].usable
        BY <1>1, <3>1 DEF Run
      <3>3. QED
        BY <2>1, <3>2, SameCounted DEF Collecting
    <2>3. CASE \E pc \in {"batch", "describe"} : Goes(r, pc)
      BY <1>2, <2>1, <2>3 DEF Collecting
    <2>4. QED
      BY <1>12, <2>2, <2>3 DEF Collect, Goes
  <1>13. CASE CollectUsable(r)
    <2>1. run[r].job = "caption" /\ run[r].pc = "have" /\ Hand(r) \in disk /\ disk' = disk
      BY <1>1, <1>13, WhereCaptions DEF CollectUsable, Captions
    <2>2. run'[r].pc = "collect" /\ run'[r].usable = run[r].usable \cup {run[r].item}
      BY <1>1, <1>13 DEF CollectUsable, Run
    <2>3. QED
      BY <2>1, <2>2 DEF Counted, Collecting, Hand
  <1>14. CASE Describe(r) \/ CallRaises(r)
    <2>1. run'[r].pc \in {"apply", "crash"}
      BY <1>1, <1>14 DEF Describe, CallRaises, Run
    <2>2. QED
      BY <1>3, <2>1 DEF Collecting
  <1>15. CASE Archive(r)
    <2>1. run[r].pc = "walk" /\ (run' = run \/ \E i \in Item : RefreshMedia(r, i))
      BY <1>15 DEF Archive, Record, ReplaceTombstone, Restore, RefreshMedia, Walking
    <2>2. ASSUME NEW i \in Item, RefreshMedia(r, i) PROVE run'[r].pc = "refreshed"
      BY <1>1, <2>2 DEF RefreshMedia, Run
    <2>3. QED
      BY <1>3, <2>1, <2>2 DEF Collecting
  <1>16. QED
    BY <1>4, <1>5, <1>6, <1>7, <1>8, <1>9, <1>10, <1>11, <1>12, <1>13, <1>14, <1>15
       DEF Acts, Continue, Ensure, Upload, Caption, Cleanup

\* What a run counts on, or has just fetched, some stage still wants.
LEMMA CountedIsWanted ==
  ASSUME IInv, FilesInv, CaptionsAwaited, NEW r \in Runner, NEW i, i \in Counted(run[r]) \/ (run[r].pc = "fetched" /\ i = Hand(r)),
         run[r].job # "archive"
  PROVE  i \in Item /\ Wanted(i)
  <1>1. /\ run[r] \in Run /\ Placed(r, run[r]) /\ \A s \in Held(run[r]) : s.id \in Item
    BY WhereCaptions
  <1>2. CASE run[r].job = "caption"
    <2>1. Captioning /\ Captions(run[r])
      BY <1>1, <1>2, WhereCaptions, ConstantsAssumption DEF CaptionsAwaited, Counted, Captions, Collecting, Placed, Places, Job
    <2>2. PICK s \in Held(run[r]) : s.id = i /\ row[s.id].caption \in Unsettled
      BY <1>2, <2>1 DEF FilesInv, CaptionDue, Ahead, Counted, InHand, Holding, Held, Collecting, Hand
    <2>3. QED
      BY <1>1, <2>1, <2>2 DEF Wanted, Unsettled
  <1>3. CASE run[r].job # "caption"
    <2>1. run[r].pc \in {"send", "fetched"} /\ i = Hand(r)
      BY <1>1, <1>3, ConstantsAssumption DEF Counted, Placed, Places, Job, Hand
    <2>2. Uploads(run[r]) /\ run[r].item \in Sending(run[r]) /\ Hand(r) \in Item
      BY <1>1, <1>3, <2>1, WhereUploads, ConstantsAssumption DEF Placed, Places, Job
    <2>3. row[Hand(r)].upload \in Unsent
      BY <2>2 DEF FilesInv, UploadDue, Hand
    <2>4. QED
      BY <2>1, <2>2, <2>3 DEF Wanted, Unsent
  <1>4. QED
    BY <1>2, <1>3

LEMMA UsedStays ==
  ASSUME IInv, UsedInv, OneTidies, CaptionsAwaited, [Next]_vars
  PROVE  UsedInv'
  <1>1. FilesInv'
    BY FilesStay DEF UsedInv
  <1>2. CASE UNCHANGED vars
    BY <1>1, <1>2 DEF vars, UsedInv
  <1>3. CASE Next
    <2>1. PICK r \in Runner : Acts(r)
      BY <1>3 DEF Next, Acts
    <2>2. FilesEffect(r) /\ \A q \in Runner \ {r} : run'[q] = run[q]
      BY <2>1, EveryFilesEffect, OthersStay
    <2>3. ASSUME NEW q \in Runner, NEW i, i \in Counted(run[q]) \/ (run[q].pc = "fetched" /\ i = Hand(q)), run[q].job # "archive"
          PROVE  i \in disk'
      <3>1. i \in Item /\ Needed(i)
        BY <2>3, CountedIsWanted DEF UsedInv, Needed
      <3>2. i \in disk
        BY <2>3, <3>1 DEF UsedInv, FilesInv, Here
      <3>3. QED
        BY <2>2, <3>1, <3>2, NeededIsKept DEF UsedInv, FilesEffect
    <2>4. ASSUME NEW q \in Runner, NEW i \in Counted(run'[q]) PROVE i \in disk'
      <3>1. i \in Counted(run[q]) \/ i \in disk' \/ (run[q].pc = "fetched" /\ i = Hand(q))
        BY <2>1, <2>2, <2>4, CountedTurns
      <3>2. run[q].job # "archive"
        <4>1. SUFFICES ASSUME run[q].job = "archive" PROVE FALSE
          OBVIOUS
        <4>2. Placed(q, run'[q]) /\ run'[q] \in Run
          BY <2>1, ActsKeepsInv DEF IInv, Placed
        <4>3. \/ run'[q].pc \in {"walk", "select"} \/ run'[q] = Idle \/ run'[q].job = "archive"
          <5>1. CASE q # r
            BY <2>2, <4>1, <5>1
          <5>2. CASE q = r
            BY <2>1, <4>1, <5>2, JobStays
          <5>3. QED
            BY <5>1, <5>2
        <4>4. run'[q].job = "archive" => run'[q].pc \notin {"send", "have"}
          BY <4>2, ConstantsAssumption, IdleIsRun DEF Placed, Places, Job
        <4>5. run'[q].pc \notin {"send", "have"} /\ ~(run'[q].job = "caption" /\ run'[q].pc \in Collecting \cup {"describe"})
          BY <4>3, <4>4, IdleIsRun DEF Collecting
        <4>6. QED
          BY <2>4, <4>5 DEF Counted
      <3>3. QED
        BY <2>3, <3>1, <3>2
    <2>5. QED
      BY <1>1, <2>4 DEF UsedInv
  <1>4. QED
    BY <1>2, <1>3

\* Jobs run "independently, in any order, at any time" (jobs.py:132-133): no run
\* deletes the files another is about to send or to describe, by the queue or from
\* the shell, where one run uploads and one captions.
THEOREM UsedFilesAreThere == ASSUME OneTidies, CaptionsAwaited PROVE Spec => []UsedFilesExist
  <1>1. Init => UsedInv
    <2> SUFFICES ASSUME Init PROVE UsedInv
      OBVIOUS
    <2>1. /\ \A i \in Item : ~row[i].paths
          /\ \A r \in Runner : run[r].pc = "idle"
      BY IdleIsRun DEF Init, New
    <2>2. QED
      BY <2>1 DEF UsedInv, FilesInv, CaptionDue, Captions, Collecting, UploadDue, Uploads, Cleans, Here, Counted
  <1>2. ASSUME IInv, UsedInv PROVE UsedFilesExist
    <2>1. ASSUME NEW r \in Runner PROVE InUse(r) \subseteq disk
      <3>1. CASE run[r].pc \in {"send", "have"}
        BY <1>2, <3>1 DEF InUse, UsedInv, Counted, Hand
      <3>2. CASE run[r].pc = "describe"
        <4>1. run[r].job = "caption"
          BY <1>2, <3>2, WhereCaptions DEF Captions
        <4>2. QED
          BY <1>2, <3>2, <4>1 DEF InUse, UsedInv, Counted
      <3>3. CASE run[r].pc \notin {"send", "have", "describe"}
        BY <3>3 DEF InUse
      <3>4. QED
        BY <3>1, <3>2, <3>3
    <2>2. QED
      BY <2>1 DEF UsedFilesExist
  <1>3. QED
    BY <1>1, <1>2, UsedStays, InitIsInv, NextKeepsInv, PTL DEF Spec
=============================================================================
