--------------------------- MODULE ItemStagesProofs ---------------------------
(***************************************************************************)
(* Theorems about ItemStages, for any items, runners, attempts and sends.  *)
(***************************************************************************)
EXTENDS ItemStages, FiniteSetTheorems, TLAPS

\* Where a run of each job can be, and where it has an item in its hands.
Places(job) ==
  CASE job = "archive" -> {"walk", "refreshed", "select", "next", "ensure", "fetched"}
    [] job = "upload"  -> {"select", "next", "ensure", "fetched", "send", "sent", "tidy", "clean", "unlinked"}
    [] job = "caption" -> {"select", "batch", "collect", "ensure", "fetched", "have", "describe", "apply", "crash",
                           "tidy", "clean", "unlinked"}
    [] job = "embed"   -> {"select", "next", "insert", "inserted", "tidy", "clean", "unlinked"}

Holding == {"refreshed", "ensure", "fetched", "send", "sent", "have", "insert", "inserted", "unlinked"}

Placed(r, l) ==
  /\ l \in Run
  /\ l.pc # "idle" => l.job \in Jobs[r] /\ l.pc \in Places(l.job)
  /\ l.pc \in Holding => l.item \in Snapshot
  /\ l.pc = "fetched" => l.item.media = "urls"

InHand(l) == IF l.pc \in Holding THEN {l.item} ELSE {}

Held(l) == l.todo \cup l.call \cup l.left \cup l.usable \cup InHand(l)

\* What a run holds has been recorded, with a text where it has media.
Known(l) ==
  \A s \in Held(l) : /\ row[s.id].archive \notin {"absent", "tombstone"}
                     /\ s.media # "none" => ~row[s.id].gone

Single(S) == \A s, t \in S : s.id = t.id => s = t
Separate(S, T) == \A s \in S, t \in T : s.id # t.id

Collecting == {"collect", "ensure", "fetched", "have"}

Captions(l) == l.job = "caption" /\ l.pc \in Collecting \cup {"batch", "describe", "apply", "crash"}

\* No item is in two of the places a run will turn to.
Apart(l) ==
  /\ Single(l.todo) /\ Separate(l.todo, InHand(l))
  /\ Captions(l) =>
       /\ Separate(l.todo, l.call) /\ Separate(l.todo, l.left) /\ Separate(l.todo, l.usable)
       /\ l.pc \in Collecting \cup {"apply"} => Single(l.left)
       /\ l.pc \in Collecting => /\ Separate(l.left, l.usable)
                                 /\ Separate(l.left, InHand(l)) /\ Separate(l.usable, InHand(l))
       /\ l.pc \in Collecting \cup {"describe"} => Single(l.usable)
  /\ l.pc \in {"walk", "refreshed"} => l.todo = {}
  /\ l.job = "caption" /\ l.pc = "select" => l.call = {} /\ l.left = {} /\ l.usable = {}

\* A row that is not recorded, or not resolved, or has no text, has nothing else.
Plain(v) ==
  /\ v.archive = "absent" => v = New("absent", "none")
  /\ v.archive = "tombstone" => v = Arrival("tombstone")
  /\ v.gone => ~v.paths /\ v.media = "none"

\* Who has Telegram's answer for an item and has not recorded it.
Answers(i) == {r \in Runner : run[r].pc = "sent" /\ Hand(r) = i}

\* Telegram has shown an item as often as that is in doubt or about to be recorded,
\* and as often as it is recorded.
SentInv ==
  \A i \in Item : /\ IsFiniteSet(Answers(i))
                  /\ sent[i].doubts + Cardinality(Answers(i)) <= sent[i].times

IInv ==
  /\ TypeOK /\ SentInv
  /\ \A i \in Item : Plain(row[i])
  /\ \A r \in Runner : Placed(r, run[r]) /\ Known(run[r]) /\ Apart(run[r])

-----------------------------------------------------------------------------
(* Lemmas on rows and on what one step changes                             *)

Recorded(i) == row[i].archive \notin {"absent", "tombstone"}

\* Rows keep their shape, what is recorded stays so, and keeps its text.
RowsGo ==
  /\ row' \in [Item -> Row]
  /\ \A i \in Item : /\ Plain(row[i])'
                     /\ Recorded(i) => Recorded(i)' /\ (~row[i].gone => ~row'[i].gone)

LEMMA RowsStay ==
  ASSUME IInv, row' = row
  PROVE  RowsGo
  BY DEF IInv, TypeOK, RowsGo, Recorded, Plain

\* A recorded row of which a stage writes its own columns.
LEMMA StageWrites ==
  ASSUME IInv, NEW i \in Item, Recorded(i), NEW v \in Row, row' = [row EXCEPT ![i] = v],
         v.archive \notin {"absent", "tombstone"}, v.gone => row[i].gone,
         v.gone => ~v.paths /\ v.media = "none"
  PROVE  RowsGo
  BY DEF IInv, TypeOK, RowsGo, Recorded, Plain

LEMMA Marks ==
  ASSUME IInv, NEW i \in Item, Recorded(i),
         \/ MarkArchiveFailed(i) \/ MarkUploaded(i) \/ MarkUploadFailed(i) \/ MarkCaptioned(i) \/ MarkCaptionFailed(i)
         \/ MarkCaptionRefused(i) \/ MarkEmbedded(i) \/ MarkEmbedFailed(i)
  PROVE  RowsGo
  <1>0. row \in [Item -> Row] /\ row[i] \in Row /\ Plain(row[i])
    BY DEF IInv, TypeOK
  <1> DEFINE v == row'[i]
  <1>1. row' = [row EXCEPT ![i] = v]
    BY <1>0 DEF MarkArchiveFailed, MarkUploaded, MarkUploadFailed, MarkCaptioned, MarkCaptionFailed,
                MarkCaptionRefused, MarkEmbedded, MarkEmbedFailed
  <1>2. v \in Row /\ v.archive \notin {"absent", "tombstone"} /\ v.gone = row[i].gone /\ v.paths = row[i].paths
          /\ v.media = row[i].media
    BY <1>0, SMT DEF Recorded, Row, MarkArchiveFailed, MarkUploaded, MarkUploadFailed, MarkCaptioned, MarkCaptionFailed,
                MarkCaptionRefused, MarkEmbedded, MarkEmbedFailed
  <1> HIDE DEF v
  <1>3. QED
    BY <1>0, <1>1, <1>2, StageWrites DEF Plain

\* Nobody who has Telegram's answer comes or goes.
LEMMA SentStays ==
  ASSUME IInv, NEW r \in Runner, NEW l, run' = [run EXCEPT ![r] = l], sent' = sent,
         run[r].pc # "sent", l.pc # "sent"
  PROVE  SentInv' /\ \A i \in Item : Answers(i)' = Answers(i)
  <1>1. ASSUME NEW i \in Item PROVE Answers(i)' = Answers(i)
    BY DEF Answers, Hand, IInv, TypeOK
  <1>2. QED
    BY <1>1 DEF SentInv, IInv

LEMMA OneMoves ==
  ASSUME IInv, NEW r \in Runner, NEW l, run' = [run EXCEPT ![r] = l],
         Placed(r, l), Known(l), Apart(l), RowsGo,
         disk' \subseteq Item, indexed' \subseteq Item, crashes' \in 0 .. MaxCrashes,
         sent' \in [Item -> [times : 0 .. MaxShown, doubts : 0 .. MaxShown, media : BOOLEAN]], SentInv'
  PROVE  IInv'
  <1>1. run' \in [Runner -> Run]
    BY DEF Placed, IInv, TypeOK
  <1>2. ASSUME NEW q \in Runner PROVE run'[q] = IF q = r THEN l ELSE run[q]
    BY DEF IInv, TypeOK
  <1>3. ASSUME NEW q \in Runner PROVE Placed(q, run[q])' /\ Apart(run[q])'
    BY <1>2 DEF IInv, Placed, Apart
  <1>4. ASSUME NEW q \in Runner PROVE Known(run[q])'
    <2>1. Known(run'[q]) /\ Placed(q, run'[q])
      BY <1>2 DEF IInv
    <2>2. \A s \in Held(run'[q]) : s.id \in Item
      BY <2>1 DEF Placed, Held, InHand, Run, Snapshot
    <2>3. \A s \in Held(run'[q]) : Recorded(s.id) /\ (s.media # "none" => ~row[s.id].gone)
      BY <2>1 DEF Known, Recorded
    <2>4. \A s \in Held(run'[q]) : Recorded(s.id)' /\ (s.media # "none" => ~row'[s.id].gone)
      BY <2>2, <2>3 DEF RowsGo
    <2>5. QED
      BY <2>4 DEF Known, Recorded
  <1>5. TypeOK'
    BY <1>1 DEF TypeOK, RowsGo
  <1>6. QED
    BY <1>3, <1>4, <1>5 DEF IInv, RowsGo

LEMMA OneGoes ==
  ASSUME IInv, NEW r \in Runner, NEW l, run' = [run EXCEPT ![r] = l],
         Placed(r, l), Known(l), Apart(l), run[r].pc # "sent", l.pc # "sent", RowsGo,
         disk' \subseteq Item, indexed' \subseteq Item, sent' = sent, crashes' = crashes
  PROVE  IInv'
  BY SentStays, OneMoves DEF IInv, TypeOK

LEMMA Begun ==
  ASSUME IInv, NEW r \in Runner
  PROVE  /\ run[r] \in Run /\ Placed(r, run[r]) /\ Known(run[r]) /\ Apart(run[r])
         /\ row \in [Item -> Row] /\ disk \subseteq Item /\ indexed \subseteq Item
         /\ \A i \in Item : row[i] \in Row /\ Plain(row[i]) /\ Read(i) \in Snapshot
                            /\ Read(i).id = i /\ Read(i).media = row[i].media /\ Read(i).paths = row[i].paths
  BY DEF IInv, TypeOK, Read, Snapshot, Row

\* The item in a run's hands is a recorded one.
LEMMA HandIsRecorded ==
  ASSUME IInv, NEW r \in Runner, run[r].pc \in Holding
  PROVE  run[r].item \in Snapshot /\ Hand(r) \in Item /\ Recorded(Hand(r))
  BY DEF IInv, Placed, Known, Held, InHand, Hand, Snapshot, Recorded

\* What has files was downloaded.
LEMMA FilesAreRecorded ==
  ASSUME IInv, NEW i \in Item, row[i].paths
  PROVE  Recorded(i)
  <1>1. Arrival("tombstone") = [New("tombstone", "none") EXCEPT !.gone = TRUE, !.upload = "skipped",
                                 !.caption = "unavailable", !.embed = "skipped"]
    BY DEF Arrival
  <1>2. ~New("absent", "none").paths /\ ~Arrival("tombstone").paths
    BY <1>1 DEF New
  <1>3. QED
    BY <1>2 DEF IInv, Plain, Recorded

LEMMA StepSelect ==
  ASSUME IInv, NEW r \in Runner, Select(r) \/ Tidy(r)
  PROVE  IInv'
  <1> DEFINE S == {i \in Item : IF run[r].pc = "select" THEN Pending(i, run[r].job, run[r].again) ELSE Cleanable(i)}
             todo == {Read(i) : i \in S}
             pc == IF run[r].pc = "tidy" THEN "clean" ELSE IF run[r].job = "caption" THEN "batch" ELSE "next"
             l == [run[r] EXCEPT !.todo = todo, !.pc = pc]
  <1>0. run[r].pc \in {"select", "tidy"} /\ run' = [run EXCEPT ![r] = l] /\ UNCHANGED <<row, disk, indexed, sent, crashes>>
    BY DEF Select, Tidy
  <1>1. Placed(r, run[r]) /\ Known(run[r]) /\ Apart(run[r]) /\ run[r] \in Run
    BY Begun
  <1>2. todo \in SUBSET Snapshot
    BY Begun
  <1>3. \A i \in S : Recorded(i)
    <2>1. SUFFICES ASSUME NEW i \in S PROVE Recorded(i)
      OBVIOUS
    <2>2. Plain(row[i]) /\ row[i] \in Row
      BY Begun
    <2>3. CASE run[r].pc = "select"
      <3>1. run[r].job \in Job
        BY <1>1, <2>3, ConstantsAssumption DEF Placed
      <3>2. QED
        BY <2>3, <3>1, ConstantsAssumption DEF Pending, Recorded, Job
    <2>4. CASE run[r].pc = "tidy"
      BY <2>4, FilesAreRecorded DEF Cleanable
    <2>5. QED
      BY <1>0, <2>3, <2>4
  <1>4. Single(todo) /\ \A s \in todo : Recorded(s.id) /\ (s.media # "none" => ~row[s.id].gone)
    BY <1>3, Begun DEF Single, Plain
  <1> HIDE DEF todo, S
  <1>5. /\ l.pc = pc /\ l.todo = todo /\ l.job = run[r].job /\ l.call = run[r].call /\ l.left = run[r].left
        /\ l.usable = run[r].usable /\ l.item = run[r].item /\ l \in Run
    BY <1>0, <1>1, <1>2 DEF Run, Pc
  <1> HIDE DEF l
  <1>6. Placed(r, l)
    BY <1>0, <1>1, <1>5, ConstantsAssumption DEF Placed, Places, Holding, Job
  <1>7. Known(l)
    BY <1>0, <1>1, <1>4, <1>5 DEF Known, Held, InHand, Recorded, Holding
  <1>8. Apart(l)
    BY <1>0, <1>1, <1>4, <1>5 DEF Apart, Captions, Separate, Single, InHand, Holding, Collecting, Placed, Places
  <1>9. QED
    BY <1>0, <1>5, <1>6, <1>7, <1>8, OneGoes, RowsStay DEF IInv, TypeOK

LEMMA StepTake ==
  ASSUME IInv, NEW r \in Runner, Take(r)
  PROVE  IInv'
  <1>0. PICK s \in run[r].todo : run' = [run EXCEPT ![r] = [run[r] EXCEPT !.todo = @ \ {s}, !.item = s, !.n = 1,
                                     !.pc = IF run[r].job = "embed" THEN "insert" ELSE "ensure"]]
    BY DEF Take
  <1> DEFINE pc == IF run[r].job = "embed" THEN "insert" ELSE "ensure"
             l == [run[r] EXCEPT !.todo = @ \ {s}, !.item = s, !.n = 1, !.pc = pc]
  <1>1. Placed(r, run[r]) /\ Known(run[r]) /\ Apart(run[r]) /\ run[r] \in Run /\ run[r].pc = "next"
    BY Begun DEF Take
  <1>2. /\ l.pc = pc /\ l.todo = run[r].todo \ {s} /\ l.job = run[r].job /\ l.call = run[r].call /\ l.left = run[r].left
        /\ l.usable = run[r].usable /\ l.item = s /\ l \in Run /\ s \in Snapshot
    BY <1>1 DEF Run, Pc
  <1>3. run' = [run EXCEPT ![r] = l]
    BY <1>0
  <1> HIDE DEF l
  <1>4. Placed(r, l)
    BY <1>1, <1>2, ConstantsAssumption DEF Placed, Places, Holding, Job
  <1>5. Known(l)
    BY <1>1, <1>2 DEF Known, Held, InHand
  <1>6. Apart(l)
    BY <1>1, <1>2, ConstantsAssumption DEF Apart, Captions, Separate, Single, InHand, Placed, Places, Job
  <1>7. QED
    BY <1>1, <1>2, <1>3, <1>4, <1>5, <1>6, OneGoes, RowsStay DEF Take, IInv, TypeOK

\* A run that lets go of the item in its hands, or only turns to another place.
LEMMA Settles ==
  ASSUME IInv, NEW r \in Runner, NEW pc \in Places(run[r].job) \ Holding,
         run[r].pc # "idle", Goes(r, pc) \/ Settled(r, pc), pc = "walk" => run[r].pc = "refreshed",
         run[r].job = "caption" /\ pc # "clean" =>
           \/ pc = "collect" /\ run[r].pc \in Collecting
           \/ pc = "batch" /\ run[r].pc \in {"collect", "apply", "crash"}
           \/ pc = "tidy" /\ run[r].pc = "batch"
  PROVE  \E l : /\ run' = [run EXCEPT ![r] = l] /\ Placed(r, l) /\ Known(l) /\ Apart(l)
                /\ l.pc = pc
  <1> DEFINE l == IF Goes(r, pc) THEN [run[r] EXCEPT !.pc = pc] ELSE [run[r] EXCEPT !.pc = pc, !.item = None, !.n = 0]
  <1>1. Placed(r, run[r]) /\ Known(run[r]) /\ Apart(run[r]) /\ run[r] \in Run
    BY Begun
  <1>2. run[r].job \in Job /\ pc \in Pc
    BY <1>1, ConstantsAssumption DEF Placed, Places, Job, Pc
  <1>3. /\ l.pc = pc /\ l.todo = run[r].todo /\ l.job = run[r].job /\ l.call = run[r].call /\ l.left = run[r].left
        /\ l.usable = run[r].usable /\ l \in Run
    BY <1>1, <1>2 DEF Run
  <1>4. run' = [run EXCEPT ![r] = l]
    BY DEF Goes, Settled, IInv, TypeOK
  <1> HIDE DEF l
  <1>5. Placed(r, l)
    BY <1>1, <1>3 DEF Placed, Holding
  <1>6. Known(l)
    BY <1>1, <1>3 DEF Known, Held, InHand
  <1>7. Apart(l)
    <2>1. InHand(l) = {} /\ ~(l.job = "caption" /\ l.pc = "select") /\ (l.pc \in {"walk", "refreshed"} => l.todo = {})
      BY <1>1, <1>3 DEF InHand, Collecting, Holding, Apart
    <2>2. Single(l.todo) /\ Separate(l.todo, InHand(l))
      BY <1>1, <1>3, <2>1 DEF Apart, Separate
    <2>3. CASE Captions(l) /\ pc = "collect"
      BY <1>1, <1>3, <2>1, <2>2, <2>3 DEF Apart, Captions, Separate, Collecting
    <2>4. CASE Captions(l) /\ pc = "batch"
      BY <1>1, <1>3, <2>1, <2>2, <2>4 DEF Apart, Captions, Separate, Single, Collecting
    <2>5. CASE ~Captions(l)
      BY <2>1, <2>2, <2>5 DEF Apart
    <2>6. QED
      BY <1>3, <2>3, <2>4, <2>5 DEF Captions, Collecting
  <1>8. QED
    BY <1>3, <1>4, <1>5, <1>6, <1>7

-----------------------------------------------------------------------------
(* Beginning, walking, and ending                                          *)

LEMMA IdleIsRun == Idle \in Run /\ Idle.pc = "idle" /\ Idle.todo = {} /\ Idle.job = None
  BY DEF Idle, Run, Pc

LEMMA StepIdle ==
  ASSUME IInv, NEW r \in Runner, run[r].pc # "sent", run' = [run EXCEPT ![r] = Idle],
         UNCHANGED <<row, disk, indexed, sent, crashes>>
  PROVE  IInv'
  <1>1. Placed(r, Idle)
    BY IdleIsRun DEF Placed, Holding
  <1>2. Known(Idle) /\ Apart(Idle)
    BY DEF Idle, Known, Held, InHand, Holding, Apart, Single, Separate, Captions, Collecting
  <1>3. QED
    BY <1>1, <1>2, IdleIsRun, OneGoes, RowsStay DEF IInv, TypeOK

LEMMA StepBegin ==
  ASSUME IInv, NEW r \in Runner, NEW job \in Job, NEW again \in SUBSET Again, Begin(r, job, again)
  PROVE  IInv'
  <1> DEFINE pc == IF job = "archive" THEN "walk" ELSE "select"
             l == [Idle EXCEPT !.job = job, !.again = again, !.pc = pc]
  <1>1. run' = [run EXCEPT ![r] = l] /\ run[r].pc = "idle" /\ job \in Jobs[r]
    BY DEF Begin
  <1>2. /\ l \in Run /\ l.job = job /\ l.pc = pc /\ l.todo = {} /\ l.call = {} /\ l.left = {} /\ l.usable = {}
    BY DEF Idle, Run, Pc
  <1> HIDE DEF l
  <1>3. Placed(r, l)
    BY <1>1, <1>2 DEF Placed, Places, Holding, Job
  <1>4. Known(l) /\ Apart(l)
    BY <1>2 DEF Known, Held, InHand, Holding, Apart, Single, Separate, Captions, Collecting
  <1>5. QED
    BY <1>1, <1>2, <1>3, <1>4, OneGoes, RowsStay DEF Begin, IInv, TypeOK

LEMMA StepTurns ==
  ASSUME IInv, NEW r \in Runner, WalkEnds(r) \/ BatchEnds(r) \/ (Drained(r) /\ run[r].job # "archive")
  PROVE  IInv'
  <1> DEFINE pc == IF run[r].pc = "walk" THEN "select" ELSE "tidy"
  <1>1. Goes(r, pc) /\ UNCHANGED <<row, disk, indexed, sent, crashes>> /\ run[r].pc \in {"walk", "batch", "next"}
    BY DEF WalkEnds, BatchEnds, Drained, Walking, Goes
  <1>2. Placed(r, run[r])
    BY Begun
  <1>3. pc \in Places(run[r].job) \ Holding /\ (run[r].job = "caption" => run[r].pc = "batch")
    BY <1>1, <1>2, ConstantsAssumption DEF WalkEnds, BatchEnds, Drained, Walking, Placed, Places, Holding, Job
  <1> HIDE DEF pc
  <1>4. pc # "walk" /\ (run[r].job = "caption" => pc = "tidy")
    BY <1>1, <1>3 DEF pc
  <1>5. PICK l : run' = [run EXCEPT ![r] = l] /\ Placed(r, l) /\ Known(l) /\ Apart(l) /\ l.pc = pc
    BY <1>1, <1>3, <1>4, Settles
  <1>6. QED
    BY <1>1, <1>3, <1>5, OneGoes, RowsStay DEF IInv, TypeOK, Holding

LEMMA StepEnds ==
  ASSUME IInv, NEW r \in Runner, CleanEnds(r) \/ (Drained(r) /\ run[r].job = "archive")
  PROVE  IInv'
  BY StepIdle DEF CleanEnds, Drained

\* A step that writes a row, and perhaps files, while its run walks on.
LEMMA RunStays ==
  ASSUME IInv, NEW r \in Runner, run' = run, run[r].pc # "sent", RowsGo, disk' \subseteq Item,
         UNCHANGED <<indexed, sent, crashes>>
  PROVE  IInv'
  <1>1. run' = [run EXCEPT ![r] = run[r]]
    BY DEF IInv, TypeOK
  <1>2. QED
    BY <1>1, OneGoes, Begun

LEMMA ArrivalIsPlain ==
  ASSUME NEW shape \in Shapes
  PROVE  Arrival(shape) \in Row /\ Plain(Arrival(shape)) /\ Arrival(shape).archive # "absent"
  <1> DEFINE Refused == [New("tombstone", "none") EXCEPT !.gone = TRUE, !.upload = "skipped",
                           !.caption = "unavailable", !.embed = "skipped"]
  <1>1. \A m \in Media, a \in {"archived", "pending"} : New(a, m) \in Row /\ Plain(New(a, m)) /\ New(a, m).archive # "absent"
    BY DEF New, Row, Media, Plain
  <1>2. CASE shape \in {"text", "media", "lost"}
    BY <1>1, <1>2 DEF Arrival, Media
  <1>3. CASE shape = "tombstone"
    <2>1. Refused = Arrival(shape) /\ shape = "tombstone"
      BY <1>3 DEF Arrival
    <2>2. Refused \in Row /\ Refused.archive = "tombstone" /\ ~Refused.paths /\ Refused.media = "none"
      BY DEF New, Row, Media
    <2>3. QED
      BY <2>1, <2>2 DEF Plain
  <1>4. CASE shape = "removed"
    <2> DEFINE v == [New("archived", "none") EXCEPT !.gone = TRUE]
    <2>1. Arrival(shape) = v
      BY <1>4 DEF Arrival
    <2>2. v \in Row
      BY DEF New, Row, Media
    <2>3. v.archive = "archived" /\ ~v.paths /\ v.media = "none"
      BY DEF New
    <2> HIDE DEF v
    <2>4. QED
      BY <2>1, <2>2, <2>3 DEF Plain
  <1>5. CASE shape = "igtv"
    <2> DEFINE v == [New("skipped", "urls") EXCEPT !.upload = "skipped", !.embed = "skipped"]
    <2>1. Arrival(shape) = v
      BY <1>5 DEF Arrival
    <2>2. v \in Row
      BY DEF New, Row, Media
    <2>3. v.archive = "skipped" /\ ~v.gone
      BY DEF New
    <2> HIDE DEF v
    <2>4. QED
      BY <2>1, <2>2, <2>3 DEF Plain
  <1>6. CASE shape = "linked"
    <2> DEFINE v == [New("archived", "local") EXCEPT !.paths = TRUE]
    <2>1. Arrival(shape) = v
      BY <1>6 DEF Arrival
    <2>2. v \in Row
      BY DEF New, Row, Media
    <2>3. v.archive = "archived" /\ ~v.gone
      BY DEF New
    <2> HIDE DEF v
    <2>4. QED
      BY <2>1, <2>2, <2>3 DEF Plain
  <1>7. QED
    BY <1>2, <1>3, <1>4, <1>5, <1>6 DEF Shapes

LEMMA StepRecord ==
  ASSUME IInv, NEW r \in Runner, NEW i \in Item, NEW shape \in Shape, Record(r, i, shape)
  PROVE  IInv'
  <1>1. row' = [row EXCEPT ![i] = Arrival(shape)] /\ ~Recorded(i) /\ shape \in Shapes
    BY ConstantsAssumption DEF Record, Recorded
  <1>2. RowsGo
    BY <1>1, ArrivalIsPlain DEF RowsGo, IInv, TypeOK, Recorded
  <1>3. QED
    BY <1>2, RunStays DEF Record, Walking, IInv, TypeOK

LEMMA StepReplaceTombstone ==
  ASSUME IInv, NEW r \in Runner, NEW i \in Item, NEW media \in {"none", "urls"}, ReplaceTombstone(r, i, media)
  PROVE  IInv'
  <1> DEFINE v == New(IF media = "none" THEN "archived" ELSE "pending", media)
  <1>1. row' = [row EXCEPT ![i] = v] /\ ~Recorded(i)
    BY DEF ReplaceTombstone, Recorded
  <1>2. v \in Row /\ v.archive \notin {"absent", "tombstone"} /\ ~v.gone
    BY DEF New, Row, Media
  <1> HIDE DEF v
  <1>3. RowsGo
    BY <1>1, <1>2 DEF RowsGo, IInv, TypeOK, Recorded, Plain
  <1>4. QED
    BY <1>3, RunStays DEF ReplaceTombstone, Walking, IInv, TypeOK

\* What a restore makes of a row.
LEMMA RestoredRow ==
  ASSUME IInv, NEW r \in Runner, NEW i \in Item, NEW media \in {"none", "urls"}, Restore(r, i, media)
  PROVE  /\ row' = [row EXCEPT ![i] = row'[i]] /\ row'[i] \in Row
         /\ row[i].archive # "absent" /\ row[i].gone /\ ~row'[i].gone /\ row'[i].media = media
         /\ row'[i].archive \notin {"absent", "tombstone"}
         /\ row'[i].paths = row[i].paths /\ row'[i].tries = row[i].tries
         /\ row'[i].upload = IF row[i].upload = "skipped" THEN "pending" ELSE row[i].upload
         /\ row'[i].caption = IF row[i].caption = "unavailable" THEN "pending" ELSE row[i].caption
         /\ row'[i].embed = "pending"
  <1>1. row \in [Item -> Row] /\ row[i] \in Row /\ row[i].archive # "absent" /\ row[i].gone
    BY DEF IInv, TypeOK, Restore
  <1> DEFINE a == IF media # "none" /\ ~row[i].paths THEN "pending"
                  ELSE IF row[i].archive = "tombstone" THEN "archived" ELSE row[i].archive
             u == IF row[i].upload = "skipped" THEN "pending" ELSE row[i].upload
             c == IF row[i].caption = "unavailable" THEN "pending" ELSE row[i].caption
             v == [row[i] EXCEPT !.gone = FALSE, !.media = media, !.archive = a, !.upload = u, !.caption = c,
                                 !.embed = "pending"]
  <1>2. row' = [row EXCEPT ![i] = v]
    BY DEF Restore
  <1>3. a \in {"pending", "archived", "skipped", "failed"} /\ u \in {"pending", "done", "failed"}
          /\ c \in {"pending", "done", "failed", "refused", "exhausted"}
    BY <1>1 DEF Row
  <1> HIDE DEF a, u, c
  <1>4. /\ v.gone = FALSE /\ v.media = media /\ v.archive = a /\ v.paths = row[i].paths
        /\ v.tries = row[i].tries /\ v.upload = u /\ v.caption = c /\ v.embed = "pending"
    BY <1>1 DEF Row
  <1>7. [row[i] EXCEPT !.gone = FALSE, !.media = media] \in Row
    BY <1>1 DEF Row, Media
  <1>8. [row[i] EXCEPT !.gone = FALSE, !.media = media, !.archive = a, !.upload = u] \in Row
    BY <1>3, <1>7 DEF Row
  <1>9. v \in Row
    BY <1>3, <1>8 DEF Row
  <1> HIDE DEF v
  <1>5. row'[i] = v
    BY <1>1, <1>2
  <1>6. QED
    BY <1>1, <1>2, <1>3, <1>4, <1>5, <1>9 DEF u, c

LEMMA StepRestore ==
  ASSUME IInv, NEW r \in Runner, NEW i \in Item, NEW media \in {"none", "urls"}, Restore(r, i, media)
  PROVE  IInv'
  <1> DEFINE v == row'[i]
  <1>1. row' = [row EXCEPT ![i] = v] /\ v \in Row /\ v.archive \notin {"absent", "tombstone"} /\ ~v.gone
    BY RestoredRow
  <1> HIDE DEF v
  <1>2. RowsGo
    BY <1>1 DEF RowsGo, IInv, TypeOK, Recorded, Plain
  <1>3. QED
    BY <1>2, RunStays DEF Restore, Walking, IInv, TypeOK

LEMMA StepRefreshMedia ==
  ASSUME IInv, NEW r \in Runner, NEW i \in Item, RefreshMedia(r, i)
  PROVE  IInv'
  <1> DEFINE v == [row[i] EXCEPT !.media = "none"]
             l == [run[r] EXCEPT !.pc = "refreshed", !.item = Read(i)]
  <1>1. row' = [row EXCEPT ![i] = v] /\ run' = [run EXCEPT ![r] = l] /\ run[r].pc = "walk" /\ run[r].job = "archive"
          /\ row[i].archive = "failed" /\ row[i].media = "urls"
    BY Begun DEF RefreshMedia, Walking
  <1>2. v \in Row /\ v.archive = "failed" /\ v.gone = row[i].gone /\ v.paths = row[i].paths
    BY <1>1, Begun DEF Row, Media
  <1>3. ~row[i].gone
    BY <1>1, Begun DEF Plain
  <1> HIDE DEF v
  <1>4. RowsGo
    BY <1>1, <1>2, <1>3, StageWrites DEF Recorded
  <1>5. Placed(r, run[r]) /\ Known(run[r]) /\ Apart(run[r]) /\ run[r] \in Run /\ Read(i) \in Snapshot /\ Read(i).id = i
    BY Begun
  <1>6. /\ l \in Run /\ l.pc = "refreshed" /\ l.item = Read(i) /\ l.job = "archive" /\ l.todo = run[r].todo
        /\ l.call = run[r].call /\ l.left = run[r].left /\ l.usable = run[r].usable
    BY <1>1, <1>5 DEF Run, Pc
  <1> HIDE DEF l
  <1>7. Placed(r, l)
    BY <1>1, <1>5, <1>6 DEF Placed, Places
  <1>8. Known(l)
    BY <1>1, <1>3, <1>5, <1>6 DEF Known, Held, InHand, Holding
  <1>9. Apart(l)
    BY <1>1, <1>5, <1>6 DEF Apart, Captions, Separate, InHand, Holding
  <1>10. QED
    BY <1>1, <1>4, <1>6, <1>7, <1>8, <1>9, OneGoes DEF RefreshMedia, IInv, TypeOK

-----------------------------------------------------------------------------
(* Downloading                                                             *)

LEMMA StepRefreshSettles ==
  ASSUME IInv, NEW r \in Runner, RefreshSettles(r)
  PROVE  IInv'
  <1>1. run[r].pc = "refreshed" /\ run[r].job = "archive" /\ Hand(r) \in Item /\ Recorded(Hand(r)) /\ row[Hand(r)] \in Row
    BY HandIsRecorded, Begun, ConstantsAssumption DEF RefreshSettles, Holding, Placed, Places, Job
  <1> DEFINE v == [row[Hand(r)] EXCEPT !.archive = "archived", !.paths = FALSE]
  <1>2. v \in Row /\ v.archive = "archived" /\ v.gone = row[Hand(r)].gone /\ ~v.paths /\ v.media = row[Hand(r)].media
    BY <1>1 DEF Row
  <1>3. row' = [row EXCEPT ![Hand(r)] = v]
    BY DEF RefreshSettles, MarkArchived
  <1> HIDE DEF v
  <1>4. RowsGo
    BY <1>1, <1>2, <1>3, StageWrites, Begun DEF Plain
  <1>5. PICK l : run' = [run EXCEPT ![r] = l] /\ Placed(r, l) /\ Known(l) /\ Apart(l) /\ l.pc = "walk"
    BY <1>1, Settles DEF RefreshSettles, Places, Holding
  <1>6. QED
    BY <1>1, <1>4, <1>5, OneGoes DEF RefreshSettles, IInv, TypeOK

\* Where a run is once its item has its files, or has none.
LEMMA HasMedia ==
  ASSUME IInv, NEW r \in Runner, run[r].pc \in {"ensure", "fetched"}, NEW files \in BOOLEAN, WithMedia(r, files)
  PROVE  \E l : /\ run' = [run EXCEPT ![r] = l] /\ Placed(r, l) /\ Known(l) /\ Apart(l)
                /\ l.pc # "sent"
  <1>1. Placed(r, run[r]) /\ Known(run[r]) /\ Apart(run[r]) /\ run[r] \in Run /\ run[r].item \in Snapshot
    BY Begun, HandIsRecorded DEF Holding
  <1>2. run[r].job \in {"archive", "upload", "caption"}
    BY <1>1, ConstantsAssumption DEF Placed, Places, Job
  <1> DEFINE item == IF run[r].job = "archive" THEN None ELSE [run[r].item EXCEPT !.paths = files]
             pc == CASE run[r].job = "archive" -> "next" [] run[r].job = "upload" -> "send" [] run[r].job = "caption" -> "have"
             l == [run[r] EXCEPT !.item = item, !.pc = pc]
  <1>3. pc \in {"next", "send", "have"} /\ (pc = "next" <=> run[r].job = "archive") /\ (pc = "send" <=> run[r].job = "upload")
    BY <1>2
  <1>4. /\ run[r].job = "archive" => item = None
        /\ run[r].job # "archive" => item \in Snapshot /\ item.id = run[r].item.id /\ item.media = run[r].item.media
    BY <1>1 DEF Snapshot
  <1>12. run' = [run EXCEPT ![r].item = item, ![r].pc = pc]
    BY DEF WithMedia
  <1> HIDE DEF item, pc
  <1>5. run' = [run EXCEPT ![r] = l]
    BY <1>12 DEF IInv, TypeOK
  <1>6. /\ l.pc = pc /\ l.todo = run[r].todo /\ l.job = run[r].job /\ l.call = run[r].call /\ l.left = run[r].left
        /\ l.usable = run[r].usable /\ l.item = item /\ l \in Run
    BY <1>1, <1>3, <1>4 DEF Run, Pc
  <1> HIDE DEF l
  <1>7. Placed(r, l)
    BY <1>1, <1>2, <1>3, <1>4, <1>6 DEF Placed, Places, Holding
  <1>8. Known(l)
    BY <1>1, <1>3, <1>4, <1>6 DEF Known, Held, InHand, Holding
  <1>9. InHand(run[r]) = {run[r].item} /\ InHand(l) = IF run[r].job = "archive" THEN {} ELSE {item}
    BY <1>2, <1>3, <1>6 DEF InHand, Holding
  <1>10. Apart(l)
    BY <1>1, <1>2, <1>3, <1>4, <1>6, <1>9 DEF Apart, Captions, Separate, Collecting
  <1>11. QED
    BY <1>3, <1>5, <1>6, <1>7, <1>8, <1>10

LEMMA StepEnsureReturns ==
  ASSUME IInv, NEW r \in Runner, EnsureReturns(r)
  PROVE  IInv'
  <1>1. PICK files \in BOOLEAN : WithMedia(r, files)
    BY DEF EnsureReturns
  <1>2. PICK l : run' = [run EXCEPT ![r] = l] /\ Placed(r, l) /\ Known(l) /\ Apart(l) /\ l.pc # "sent"
    BY <1>1, HasMedia DEF EnsureReturns
  <1>3. QED
    BY <1>2, OneGoes, RowsStay DEF EnsureReturns, IInv, TypeOK

LEMMA StepEnsureFetches ==
  ASSUME IInv, NEW r \in Runner, EnsureFetches(r)
  PROVE  IInv'
  <1> DEFINE l == [run[r] EXCEPT !.pc = "fetched"]
  <1>1. Placed(r, run[r]) /\ Known(run[r]) /\ Apart(run[r]) /\ run[r] \in Run /\ run[r].pc = "ensure" /\ Hand(r) \in Item
    BY Begun, HandIsRecorded DEF EnsureFetches, Holding
  <1>2. run' = [run EXCEPT ![r] = l]
    BY DEF EnsureFetches, Goes
  <1>3. /\ l.pc = "fetched" /\ l.todo = run[r].todo /\ l.job = run[r].job /\ l.call = run[r].call /\ l.left = run[r].left
        /\ l.usable = run[r].usable /\ l.item = run[r].item /\ l \in Run
    BY <1>1 DEF Run, Pc
  <1> HIDE DEF l
  <1>4. Placed(r, l)
    BY <1>1, <1>3, ConstantsAssumption DEF EnsureFetches, Placed, Places, Holding, Job
  <1>5. InHand(l) = InHand(run[r])
    BY <1>1, <1>3 DEF InHand, Holding
  <1>6. Known(l)
    BY <1>1, <1>3, <1>5 DEF Known, Held
  <1>7. Apart(l)
    BY <1>1, <1>3, <1>5 DEF Apart, Captions, Collecting
  <1>8. QED
    BY <1>1, <1>2, <1>3, <1>4, <1>6, <1>7, OneGoes, RowsStay DEF EnsureFetches, IInv, TypeOK

\* What a run that holds a recorded item writes when its files are there.
LEMMA StepEnsureMarks ==
  ASSUME IInv, NEW r \in Runner, EnsureMarks(r)
  PROVE  IInv'
  <1> DEFINE v == [row[Hand(r)] EXCEPT !.archive = "archived", !.paths = TRUE]
  <1>1. run[r].pc = "fetched" /\ Hand(r) \in Item /\ Recorded(Hand(r)) /\ row[Hand(r)] \in Row
          /\ Placed(r, run[r]) /\ Known(run[r])
    BY HandIsRecorded, Begun DEF EnsureMarks, Holding
  <1>2. row' = [row EXCEPT ![Hand(r)] = v]
    BY DEF EnsureMarks, MarkArchived
  <1>3. v \in Row /\ v.archive = "archived" /\ v.gone = row[Hand(r)].gone
    BY <1>1 DEF Row
  <1>4. PICK l : run' = [run EXCEPT ![r] = l] /\ Placed(r, l) /\ Known(l) /\ Apart(l) /\ l.pc # "sent"
    BY <1>1, HasMedia DEF EnsureMarks
  <1>5. ~row[Hand(r)].gone
    BY <1>1 DEF Placed, Known, Held, InHand, Hand, Holding
  <1> HIDE DEF v
  <1>6. RowsGo
    BY <1>1, <1>2, <1>3, <1>5, StageWrites
  <1>7. QED
    BY <1>1, <1>4, <1>6, OneGoes DEF EnsureMarks, IInv, TypeOK

LEMMA StepEnsureRaises ==
  ASSUME IInv, NEW r \in Runner, EnsureRaises(r)
  PROVE  IInv'
  <1> DEFINE pc == IF run[r].job = "caption" THEN "collect" ELSE "next"
  <1>1. run[r].pc = "ensure" /\ Hand(r) \in Item /\ Recorded(Hand(r)) /\ Placed(r, run[r])
    BY HandIsRecorded, Begun DEF EnsureRaises, Holding
  <1>2. run[r].job \in {"archive", "upload", "caption"} /\ Settled(r, pc)
    BY DEF EnsureRaises
  <1>3. pc \in Places(run[r].job) \ Holding /\ pc \in {"collect", "next"} /\ (run[r].job = "caption" => pc = "collect")
    BY <1>2 DEF Places, Holding
  <1> HIDE DEF pc
  <1>4. PICK l : run' = [run EXCEPT ![r] = l] /\ Placed(r, l) /\ Known(l) /\ Apart(l) /\ l.pc = pc
    BY <1>1, <1>2, <1>3, Settles DEF Collecting
  <1>5. RowsGo
    BY <1>1, Marks DEF EnsureRaises
  <1>6. QED
    BY <1>1, <1>3, <1>4, <1>5, OneGoes DEF EnsureRaises, IInv, TypeOK

-----------------------------------------------------------------------------
(* Uploading                                                               *)

Sents == [Item -> [times : 0 .. MaxShown, doubts : 0 .. MaxShown, media : BOOLEAN]]

\* Who has an answer changes for the item in the hands of the run that moves.
LEMMA AnswersGo ==
  ASSUME IInv, NEW r \in Runner, NEW l, run' = [run EXCEPT ![r] = l], NEW i \in Item
  PROVE  Answers(i)' = IF l.pc = "sent" /\ l.item.id = i THEN Answers(i) \cup {r} ELSE Answers(i) \ {r}
  BY DEF Answers, Hand, IInv, TypeOK

\* What Telegram shows of the item in a run's hands.
LEMMA Shows ==
  ASSUME IInv, NEW r \in Runner, Hand(r) \in Item, NEW doubt \in BOOLEAN, Delivered(r, doubt)
  PROVE  /\ sent' \in Sents /\ \A i \in Item : i # Hand(r) => sent'[i] = sent[i]
         /\ sent'[Hand(r)].times = sent[Hand(r)].times + 1
         /\ sent'[Hand(r)].doubts = sent[Hand(r)].doubts + (IF doubt THEN 1 ELSE 0)
  <1> DEFINE i == Hand(r)
             d == IF doubt THEN sent[i].doubts + 1 ELSE sent[i].doubts
             m == sent[i].media \/ run[r].item.paths
             v == [sent[i] EXCEPT !.times = sent[i].times + 1, !.doubts = d, !.media = m]
  <1>1. sent \in Sents /\ IsFiniteSet(Answers(i)) /\ sent[i].doubts + Cardinality(Answers(i)) <= sent[i].times
    BY DEF IInv, TypeOK, SentInv, Sents
  <1>2. Cardinality(Answers(i)) \in Nat
    BY <1>1, FS_CardinalityType
  <1>3. sent[i] \in [times : 0 .. MaxShown, doubts : 0 .. MaxShown, media : BOOLEAN]
          /\ sent[i].times \in Nat /\ sent[i].doubts \in Nat
    BY <1>1 DEF Sents
  <1>4. m \in BOOLEAN
    BY Zenon
  <1>5. sent[i].times < MaxShown
          /\ sent' = [sent EXCEPT ![i].times = sent[i].times + 1, ![i].doubts = d, ![i].media = m]
    BY DEF Delivered
  <1>6. d \in 0 .. MaxShown /\ d = sent[i].doubts + (IF doubt THEN 1 ELSE 0)
    BY <1>1, <1>2, <1>3, <1>5, ConstantsAssumption
  <1> HIDE DEF d, m
  <1>7. sent' = [sent EXCEPT ![i] = v]
    BY <1>1, <1>5 DEF Sents
  <1>8. v \in [times : 0 .. MaxShown, doubts : 0 .. MaxShown, media : BOOLEAN]
          /\ v.times = sent[i].times + 1 /\ v.doubts = d
    <2>1. sent[i].times + 1 \in 0 .. MaxShown
      BY <1>3, <1>5, ConstantsAssumption
    <2> DEFINE S == 0 .. MaxShown
               t == sent[i].times + 1
    <2>2. t \in S /\ d \in S /\ sent[i] \in [times : S, doubts : S, media : BOOLEAN]
      BY <1>3, <1>6, <2>1
    <2> HIDE DEF S, t
    <2>3. [sent[i] EXCEPT !.times = t, !.doubts = d, !.media = m] \in [times : S, doubts : S, media : BOOLEAN]
      BY <1>4, <2>2
    <2>4. v.times = sent[i].times + 1 /\ v.doubts = d
      BY <1>3
    <2>5. QED
      BY <2>3, <2>4 DEF S, t
  <1> HIDE DEF v
  <1>9. QED
    BY <1>1, <1>6, <1>7, <1>8 DEF Sents

\* An attempt that is in doubt, or delivers nothing.
LEMMA DoubtStays ==
  ASSUME IInv, NEW r \in Runner, NEW l, run' = [run EXCEPT ![r] = l], run[r].pc = "send", l.pc # "sent",
         Delivered(r, TRUE) \/ UNCHANGED sent
  PROVE  /\ sent' \in Sents /\ SentInv'
         /\ \A i \in Item : /\ Answers(i)' = Answers(i)
                            /\ sent'[i].times - sent'[i].doubts = sent[i].times - sent[i].doubts
                            /\ sent[i].doubts <= sent'[i].doubts /\ sent[i].times <= sent'[i].times
  <1>1. Hand(r) \in Item /\ sent \in Sents
    BY HandIsRecorded DEF Holding, IInv, TypeOK, Sents
  <1>2. \A i \in Item : Answers(i)' = Answers(i)
    <2>1. \A i \in Item : Answers(i)' = Answers(i) \ {r}
      BY AnswersGo
    <2>2. \A i \in Item : r \notin Answers(i)
      BY DEF Answers
    <2>3. QED
      BY <2>1, <2>2
  <1>3. \A i \in Item : sent[i].times \in Nat /\ sent[i].doubts \in Nat /\ IsFiniteSet(Answers(i))
                        /\ Cardinality(Answers(i)) \in Nat /\ sent[i].doubts + Cardinality(Answers(i)) <= sent[i].times
    BY <1>1, FS_CardinalityType DEF Sents, IInv, SentInv
  <1>4. sent' \in Sents /\ \A i \in Item : \/ sent'[i] = sent[i]
                                           \/ sent'[i].times = sent[i].times + 1 /\ sent'[i].doubts = sent[i].doubts + 1
    BY <1>1, Shows
  <1>5. \A i \in Item : sent'[i].doubts + Cardinality(Answers(i)) <= sent'[i].times
    BY <1>3, <1>4
  <1>6. SentInv'
    BY <1>2, <1>3, <1>5 DEF SentInv
  <1>7. QED
    BY <1>2, <1>3, <1>4, <1>6

LEMMA StepSend ==
  ASSUME IInv, NEW r \in Runner, Send(r)
  PROVE  IInv'
  <1> DEFINE l == [run[r] EXCEPT !.pc = "sent"]
  <1>1. Placed(r, run[r]) /\ Known(run[r]) /\ Apart(run[r]) /\ run[r] \in Run /\ run[r].pc = "send" /\ Hand(r) \in Item
    BY Begun, HandIsRecorded DEF Send, Holding
  <1>2. run' = [run EXCEPT ![r] = l]
    BY DEF Send, Goes
  <1>3. /\ l.pc = "sent" /\ l.todo = run[r].todo /\ l.job = run[r].job /\ l.call = run[r].call /\ l.left = run[r].left
        /\ l.usable = run[r].usable /\ l.item = run[r].item /\ l \in Run
    BY <1>1 DEF Run, Pc
  <1> HIDE DEF l
  <1>4. run[r].job = "upload"
    BY <1>1, ConstantsAssumption DEF Placed, Places, Job
  <1>5. Placed(r, l)
    BY <1>1, <1>3, <1>4 DEF Placed, Places, Holding
  <1>6. InHand(l) = InHand(run[r])
    BY <1>1, <1>3 DEF InHand, Holding
  <1>7. Known(l)
    BY <1>1, <1>3, <1>6 DEF Known, Held
  <1>8. Apart(l)
    BY <1>1, <1>3, <1>4, <1>6 DEF Apart, Captions
  <1>9. sent' \in Sents /\ SentInv'
    <2>1. /\ sent' \in Sents /\ \A i \in Item : i # Hand(r) => sent'[i] = sent[i]
          /\ sent'[Hand(r)].times = sent[Hand(r)].times + 1 /\ sent'[Hand(r)].doubts = sent[Hand(r)].doubts
      <3>1. sent[Hand(r)].doubts \in Nat
        BY <1>1 DEF IInv, TypeOK
      <3>2. Delivered(r, FALSE)
        BY DEF Send
      <3>3. /\ sent' \in Sents /\ \A i \in Item : i # Hand(r) => sent'[i] = sent[i]
            /\ sent'[Hand(r)].times = sent[Hand(r)].times + 1
            /\ sent'[Hand(r)].doubts = sent[Hand(r)].doubts + (IF FALSE THEN 1 ELSE 0)
        BY <1>1, <3>2, Shows
      <3>4. QED
        BY <3>1, <3>3
    <2>3. \A i \in Item : r \notin Answers(i)
      BY <1>1 DEF Answers
    <2>2. \A i \in Item : Answers(i)' = IF i = Hand(r) THEN Answers(i) \cup {r} ELSE Answers(i)
      <3>1. \A i \in Item : Answers(i)' = IF l.pc = "sent" /\ l.item.id = i THEN Answers(i) \cup {r} ELSE Answers(i) \ {r}
        BY <1>2, AnswersGo
      <3>2. QED
        BY <1>3, <2>3, <3>1 DEF Hand
    <2>4. \A i \in Item : /\ IsFiniteSet(Answers(i)) /\ Cardinality(Answers(i)) \in Nat
                          /\ sent[i].doubts + Cardinality(Answers(i)) <= sent[i].times
                          /\ sent[i].doubts \in Nat /\ sent[i].times \in Nat
      BY FS_CardinalityType DEF IInv, TypeOK, SentInv
    <2>5. \A i \in Item : /\ IsFiniteSet(Answers(i) \cup {r})
                          /\ Cardinality(Answers(i) \cup {r}) = Cardinality(Answers(i)) + 1
      BY <2>3, <2>4, FS_AddElement
    <2>6. ASSUME NEW i \in Item
          PROVE  IsFiniteSet(Answers(i)') /\ sent'[i].doubts + Cardinality(Answers(i)') <= sent'[i].times
      BY <2>1, <2>2, <2>4, <2>5
    <2>7. QED
      BY <2>1, <2>6 DEF SentInv
  <1>10. QED
    BY <1>1, <1>2, <1>5, <1>7, <1>8, <1>9, OneMoves, RowsStay DEF Send, IInv, TypeOK, Sents

LEMMA StepSendAgain ==
  ASSUME IInv, NEW r \in Runner, SendAgain(r)
  PROVE  IInv'
  <1> DEFINE l == [run[r] EXCEPT !.n = run[r].n + 1]
  <1>1. Placed(r, run[r]) /\ Known(run[r]) /\ Apart(run[r]) /\ run[r] \in Run /\ run[r].pc = "send"
    BY Begun DEF SendAgain
  <1>2. run' = [run EXCEPT ![r] = l]
    BY DEF SendAgain
  <1>3. /\ l.pc = "send" /\ l.todo = run[r].todo /\ l.job = run[r].job /\ l.call = run[r].call /\ l.left = run[r].left
        /\ l.usable = run[r].usable /\ l.item = run[r].item /\ l \in Run
    BY <1>1 DEF Run, Pc
  <1> HIDE DEF l
  <1>4. Placed(r, l) /\ InHand(l) = InHand(run[r])
    BY <1>1, <1>3 DEF Placed, InHand, Holding
  <1>5. Known(l) /\ Apart(l)
    BY <1>1, <1>3, <1>4 DEF Known, Held, Apart, Captions
  <1>6. sent' \in Sents /\ SentInv'
    BY <1>1, <1>2, <1>3, DoubtStays DEF SendAgain
  <1>7. QED
    BY <1>1, <1>2, <1>4, <1>5, <1>6, OneMoves, RowsStay DEF SendAgain, IInv, TypeOK, Sents

LEMMA StepSendFails ==
  ASSUME IInv, NEW r \in Runner, SendFails(r)
  PROVE  IInv'
  <1>1. Placed(r, run[r]) /\ run[r].pc = "send" /\ Hand(r) \in Item /\ Recorded(Hand(r))
    BY Begun, HandIsRecorded DEF SendFails, Holding
  <1>2. run[r].job = "upload"
    BY <1>1, ConstantsAssumption DEF Placed, Places, Job
  <1>3. PICK l : run' = [run EXCEPT ![r] = l] /\ Placed(r, l) /\ Known(l) /\ Apart(l) /\ l.pc = "next"
    BY <1>1, <1>2, Settles DEF SendFails, Places, Holding
  <1>4. RowsGo
    BY <1>1, Marks DEF SendFails
  <1>5. sent' \in Sents /\ SentInv'
    BY <1>1, <1>3, DoubtStays DEF SendFails
  <1>6. QED
    BY <1>3, <1>4, <1>5, OneMoves DEF SendFails, IInv, TypeOK, Sents

LEMMA StepSendFlooded ==
  ASSUME IInv, NEW r \in Runner, SendFlooded(r)
  PROVE  IInv'
  <1> DEFINE l == [Idle EXCEPT !.job = "upload", !.pc = "tidy"]
  <1>1. Placed(r, run[r]) /\ run[r].pc = "send" /\ run' = [run EXCEPT ![r] = l]
    BY Begun DEF SendFlooded
  <1>2. run[r].job = "upload" /\ "upload" \in Jobs[r]
    BY <1>1, ConstantsAssumption DEF Placed, Places, Job
  <1>3. l \in Run /\ l.job = "upload" /\ l.pc = "tidy" /\ l.todo = {} /\ l.call = {} /\ l.left = {} /\ l.usable = {}
    BY <1>2, ConstantsAssumption DEF Idle, Run, Pc, Job
  <1> HIDE DEF l
  <1>4. Placed(r, l) /\ Known(l) /\ Apart(l)
    BY <1>2, <1>3 DEF Placed, Places, Known, Held, InHand, Holding, Apart, Single, Separate, Captions
  <1>5. sent' \in Sents /\ SentInv'
    BY <1>1, <1>3, DoubtStays DEF SendFlooded
  <1>6. QED
    BY <1>1, <1>4, <1>5, OneMoves, RowsStay DEF SendFlooded, IInv, TypeOK, Sents

\* A run that had an answer lets go of it, on record or as a doubt.
LEMMA AnswerLeaves ==
  ASSUME IInv, NEW r \in Runner, NEW l, run' = [run EXCEPT ![r] = l], run[r].pc = "sent", l.pc # "sent"
  PROVE  \A i \in Item : /\ IsFiniteSet(Answers(i)') /\ Cardinality(Answers(i)) \in Nat
                         /\ Cardinality(Answers(i)') = Cardinality(Answers(i)) - (IF i = Hand(r) THEN 1 ELSE 0)
                         /\ Cardinality(Answers(i)') \in Nat
  <1>1. SUFFICES ASSUME NEW i \in Item
                 PROVE  /\ IsFiniteSet(Answers(i)') /\ Cardinality(Answers(i)) \in Nat
                        /\ Cardinality(Answers(i)') = Cardinality(Answers(i)) - (IF i = Hand(r) THEN 1 ELSE 0)
                        /\ Cardinality(Answers(i)') \in Nat
    OBVIOUS
  <1>2. Answers(i)' = Answers(i) \ {r}
    BY AnswersGo
  <1>3. IsFiniteSet(Answers(i)) /\ Cardinality(Answers(i)) \in Nat
    BY FS_CardinalityType DEF IInv, SentInv
  <1>4. i = Hand(r) <=> r \in Answers(i)
    BY DEF Answers
  <1>5. CASE i = Hand(r)
    <2>1. IsFiniteSet(Answers(i) \ {r}) /\ Cardinality(Answers(i) \ {r}) = Cardinality(Answers(i)) - 1
      BY <1>3, <1>4, <1>5, FS_RemoveElement
    <2>2. Cardinality(Answers(i) \ {r}) \in Nat
      BY <2>1, FS_CardinalityType
    <2>3. QED
      BY <1>2, <1>3, <1>5, <2>1, <2>2
  <1>6. CASE i # Hand(r)
    <2>1. Answers(i)' = Answers(i)
      BY <1>2, <1>4, <1>6
    <2>2. QED
      BY <1>3, <1>6, <2>1
  <1>7. QED
    BY <1>5, <1>6

LEMMA StepUploadMarks ==
  ASSUME IInv, NEW r \in Runner, UploadMarks(r)
  PROVE  IInv'
  <1>1. Placed(r, run[r]) /\ run[r].pc = "sent" /\ Hand(r) \in Item /\ Recorded(Hand(r))
    BY Begun, HandIsRecorded DEF UploadMarks, Holding
  <1>2. run[r].job = "upload"
    BY <1>1, ConstantsAssumption DEF Placed, Places, Job
  <1>3. PICK l : run' = [run EXCEPT ![r] = l] /\ Placed(r, l) /\ Known(l) /\ Apart(l) /\ l.pc = "next"
    BY <1>1, <1>2, Settles DEF UploadMarks, Places, Holding
  <1>4. RowsGo
    BY <1>1, Marks DEF UploadMarks
  <1>5. SentInv'
    <2>1. ASSUME NEW i \in Item
          PROVE  IsFiniteSet(Answers(i)') /\ sent[i].doubts + Cardinality(Answers(i)') <= sent[i].times
      <3>1. sent[i].doubts + Cardinality(Answers(i)) <= sent[i].times /\ sent[i].doubts \in Nat /\ sent[i].times \in Nat
        BY DEF IInv, TypeOK, SentInv
      <3>2. /\ IsFiniteSet(Answers(i)') /\ Cardinality(Answers(i)') \in Nat /\ Cardinality(Answers(i)) \in Nat
            /\ Cardinality(Answers(i)') = Cardinality(Answers(i)) - (IF i = Hand(r) THEN 1 ELSE 0)
        BY <1>1, <1>3, AnswerLeaves
      <3>3. Cardinality(Answers(i)') <= Cardinality(Answers(i))
        BY <3>2
      <3>4. QED
        BY <3>1, <3>2, <3>3
    <2>2. QED
      BY <2>1 DEF SentInv, UploadMarks
  <1>6. QED
    BY <1>3, <1>4, <1>5, OneMoves DEF UploadMarks, IInv, TypeOK

LEMMA StepCrash ==
  ASSUME IInv, NEW r \in Runner, Crash(r)
  PROVE  IInv'
  <1>1. Placed(r, Idle) /\ Known(Idle) /\ Apart(Idle) /\ Idle.pc = "idle"
    BY IdleIsRun DEF Idle, Placed, Known, Held, InHand, Holding, Apart, Single, Separate, Captions, Collecting
  <1>2. crashes' \in 0 .. MaxCrashes
    BY ConstantsAssumption DEF Crash, IInv, TypeOK
  <1>3. run' = [run EXCEPT ![r] = Idle] /\ UNCHANGED <<row, disk, indexed>> /\ sent \in Sents
    BY DEF Crash, IInv, TypeOK, Sents
  <1>4. CASE run[r].pc # "sent"
    <2>1. SentInv' /\ sent' = sent
      BY <1>1, <1>3, <1>4, SentStays DEF Crash
    <2>2. QED
      BY <1>1, <1>2, <1>3, <2>1, OneMoves, RowsStay DEF IInv, TypeOK, Sents
  <1>5. CASE run[r].pc = "sent"
    <2> DEFINE i == Hand(r)
               d == sent[i].doubts + 1
               v == [sent[i] EXCEPT !.doubts = d]
    <2>1. \A j \in Item : /\ IsFiniteSet(Answers(j)') /\ Cardinality(Answers(j)) \in Nat
                           /\ Cardinality(Answers(j)') = Cardinality(Answers(j)) - (IF j = i THEN 1 ELSE 0)
                           /\ Cardinality(Answers(j)') \in Nat
      BY <1>1, <1>3, <1>5, AnswerLeaves
    <2>10. i \in Item
      BY <1>5, HandIsRecorded DEF Holding
    <2>2. sent' = [sent EXCEPT ![i] = v]
      BY <1>5 DEF Crash
    <2>3. \A j \in Item : sent[j].doubts + Cardinality(Answers(j)) <= sent[j].times /\ sent[j].doubts \in Nat
                          /\ sent[j].times \in 0 .. MaxShown
      BY <1>3 DEF IInv, SentInv, Sents
    <2>4. d \in 0 .. MaxShown
      <3>1. Cardinality(Answers(i)) \in Nat /\ Cardinality(Answers(i)) >= 1
        BY <2>1, <2>10
      <3>2. sent[i].doubts + Cardinality(Answers(i)) <= sent[i].times /\ sent[i].doubts \in Nat
              /\ sent[i].times \in 0 .. MaxShown
        BY <2>3, <2>10
      <3>3. QED
        BY <3>1, <3>2, ConstantsAssumption
    <2>5. v \in [times : 0 .. MaxShown, doubts : 0 .. MaxShown, media : BOOLEAN] /\ v.doubts = d /\ v.times = sent[i].times
      BY <1>3, <2>10, <2>4 DEF Sents
    <2> HIDE DEF v
    <2>6. sent' \in Sents /\ \A j \in Item : sent'[j] = IF j = i THEN v ELSE sent[j]
      BY <1>3, <2>10, <2>2, <2>5 DEF Sents
    <2>7. ASSUME NEW j \in Item
          PROVE  IsFiniteSet(Answers(j)') /\ sent'[j].doubts + Cardinality(Answers(j)') <= sent'[j].times
      <3>1. IsFiniteSet(Answers(j)') /\ Cardinality(Answers(j)) \in Nat
            /\ Cardinality(Answers(j)') = Cardinality(Answers(j)) - (IF j = i THEN 1 ELSE 0)
        BY <2>1
      <3>2. QED
        BY <2>3, <2>5, <2>6, <3>1
    <2>8. SentInv'
      BY <2>7 DEF SentInv
    <2>9. QED
      BY <1>1, <1>2, <1>3, <2>6, <2>8, OneMoves, RowsStay DEF IInv, TypeOK, Sents
  <1>6. QED
    BY <1>4, <1>5

-----------------------------------------------------------------------------
(* Captioning                                                              *)

LEMMA StepCaptionText ==
  ASSUME IInv, NEW r \in Runner, CaptionText(r)
  PROVE  IInv'
  <1>0. PICK s \in run[r].todo : MarkCaptioned(s.id) /\ run' = [run EXCEPT ![r] = [run[r] EXCEPT !.todo = @ \ {s}]]
    BY DEF CaptionText
  <1> DEFINE l == [run[r] EXCEPT !.todo = @ \ {s}]
  <1>1. Placed(r, run[r]) /\ Known(run[r]) /\ Apart(run[r]) /\ run[r] \in Run /\ run[r].pc = "batch"
    BY Begun DEF CaptionText
  <1>2. s \in Snapshot /\ s.id \in Item /\ Recorded(s.id)
    BY <1>1 DEF Run, Snapshot, Known, Held, Recorded
  <1>3. /\ l.pc = "batch" /\ l.todo = run[r].todo \ {s} /\ l.job = run[r].job /\ l.call = run[r].call /\ l.left = run[r].left
        /\ l.usable = run[r].usable /\ l.item = run[r].item /\ l \in Run
    BY <1>1 DEF Run
  <1>4. run' = [run EXCEPT ![r] = l]
    BY <1>0
  <1> HIDE DEF l
  <1>5. Placed(r, l) /\ InHand(l) = {} /\ InHand(run[r]) = {}
    BY <1>1, <1>3 DEF Placed, InHand, Holding
  <1>6. Known(l)
    BY <1>1, <1>3, <1>5 DEF Known, Held
  <1>7. Apart(l)
    BY <1>1, <1>3, <1>5 DEF Apart, Captions, Separate, Single, Collecting
  <1>8. RowsGo
    BY <1>0, <1>2, Marks
  <1>9. QED
    BY <1>1, <1>3, <1>4, <1>5, <1>6, <1>7, <1>8, OneGoes DEF CaptionText, IInv, TypeOK

LEMMA StepPlanCall ==
  ASSUME IInv, NEW r \in Runner, PlanCall(r)
  PROVE  IInv'
  <1>0. PICK c \in SUBSET run[r].todo :
          run' = [run EXCEPT ![r].todo = @ \ c, ![r].call = c, ![r].left = c, ![r].usable = {}, ![r].pc = "collect"]
    BY DEF PlanCall
  <1> DEFINE l == [run[r] EXCEPT !.todo = @ \ c, !.call = c, !.left = c, !.usable = {}, !.pc = "collect"]
  <1>1. Placed(r, run[r]) /\ Known(run[r]) /\ Apart(run[r]) /\ run[r] \in Run /\ run[r].pc = "batch"
    BY Begun DEF PlanCall
  <1>2. run[r].job = "caption"
    BY <1>1, ConstantsAssumption DEF Placed, Places, Job
  <1>3. /\ l.pc = "collect" /\ l.todo = run[r].todo \ c /\ l.job = "caption" /\ l.call = c /\ l.left = c
        /\ l.usable = {} /\ l.item = run[r].item /\ l \in Run
    BY <1>1, <1>2 DEF Run, Pc
  <1>4. run' = [run EXCEPT ![r] = l]
    BY <1>0 DEF IInv, TypeOK
  <1> HIDE DEF l
  <1>5. Placed(r, l) /\ InHand(l) = {}
    BY <1>1, <1>2, <1>3 DEF Placed, Places, InHand, Holding
  <1>6. Known(l)
    BY <1>1, <1>3, <1>5 DEF Known, Held
  <1>7. Apart(l)
    BY <1>1, <1>3, <1>5 DEF Apart, Captions, Separate, Single, Collecting
  <1>8. QED
    BY <1>1, <1>3, <1>4, <1>5, <1>6, <1>7, OneGoes, RowsStay DEF PlanCall, IInv, TypeOK

LEMMA StepCollect ==
  ASSUME IInv, NEW r \in Runner, Collect(r)
  PROVE  IInv'
  <1>1. Placed(r, run[r]) /\ Known(run[r]) /\ Apart(run[r]) /\ run[r] \in Run /\ run[r].pc = "collect"
    BY Begun DEF Collect
  <1>2. run[r].job = "caption"
    BY <1>1, ConstantsAssumption DEF Placed, Places, Job
  <1>3. ASSUME NEW s \in run[r].left,
               run' = [run EXCEPT ![r] = [run[r] EXCEPT !.left = @ \ {s}, !.item = s, !.pc = "ensure"]]
        PROVE  IInv'
    <2> DEFINE l == [run[r] EXCEPT !.left = @ \ {s}, !.item = s, !.pc = "ensure"]
    <2>1. /\ l.pc = "ensure" /\ l.todo = run[r].todo /\ l.job = "caption" /\ l.call = run[r].call
          /\ l.left = run[r].left \ {s} /\ l.usable = run[r].usable /\ l.item = s /\ l \in Run /\ s \in Snapshot
      BY <1>1, <1>2 DEF Run, Pc
    <2>2. run' = [run EXCEPT ![r] = l]
      BY <1>3
    <2> HIDE DEF l
    <2>3. Placed(r, l) /\ InHand(l) = {s}
      BY <1>1, <1>2, <2>1 DEF Placed, Places, InHand, Holding
    <2>4. Known(l)
      BY <1>1, <2>1, <2>3 DEF Known, Held
    <2>5. Apart(l)
      BY <1>1, <1>2, <2>1, <2>3 DEF Apart, Captions, Separate, Single, Collecting
    <2>6. QED
      BY <1>1, <2>1, <2>2, <2>3, <2>4, <2>5, OneGoes, RowsStay DEF Collect, IInv, TypeOK
  <1>4. ASSUME NEW pc \in {"batch", "describe"}, Goes(r, pc)
        PROVE  IInv'
    <2> DEFINE l == [run[r] EXCEPT !.pc = pc]
    <2>1. /\ l.pc = pc /\ l.todo = run[r].todo /\ l.job = "caption" /\ l.call = run[r].call
          /\ l.left = run[r].left /\ l.usable = run[r].usable /\ l.item = run[r].item /\ l \in Run
      BY <1>1, <1>2 DEF Run, Pc
    <2>2. run' = [run EXCEPT ![r] = l]
      BY <1>4 DEF Goes
    <2> HIDE DEF l
    <2>3. Placed(r, l) /\ InHand(l) = {}
      BY <1>1, <1>2, <2>1 DEF Placed, Places, InHand, Holding
    <2>4. Known(l)
      BY <1>1, <2>1, <2>3 DEF Known, Held
    <2>5. Apart(l)
      BY <1>1, <1>2, <2>1, <2>3 DEF Apart, Captions, Separate, Collecting
    <2>6. QED
      BY <1>1, <2>1, <2>2, <2>3, <2>4, <2>5, OneGoes, RowsStay DEF Collect, IInv, TypeOK
  <1>5. QED
    BY <1>3, <1>4 DEF Collect, Goes

LEMMA StepCollectUsable ==
  ASSUME IInv, NEW r \in Runner, CollectUsable(r)
  PROVE  IInv'
  <1> DEFINE s == run[r].item
             l == [run[r] EXCEPT !.usable = @ \cup {s}, !.item = None, !.n = 0, !.pc = "collect"]
  <1>1. Placed(r, run[r]) /\ Known(run[r]) /\ Apart(run[r]) /\ run[r] \in Run /\ run[r].pc = "have" /\ s \in Snapshot
    BY Begun, HandIsRecorded DEF CollectUsable, Holding
  <1>2. run[r].job = "caption"
    BY <1>1, ConstantsAssumption DEF Placed, Places, Job
  <1>3. /\ l.pc = "collect" /\ l.todo = run[r].todo /\ l.job = "caption" /\ l.call = run[r].call
        /\ l.left = run[r].left /\ l.usable = run[r].usable \cup {s} /\ l \in Run
    BY <1>1, <1>2 DEF Run, Pc
  <1>4. run' = [run EXCEPT ![r] = l]
    BY DEF CollectUsable
  <1> HIDE DEF l
  <1>5. Placed(r, l) /\ InHand(l) = {} /\ InHand(run[r]) = {s}
    BY <1>1, <1>2, <1>3 DEF Placed, Places, InHand, Holding
  <1>6. Known(l)
    BY <1>1, <1>3, <1>5 DEF Known, Held
  <1>7. Apart(l)
    BY <1>1, <1>2, <1>3, <1>5 DEF Apart, Captions, Separate, Single, Collecting
  <1>8. QED
    BY <1>1, <1>3, <1>4, <1>5, <1>6, <1>7, OneGoes, RowsStay DEF CollectUsable, IInv, TypeOK

LEMMA StepCollectUnusable ==
  ASSUME IInv, NEW r \in Runner, CollectUnusable(r)
  PROVE  IInv'
  <1>1. Placed(r, run[r]) /\ run[r].pc = "have" /\ Hand(r) \in Item /\ Recorded(Hand(r))
    BY Begun, HandIsRecorded DEF CollectUnusable, Holding
  <1>2. run[r].job = "caption"
    BY <1>1, ConstantsAssumption DEF Placed, Places, Job
  <1>3. PICK l : run' = [run EXCEPT ![r] = l] /\ Placed(r, l) /\ Known(l) /\ Apart(l) /\ l.pc = "collect"
    BY <1>1, <1>2, Settles DEF CollectUnusable, Places, Holding, Collecting
  <1>4. RowsGo
    BY <1>1, Marks DEF CollectUnusable
  <1>5. QED
    BY <1>1, <1>3, <1>4, OneGoes DEF CollectUnusable, IInv, TypeOK

LEMMA StepCallRaises ==
  ASSUME IInv, NEW r \in Runner, CallRaises(r)
  PROVE  IInv'
  <1> DEFINE l == [run[r] EXCEPT !.pc = "crash", !.item = None, !.n = 0, !.left = run[r].call]
  <1>1. Placed(r, run[r]) /\ Known(run[r]) /\ Apart(run[r]) /\ run[r] \in Run /\ run[r].pc \in {"have", "describe", "apply"}
    BY Begun DEF CallRaises
  <1>2. run[r].job = "caption"
    BY <1>1, ConstantsAssumption DEF Placed, Places, Job
  <1>3. /\ l.pc = "crash" /\ l.todo = run[r].todo /\ l.job = "caption" /\ l.call = run[r].call
        /\ l.left = run[r].call /\ l.usable = run[r].usable /\ l \in Run
    BY <1>1, <1>2 DEF Run, Pc
  <1>4. run' = [run EXCEPT ![r] = l]
    BY DEF CallRaises, IInv, TypeOK
  <1> HIDE DEF l
  <1>5. Placed(r, l) /\ InHand(l) = {}
    BY <1>1, <1>2, <1>3 DEF Placed, Places, InHand, Holding
  <1>6. Known(l)
    BY <1>1, <1>3, <1>5 DEF Known, Held
  <1>7. Apart(l)
    BY <1>1, <1>2, <1>3, <1>5 DEF Apart, Captions, Separate, Collecting
  <1>8. QED
    BY <1>1, <1>3, <1>4, <1>5, <1>6, <1>7, OneGoes, RowsStay DEF CallRaises, IInv, TypeOK

LEMMA StepDescribe ==
  ASSUME IInv, NEW r \in Runner, Describe(r)
  PROVE  IInv'
  <1>0. PICK outcome \in {"success", "refused", "failed"} :
          run' = [run EXCEPT ![r].outcome = outcome, ![r].left = run[r].usable, ![r].pc = "apply"]
    BY DEF Describe
  <1> DEFINE l == [run[r] EXCEPT !.outcome = outcome, !.left = run[r].usable, !.pc = "apply"]
  <1>1. Placed(r, run[r]) /\ Known(run[r]) /\ Apart(run[r]) /\ run[r] \in Run /\ run[r].pc = "describe"
    BY Begun DEF Describe
  <1>2. run[r].job = "caption"
    BY <1>1, ConstantsAssumption DEF Placed, Places, Job
  <1>3. /\ l.pc = "apply" /\ l.todo = run[r].todo /\ l.job = "caption" /\ l.call = run[r].call
        /\ l.left = run[r].usable /\ l.usable = run[r].usable /\ l \in Run
    BY <1>1, <1>2 DEF Run, Pc
  <1>4. run' = [run EXCEPT ![r] = l]
    BY <1>0 DEF IInv, TypeOK
  <1> HIDE DEF l
  <1>5. Placed(r, l) /\ InHand(l) = {}
    BY <1>1, <1>2, <1>3 DEF Placed, Places, InHand, Holding
  <1>6. Known(l)
    BY <1>1, <1>3, <1>5 DEF Known, Held
  <1>7. Apart(l)
    BY <1>1, <1>2, <1>3, <1>5 DEF Apart, Captions, Separate, Single, Collecting
  <1>8. QED
    BY <1>1, <1>3, <1>4, <1>5, <1>6, <1>7, OneGoes, RowsStay DEF Describe, IInv, TypeOK

\* Apply and CrashMarks settle one target of the call, or end it.
LEMMA StepSettlesTarget ==
  ASSUME IInv, NEW r \in Runner, Apply(r) \/ CrashMarks(r)
  PROVE  IInv'
  <1>1. Placed(r, run[r]) /\ Known(run[r]) /\ Apart(run[r]) /\ run[r] \in Run /\ run[r].pc \in {"apply", "crash"}
    BY Begun DEF Apply, CrashMarks
  <1>2. run[r].job = "caption"
    BY <1>1, ConstantsAssumption DEF Placed, Places, Job
  <1>3. UNCHANGED <<disk, indexed, sent, crashes>>
    BY DEF Apply, CrashMarks
  <1>4. ASSUME NEW s \in run[r].left, run' = [run EXCEPT ![r] = [run[r] EXCEPT !.left = @ \ {s}]],
               MarkCaptioned(s.id) \/ MarkCaptionRefused(s.id) \/ MarkCaptionFailed(s.id)
        PROVE  IInv'
    <2> DEFINE l == [run[r] EXCEPT !.left = @ \ {s}]
    <2>1. /\ l.pc = run[r].pc /\ l.todo = run[r].todo /\ l.job = "caption" /\ l.call = run[r].call
          /\ l.left = run[r].left \ {s} /\ l.usable = run[r].usable /\ l.item = run[r].item /\ l \in Run
      BY <1>1, <1>2 DEF Run
    <2>2. run' = [run EXCEPT ![r] = l]
      BY <1>4
    <2> HIDE DEF l
    <2>3. s \in Snapshot /\ s.id \in Item /\ Recorded(s.id)
      BY <1>1 DEF Run, Snapshot, Known, Held, Recorded
    <2>4. Placed(r, l) /\ InHand(l) = {} /\ InHand(run[r]) = {}
      BY <1>1, <1>2, <2>1 DEF Placed, InHand, Holding
    <2>5. Known(l)
      BY <1>1, <2>1, <2>4 DEF Known, Held
    <2>6. Apart(l)
      BY <1>1, <1>2, <2>1, <2>4 DEF Apart, Captions, Separate, Single, Collecting
    <2>7. RowsGo
      BY <1>4, <2>3, Marks
    <2>8. QED
      BY <1>1, <1>3, <2>1, <2>2, <2>4, <2>5, <2>6, <2>7, OneGoes DEF IInv, TypeOK
  <1>5. ASSUME UNCHANGED row, Goes(r, "batch")
        PROVE  IInv'
    <2>1. PICK l : run' = [run EXCEPT ![r] = l] /\ Placed(r, l) /\ Known(l) /\ Apart(l) /\ l.pc = "batch"
      BY <1>1, <1>2, <1>5, Settles DEF Places, Holding
    <2>2. QED
      BY <1>1, <1>3, <1>5, <2>1, OneGoes, RowsStay DEF IInv, TypeOK
  <1>6. QED
    BY <1>4, <1>5 DEF Apply, CrashMarks

-----------------------------------------------------------------------------
(* Indexing, and deleting files                                            *)

LEMMA StepEmbedInserts ==
  ASSUME IInv, NEW r \in Runner, EmbedInserts(r)
  PROVE  IInv'
  <1> DEFINE l == [run[r] EXCEPT !.pc = "inserted"]
  <1>1. Placed(r, run[r]) /\ Known(run[r]) /\ Apart(run[r]) /\ run[r] \in Run /\ run[r].pc = "insert" /\ Hand(r) \in Item
    BY Begun, HandIsRecorded DEF EmbedInserts, Holding
  <1>2. run[r].job = "embed"
    BY <1>1, ConstantsAssumption DEF Placed, Places, Job
  <1>3. /\ l.pc = "inserted" /\ l.todo = run[r].todo /\ l.job = "embed" /\ l.call = run[r].call /\ l.left = run[r].left
        /\ l.usable = run[r].usable /\ l.item = run[r].item /\ l \in Run
    BY <1>1, <1>2 DEF Run, Pc
  <1>4. run' = [run EXCEPT ![r] = l]
    BY DEF EmbedInserts, Goes
  <1> HIDE DEF l
  <1>5. Placed(r, l) /\ InHand(l) = InHand(run[r])
    BY <1>1, <1>2, <1>3 DEF Placed, Places, InHand, Holding
  <1>6. Known(l)
    BY <1>1, <1>3, <1>5 DEF Known, Held
  <1>7. Apart(l)
    BY <1>1, <1>3, <1>5 DEF Apart, Captions
  <1>8. QED
    BY <1>1, <1>3, <1>4, <1>5, <1>6, <1>7, OneGoes, RowsStay DEF EmbedInserts, IInv, TypeOK

LEMMA StepEmbedMarks ==
  ASSUME IInv, NEW r \in Runner, EmbedRaises(r) \/ EmbedMarks(r)
  PROVE  IInv'
  <1>1. Placed(r, run[r]) /\ run[r].pc \in {"insert", "inserted"} /\ Hand(r) \in Item /\ Recorded(Hand(r))
    BY Begun, HandIsRecorded DEF EmbedRaises, EmbedMarks, Holding
  <1>2. run[r].job = "embed"
    BY <1>1, ConstantsAssumption DEF Placed, Places, Job
  <1>3. PICK l : run' = [run EXCEPT ![r] = l] /\ Placed(r, l) /\ Known(l) /\ Apart(l) /\ l.pc = "next"
    BY <1>1, <1>2, Settles DEF EmbedRaises, EmbedMarks, Places, Holding
  <1>4. RowsGo
    BY <1>1, Marks DEF EmbedRaises, EmbedMarks
  <1>5. QED
    BY <1>1, <1>3, <1>4, OneGoes DEF EmbedRaises, EmbedMarks, IInv, TypeOK

LEMMA StepUnlink ==
  ASSUME IInv, NEW r \in Runner, Unlink(r)
  PROVE  IInv'
  <1>0. PICK s \in run[r].todo : disk' = disk \ {s.id}
               /\ run' = [run EXCEPT ![r] = [run[r] EXCEPT !.todo = @ \ {s}, !.item = s, !.pc = "unlinked"]]
    BY DEF Unlink
  <1> DEFINE l == [run[r] EXCEPT !.todo = @ \ {s}, !.item = s, !.pc = "unlinked"]
  <1>1. Placed(r, run[r]) /\ Known(run[r]) /\ Apart(run[r]) /\ run[r] \in Run /\ run[r].pc = "clean"
    BY Begun DEF Unlink
  <1>2. run[r].job \in {"upload", "caption", "embed"}
    BY <1>1, ConstantsAssumption DEF Placed, Places, Job
  <1>3. /\ l.pc = "unlinked" /\ l.todo = run[r].todo \ {s} /\ l.job = run[r].job /\ l.call = run[r].call
        /\ l.left = run[r].left /\ l.usable = run[r].usable /\ l.item = s /\ l \in Run /\ s \in Snapshot
    BY <1>1 DEF Run, Pc
  <1>4. run' = [run EXCEPT ![r] = l]
    BY <1>0
  <1> HIDE DEF l
  <1>5. Placed(r, l) /\ InHand(l) = {s}
    BY <1>1, <1>2, <1>3 DEF Placed, Places, InHand, Holding
  <1>6. Known(l)
    BY <1>1, <1>3, <1>5 DEF Known, Held
  <1>7. Apart(l)
    BY <1>1, <1>3, <1>5 DEF Apart, Captions, Separate, Single, Collecting
  <1>8. QED
    BY <1>0, <1>1, <1>3, <1>4, <1>5, <1>6, <1>7, OneGoes, RowsStay DEF Unlink, IInv, TypeOK

LEMMA StepClearPaths ==
  ASSUME IInv, NEW r \in Runner, ClearPaths(r)
  PROVE  IInv'
  <1>1. run[r].pc = "unlinked" /\ Hand(r) \in Item /\ Recorded(Hand(r)) /\ row[Hand(r)] \in Row /\ Placed(r, run[r])
    BY HandIsRecorded, Begun DEF ClearPaths, Holding
  <1>2. run[r].job \in {"upload", "caption", "embed"}
    BY <1>1, ConstantsAssumption DEF Placed, Places, Job
  <1> DEFINE v == [row[Hand(r)] EXCEPT !.paths = FALSE]
  <1>3. v \in Row /\ v.archive = row[Hand(r)].archive /\ v.gone = row[Hand(r)].gone /\ ~v.paths
          /\ v.media = row[Hand(r)].media
    BY <1>1 DEF Row
  <1>4. row' = [row EXCEPT ![Hand(r)] = v]
    BY DEF ClearPaths
  <1> HIDE DEF v
  <1>5. RowsGo
    BY <1>1, <1>3, <1>4, StageWrites, Begun DEF Plain, Recorded
  <1>6. PICK l : run' = [run EXCEPT ![r] = l] /\ Placed(r, l) /\ Known(l) /\ Apart(l) /\ l.pc = "clean"
    BY <1>1, <1>2, Settles DEF ClearPaths, Places, Holding
  <1>7. QED
    BY <1>1, <1>5, <1>6, OneGoes DEF ClearPaths, IInv, TypeOK

-----------------------------------------------------------------------------
(* The invariant                                                           *)

LEMMA InitIsInv == Init => IInv
  <1> SUFFICES ASSUME Init PROVE IInv
    OBVIOUS
  <1>1. New("absent", "none") \in Row /\ Plain(New("absent", "none"))
    BY DEF New, Row, Media, Plain
  <1>2. row \in [Item -> Row] /\ \A i \in Item : Plain(row[i])
    BY <1>1 DEF Init
  <1>3. run \in [Runner -> Run] /\ \A r \in Runner : run[r] = Idle
    BY IdleIsRun DEF Init
  <1>4. ASSUME NEW i \in Item PROVE Answers(i) = {}
    BY <1>3, IdleIsRun DEF Answers
  <1>5. SentInv
    <2>1. ASSUME NEW i \in Item
          PROVE  IsFiniteSet(Answers(i)) /\ sent[i].doubts + Cardinality(Answers(i)) <= sent[i].times
      <3>1. sent[i].doubts = 0 /\ sent[i].times = 0
        BY DEF Init
      <3>2. QED
        BY <1>4, <3>1, FS_EmptySet
    <2>2. QED
      BY <2>1 DEF SentInv
  <1>6. \A r \in Runner : Placed(r, run[r]) /\ Known(run[r]) /\ Apart(run[r])
    BY <1>3, IdleIsRun DEF Idle, Placed, Known, Held, InHand, Holding, Apart, Single, Separate, Captions, Collecting
  <1>7. QED
    BY <1>2, <1>3, <1>5, <1>6, ConstantsAssumption DEF IInv, TypeOK, Init

LEMMA NextKeepsInv == IInv /\ [Next]_vars => IInv'
  <1> SUFFICES ASSUME IInv, [Next]_vars PROVE IInv'
    OBVIOUS
  <1>1. CASE UNCHANGED vars
    BY <1>1 DEF vars, IInv, TypeOK, SentInv, Answers, Hand, Placed, Known, Apart, Plain
  <1>2. ASSUME NEW r \in Runner, NEW job \in Job, NEW again \in SUBSET Again, Begin(r, job, again) PROVE IInv'
    BY <1>2, StepBegin
  <1>3. ASSUME NEW r \in Runner, Crash(r) \/ CallRaises(r) PROVE IInv'
    BY <1>3, StepCrash, StepCallRaises
  <1>4. ASSUME NEW r \in Runner, Archive(r) PROVE IInv'
    BY <1>4, StepRecord, StepReplaceTombstone, StepRestore, StepRefreshMedia DEF Archive
  <1>5. ASSUME NEW r \in Runner, RefreshSettles(r) \/ WalkEnds(r) \/ Select(r) \/ Take(r) \/ Drained(r) PROVE IInv'
    BY <1>5, StepRefreshSettles, StepTurns, StepSelect, StepTake, StepEnds
  <1>6. ASSUME NEW r \in Runner, Ensure(r) PROVE IInv'
    BY <1>6, StepEnsureReturns, StepEnsureFetches, StepEnsureMarks, StepEnsureRaises DEF Ensure
  <1>7. ASSUME NEW r \in Runner, Upload(r) PROVE IInv'
    BY <1>7, StepSend, StepSendAgain, StepSendFails, StepSendFlooded, StepUploadMarks DEF Upload
  <1>8. ASSUME NEW r \in Runner, Caption(r) PROVE IInv'
    BY <1>8, StepCaptionText, StepPlanCall, StepTurns, StepCollect, StepCollectUsable, StepCollectUnusable,
       StepDescribe, StepSettlesTarget DEF Caption
  <1>9. ASSUME NEW r \in Runner, Embed(r) PROVE IInv'
    BY <1>9, StepEmbedInserts, StepEmbedMarks DEF Embed
  <1>10. ASSUME NEW r \in Runner, Cleanup(r) PROVE IInv'
    BY <1>10, StepSelect, StepUnlink, StepClearPaths, StepEnds DEF Cleanup
  <1>11. QED
    BY <1>1, <1>2, <1>3, <1>4, <1>5, <1>6, <1>7, <1>8, <1>9, <1>10 DEF Next, Continue

\* Whatever runs and dies, and however many run side by side, the columns keep
\* to their values, nothing is doubted that Telegram did not show, and the
\* locals of a run are those of its job (core/jobs.py, core/caption.py).
THEOREM TypeCorrect == Spec => []TypeOK
  <1>1. IInv => TypeOK
    BY DEF IInv
  <1>2. QED
    BY <1>1, InitIsInv, NextKeepsInv, PTL DEF Spec
=============================================================================
