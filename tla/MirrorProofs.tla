---------------------------- MODULE MirrorProofs ----------------------------
(* Theorems about Mirror, for every value of its constants.                *)
EXTENDS Mirror, TLAPS

-----------------------------------------------------------------------------
(* Types                                                                   *)

\* Rows that are written.
LEMMA RowType ==
  /\ Absent \in Row
  /\ \A text \in 0 .. MaxEdits, media \in Media : New(text, media) \in Row
  BY ConstantsAssumption DEF Absent, New, Row, Media

LEMMA RowUpdate ==
  ASSUME NEW r \in Row, NEW b \in BOOLEAN
  PROVE  /\ [r EXCEPT !.revoked = TRUE] \in Row
         /\ [r EXCEPT !.local = b, !.error = ~b] \in Row
         /\ [r EXCEPT !.media = "quoted", !.error = FALSE] \in Row
         /\ \A text \in 0 .. MaxEdits : [r EXCEPT !.text = text] \in Row
  BY DEF Row, Media

\* A statement on one row.
LEMMA TableType ==
  ASSUME TypeOK, NEW m \in Msg, NEW r \in Row, msg' = [msg EXCEPT ![m] = r]
  PROVE  msg' \in [Msg -> Row]
  BY DEF TypeOK

LEMMA TypeInit == Init => TypeOK
  <1> SUFFICES ASSUME Init PROVE TypeOK
    OBVIOUS
  <1>1. msg \in [Msg -> Row]
    BY RowType DEF Init
  <1>2. phone \in [Msg -> [text : 0 .. MaxEdits, revoked : BOOLEAN]] /\ crashes \in 0 .. MaxCrashes
    BY ConstantsAssumption DEF Init
  <1>3. reader \in [Reader -> InHand] /\ feed \in Feeder /\ worker \in [Worker -> Downloader]
    BY DEF Init, InHand, Sweeping, Feeder, Downloader
  <1>4. QED
    BY <1>1, <1>2, <1>3 DEF Init, TypeOK

\* A message taken up by a reader, or let go.
LEMMA ReaderType ==
  ASSUME TypeOK, NEW h \in Reader, NEW v \in InHand, reader' = [reader EXCEPT ![h] = v]
  PROVE  reader' \in [Reader -> InHand]
  BY DEF TypeOK

\* What follows a written row is a message in hand, or none.
LEMMA AfterType ==
  ASSUME TypeOK, NEW h \in Reader, reader[h].pc \in {"edit", "insert", "wake", "attach"}
  PROVE  /\ reader[h] \in Held
         /\ reader[h].pc = "attach" => reader[h].quote \in Msg
         /\ \A pc \in {"edit", "insert", "wake"} : [reader[h] EXCEPT !.pc = pc] \in InHand
         /\ [reader[h] EXCEPT !.pc = "wake", !.quote = None] \in InHand
         /\ After(h) \in InHand
  <1>1. reader[h] \in InHand /\ reader[h] # Resting
    BY DEF TypeOK, Resting
  <1>2. reader[h] \in Held /\ (reader[h].pc = "attach" => reader[h].quote # None)
    BY <1>1 DEF InHand
  <1>3. reader[h].pc = "attach" => reader[h].quote \in Msg
    BY <1>2, ConstantsAssumption DEF Held
  <1>4. /\ \A pc \in {"edit", "insert", "wake"} : [reader[h] EXCEPT !.pc = pc] \in InHand
        /\ [reader[h] EXCEPT !.pc = "wake", !.quote = None] \in InHand
    BY <1>2 DEF InHand, Held
  <1>5. After(h) \in InHand
    BY <1>2 DEF InHand, Held, After
  <1>6. QED
    BY <1>2, <1>3, <1>4, <1>5

\* A worker that has a file in hand.
LEMMA BusyType ==
  ASSUME TypeOK, NEW w \in Worker, worker[w].pc # "idle"
  PROVE  worker[w] \in [pc : {"fetch", "stored", "release"}, job : Msg, failed : BOOLEAN]
  BY DEF TypeOK, Downloader, Free

\* A worker without one.
LEMMA IdleType ==
  ASSUME TypeOK, NEW w \in Worker, worker[w].pc = "idle"
  PROVE  worker[w] = Free
  BY DEF TypeOK, Downloader, Free

LEMMA TypeArrives ==
  ASSUME TypeOK, NEW m \in Msg, Arrives(m)
  PROVE  TypeOK'
  <1>1. ASSUME NEW h \in Reader, NEW text \in 0 .. MaxEdits, Store(h, m, text)
        PROVE  TypeOK'
    <2>1. PICK media \in {"none", "own"}, quote \in Once \cup {None} :
            reader' = [reader EXCEPT ![h] =
              [pc |-> "insert", id |-> m, text |-> text, media |-> media, quote |-> quote]]
      BY <1>1 DEF Store
    <2>2. [pc |-> "insert", id |-> m, text |-> text, media |-> media, quote |-> quote] \in InHand
      BY DEF InHand, Held
    <2>3. reader' \in [Reader -> InHand]
      BY <2>1, <2>2, ReaderType
    <2>4. QED
      BY <1>1, <2>3 DEF Store, TypeOK, pool
  <1>2. CASE Live(m)
    <2>1. 0 \in 0 .. MaxEdits /\ "live" \in Reader
      BY ConstantsAssumption DEF Reader
    <2>2. QED
      BY <1>1, <1>2, <2>1 DEF Live
  <1>3. CASE History(m)
    <2>1. PICK text \in 0 .. phone[m].text : Store("history", m, text)
      BY <1>3 DEF History
    <2>2. text \in 0 .. MaxEdits /\ "history" \in Reader
      BY ConstantsAssumption DEF TypeOK, Reader
    <2>3. QED
      BY <1>1, <2>1, <2>2
  <1>4. CASE LiveEdit(m)
    <2>1. PICK media \in {"none", "own"}, quote \in Once \cup {None} :
            reader' = [reader EXCEPT !["live"] =
              [pc |-> "edit", id |-> m, text |-> phone[m].text + 1, media |-> media, quote |-> quote]]
      BY <1>4 DEF LiveEdit
    <2>2. phone[m].text + 1 \in 0 .. MaxEdits
      BY <1>4, ConstantsAssumption DEF LiveEdit, TypeOK
    <2>3. [pc |-> "edit", id |-> m, text |-> phone[m].text + 1, media |-> media, quote |-> quote] \in InHand
      BY <2>2 DEF InHand, Held
    <2>4. reader' \in [Reader -> InHand]
      BY <2>1, <2>3, ReaderType DEF Reader
    <2>5. phone' \in [Msg -> [text : 0 .. MaxEdits, revoked : BOOLEAN]]
      BY <1>4, <2>2 DEF LiveEdit, TypeOK
    <2>6. QED
      BY <1>4, <2>4, <2>5 DEF LiveEdit, TypeOK, pool
  <1>5. CASE LiveRevoke(m)
    <2>1. msg' \in [Msg -> Row]
      BY <1>5, RowUpdate, TableType DEF LiveRevoke, TypeOK
    <2>2. phone' \in [Msg -> [text : 0 .. MaxEdits, revoked : BOOLEAN]]
      BY <1>5 DEF LiveRevoke, TypeOK
    <2>3. QED
      BY <1>5, <2>1, <2>2 DEF LiveRevoke, TypeOK, pool
  <1>6. CASE LiveStub(m)
    <2>1. New(0, "none") \in Row
      BY RowType, ConstantsAssumption DEF Media
    <2>2. QED
      BY <1>6, <2>1 DEF LiveStub, TypeOK, pool
  <1>7. QED
    BY <1>2, <1>3, <1>4, <1>5, <1>6 DEF Arrives

LEMMA TypeReads ==
  ASSUME TypeOK, NEW h \in Reader, Reads(h) \/ StoreFails(h)
  PROVE  TypeOK'
  <1>1. Resting \in InHand
    BY DEF InHand
  <1>2. CASE ApplyEdit(h)
    <2>1. reader[h].id \in Msg /\ reader[h].text \in 0 .. MaxEdits
      BY <1>2, AfterType DEF ApplyEdit, Held
    <2>2. msg' \in [Msg -> Row]
      BY <1>2, <2>1, RowUpdate, TableType DEF ApplyEdit, TypeOK
    <2>3. reader' \in [Reader -> InHand]
      <3>1. \E v \in InHand : reader' = [reader EXCEPT ![h] = v]
        BY <1>1, <1>2, AfterType DEF ApplyEdit
      <3>2. QED
        BY <3>1, ReaderType
    <2>4. QED
      BY <1>2, <2>2, <2>3 DEF ApplyEdit, TypeOK, pool
  <1>3. CASE Insert(h)
    <2>1. reader[h].id \in Msg /\ New(reader[h].text, reader[h].media) \in Row
      BY <1>3, AfterType, RowType DEF Insert, Held, Media
    <2>2. msg' \in [Msg -> Row]
      BY <1>3, <2>1 DEF Insert, TypeOK
    <2>3. reader' \in [Reader -> InHand]
      <3>1. \E v \in InHand : reader' = [reader EXCEPT ![h] = v]
        BY <1>3, AfterType DEF Insert
      <3>2. QED
        BY <3>1, ReaderType
    <2>4. QED
      BY <1>3, <2>2, <2>3 DEF Insert, TypeOK, pool
  <1>4. CASE Attach(h)
    <2>1. New(0, "quoted") \in Row
      BY RowType, ConstantsAssumption DEF Media
    <2>2. msg' \in [Msg -> Row]
      <3>1. reader[h].quote \in Msg
        BY <1>4, AfterType DEF Attach
      <3>2. msg[reader[h].quote] \in Row
        BY <3>1 DEF TypeOK
      <3>3. QED
        BY <1>4, <2>1, <3>1, <3>2, RowUpdate, TableType DEF Attach, TypeOK
    <2>3. reader' \in [Reader -> InHand]
      BY <1>4, AfterType, ReaderType DEF Attach
    <2>4. QED
      BY <1>4, <2>2, <2>3 DEF Attach, TypeOK, pool
  <1>5. CASE Wake(h)
    <2>1. reader' \in [Reader -> InHand]
      BY <1>5, AfterType DEF Wake, TypeOK
    <2>2. QED
      BY <1>5, <2>1 DEF Wake, TypeOK
  <1>6. CASE StoreFails(h)
    BY <1>1, <1>6, ReaderType DEF StoreFails, TypeOK, pool
  <1>7. QED
    BY <1>2, <1>3, <1>4, <1>5, <1>6 DEF Reads

LEMMA TypePool ==
  ASSUME TypeOK, Feed \/ QueryFails \/ Tick \/ (\E w \in Worker : Works(w))
  PROVE  TypeOK'
  <1>1. CASE Query
    BY <1>1 DEF Query, TypeOK, Feeder
  <1>2. ASSUME NEW m \in Msg, Claim(m) PROVE TypeOK'
    <2>1. feed' \in Feeder
      <3>1. feed \in Feeder
        BY DEF TypeOK
      <3>2. /\ [feed EXCEPT !.todo = feed.todo \ {m}] \in Feeder
            /\ [feed EXCEPT !.todo = feed.todo \ {m}, !.job = m] \in Feeder
        BY <3>1 DEF Feeder
      <3>3. QED
        BY <1>2, <3>2 DEF Claim
    <2>2. inflight' \subseteq Msg
      BY <1>2 DEF Claim, TypeOK
    <2>3. QED
      BY <1>2, <2>1, <2>2 DEF Claim, TypeOK
  <1>3. ASSUME NEW w \in Worker, HandOver(w) PROVE TypeOK'
    <2>1. feed.job \in Msg
      BY <1>3 DEF HandOver, TypeOK, Feeder
    <2>2. [pc |-> "fetch", job |-> feed.job, failed |-> FALSE] \in Downloader
      BY <2>1 DEF Downloader
    <2>3. QED
      BY <1>3, <2>2 DEF HandOver, TypeOK, Feeder
  <1>4. CASE SweepEnds \/ TakeWake \/ QueryFails \/ Tick
    BY <1>4 DEF SweepEnds, TakeWake, QueryFails, Tick, TypeOK, Feeder
  <1>5. ASSUME NEW w \in Worker, Works(w) PROVE TypeOK'
    <2>1. worker[w] \in [pc : {"fetch", "stored", "release"}, job : Msg, failed : BOOLEAN]
      BY <1>5, BusyType DEF Works, Lands, Records, Expires, DownloadFails, Release
    <2>2. \A pc \in {"fetch", "stored", "release"} :
            /\ [worker[w] EXCEPT !.pc = pc] \in Downloader
            /\ [worker[w] EXCEPT !.pc = pc, !.failed = TRUE] \in Downloader
      BY <2>1 DEF Downloader
    <2>3. CASE Lands(w)
      BY <2>1, <2>2, <2>3 DEF Lands, TypeOK
    <2>4. CASE Records(w)
      <3>1. msg' \in [Msg -> Row]
        BY <2>1, <2>4, RowUpdate, TableType DEF Records, SetMediaResult, TypeOK
      <3>2. QED
        BY <2>2, <2>4, <3>1 DEF Records, TypeOK
    <2>5. CASE Expires(w)
      <3>1. msg' \in [Msg -> Row]
        BY <2>1, <2>5, RowUpdate, TableType DEF Expires, SetMediaResult, TypeOK
      <3>2. QED
        BY <2>2, <2>5, <3>1 DEF Expires, TypeOK
    <2>6. CASE DownloadFails(w)
      BY <2>1, <2>2, <2>6 DEF DownloadFails, TypeOK
    <2>7. CASE Release(w)
      BY <2>1, <2>7 DEF Release, TypeOK, Downloader
    <2>8. QED
      BY <1>5, <2>3, <2>4, <2>5, <2>6, <2>7 DEF Works
  <1>6. QED
    BY <1>1, <1>2, <1>3, <1>4, <1>5 DEF Feed

LEMMA TypeStep == TypeOK /\ [Next]_vars => TypeOK'
  <1> SUFFICES ASSUME TypeOK, [Next]_vars PROVE TypeOK'
    OBVIOUS
  <1>1. CASE Crash
    <2>1. crashes' \in 0 .. MaxCrashes
      BY <1>1, ConstantsAssumption DEF Crash, TypeOK
    <2>2. QED
      BY <1>1, <2>1 DEF Crash, TypeOK, Resting, InHand, Sweeping, Feeder, Free, Downloader
  <1>2. CASE UNCHANGED vars
    BY <1>2 DEF vars, pool, TypeOK
  <1>3. QED
    BY <1>1, <1>2, TypeArrives, TypeReads, TypePool DEF Next

\* For any messages and workers, and whatever fails, every variable keeps its
\* type; an idle worker or reader holds nothing, a busy one a message.
THEOREM TypeCorrect == Spec => []TypeOK
  BY TypeInit, TypeStep, PTL DEF Spec

-----------------------------------------------------------------------------
(* The pool                                                                *)

\* What a worker or the feeder has in hand is in flight.
ClaimInv ==
  /\ \A w \in Worker : worker[w].job # None => worker[w].job \in inflight
  /\ feed.job # None => feed.job \in inflight
  /\ OneWorkerPerFile

\* The steps that touch the workers.
LEMMA WorkerSteps ==
  ASSUME [Next]_vars
  PROVE  UNCHANGED worker \/ Crash \/ \E w \in Worker : HandOver(w) \/ Works(w)
  BY DEF Next, vars, pool, Arrives, Live, History, Store, LiveEdit, LiveRevoke, LiveStub, Reads,
         ApplyEdit, Insert, Attach, Wake, StoreFails, Feed, Query, Claim, SweepEnds, TakeWake,
         QueryFails, Tick

\* What a worker's step does to the workers: their files stay, and only a file
\* that lands leaves its worker with one stored.
LEMMA WorkSteps ==
  ASSUME TypeOK, NEW w \in Worker, Works(w)
  PROVE  /\ \A v \in Worker : v # w => worker'[v] = worker[v]
         /\ worker'[w].job = IF Release(w) THEN None ELSE worker[w].job
         /\ worker'[w].pc = "stored" => Lands(w)
  <1>1. worker[w] \in [pc : {"fetch", "stored", "release"}, job : Msg, failed : BOOLEAN]
    BY BusyType DEF Works, Lands, Records, Expires, DownloadFails, Release
  <1>2. CASE Lands(w)
    BY <1>1, <1>2 DEF Lands, Release, TypeOK
  <1>3. CASE Records(w)
    BY <1>1, <1>3 DEF Records, Release, TypeOK
  <1>4. CASE Expires(w)
    BY <1>1, <1>4 DEF Expires, Release, TypeOK
  <1>5. CASE DownloadFails(w)
    <2>1. worker' = [worker EXCEPT ![w] = [worker[w] EXCEPT !.pc = "release", !.failed = TRUE]]
      BY <1>5 DEF DownloadFails
    <2>2. worker'[w] = [worker[w] EXCEPT !.pc = "release", !.failed = TRUE]
      BY <2>1 DEF TypeOK
    <2>3. worker'[w].pc = "release" /\ worker'[w].job = worker[w].job
      BY <1>1, <2>2
    <2>4. ~Release(w)
      BY <1>5 DEF DownloadFails, Release
    <2>5. QED
      BY <2>1, <2>3, <2>4 DEF TypeOK
  <1>6. CASE Release(w)
    BY <1>1, <1>6 DEF Release, Free, TypeOK
  <1>7. QED
    BY <1>2, <1>3, <1>4, <1>5, <1>6 DEF Works

\* Who takes a file in hand, and who lets it go.
LEMMA PoolSteps ==
  ASSUME TypeOK, [Next]_vars
  PROVE  \/ Crash
         \/ \E m \in Msg : Claim(m)
         \/ \E w \in Worker : HandOver(w) \/ Release(w)
         \/ /\ feed'.job = feed.job /\ inflight' = inflight
            /\ \A w \in Worker : worker'[w].job = worker[w].job
  <1> DEFINE Same == /\ feed'.job = feed.job /\ inflight' = inflight
                     /\ \A w \in Worker : worker'[w].job = worker[w].job
  <1>1. ASSUME UNCHANGED pool PROVE Same
    BY <1>1 DEF pool
  <1>2. ASSUME NEW m \in Msg, Arrives(m) PROVE Same
    BY <1>1, <1>2 DEF Arrives, Live, History, Store, LiveEdit, LiveRevoke, LiveStub
  <1>3. ASSUME NEW h \in Reader, Reads(h) \/ StoreFails(h) PROVE Same
    BY <1>1, <1>3 DEF Reads, ApplyEdit, Insert, Attach, Wake, StoreFails
  <1>4. ASSUME Query \/ QueryFails \/ SweepEnds \/ TakeWake \/ Tick PROVE Same
    BY <1>4 DEF Query, QueryFails, SweepEnds, TakeWake, Tick, TypeOK, Feeder
  <1>5. ASSUME NEW w \in Worker, Lands(w) \/ Records(w) \/ Expires(w) \/ DownloadFails(w) PROVE Same
    <2>1. Works(w) /\ feed' = feed /\ inflight' = inflight
      BY <1>5 DEF Works, Lands, Records, Expires, DownloadFails
    <2>2. ~Release(w)
      BY <1>5 DEF Lands, Records, Expires, DownloadFails, Release
    <2>3. \A v \in Worker : worker'[v].job = worker[v].job
      BY <2>2, <2>1, WorkSteps
    <2>4. QED
      BY <2>1, <2>3
  <1>6. CASE UNCHANGED vars
    BY <1>1, <1>6 DEF vars
  <1>7. QED
    BY <1>2, <1>3, <1>4, <1>5, <1>6 DEF Next, Feed, Works

LEMMA ClaimStep == TypeOK /\ ClaimInv /\ [Next]_vars => ClaimInv'
  <1> SUFFICES ASSUME TypeOK, ClaimInv, [Next]_vars PROVE ClaimInv'
    OBVIOUS
  <1>1. CASE Crash
    BY <1>1 DEF Crash, ClaimInv, OneWorkerPerFile, Free, Sweeping
  <1>2. ASSUME NEW m \in Msg, Claim(m) PROVE ClaimInv'
    <2>1. feed.job = None /\ worker' = worker
      BY <1>2 DEF Claim
    <2>2. CASE m \in inflight \cup failed
      <3>1. feed'.job = None /\ inflight' = inflight
        BY <1>2, <2>1, <2>2 DEF Claim, TypeOK, Feeder
      <3>2. QED
        BY <2>1, <3>1 DEF ClaimInv, OneWorkerPerFile
    <2>3. CASE m \notin inflight \cup failed
      <3>1. feed'.job = m /\ inflight' = inflight \cup {m}
        BY <1>2, <2>3 DEF Claim, TypeOK, Feeder
      <3>2. \A w \in Worker : worker[w].job # m
        BY <2>3, ConstantsAssumption DEF ClaimInv
      <3>3. QED
        BY <2>1, <3>1, <3>2 DEF ClaimInv, OneWorkerPerFile
    <2>4. QED
      BY <2>2, <2>3
  <1>3. ASSUME NEW w \in Worker, HandOver(w) PROVE ClaimInv'
    <2>1. /\ worker'[w].job = feed.job /\ feed.job # None
          /\ \A v \in Worker : v # w => worker'[v].job = worker[v].job
          /\ feed'.job = None /\ inflight' = inflight
      BY <1>3 DEF HandOver, TypeOK, Feeder
    <2>2. QED
      BY <2>1 DEF ClaimInv, OneWorkerPerFile
  <1>4. ASSUME NEW w \in Worker, Release(w) PROVE ClaimInv'
    <2>1. /\ worker'[w].job = None
          /\ \A v \in Worker : v # w => worker'[v].job = worker[v].job
          /\ feed' = feed /\ inflight' = inflight \ {worker[w].job}
      BY <1>4 DEF Release, TypeOK, Free
    <2>2. worker[w].job # None
      BY <1>4, BusyType, ConstantsAssumption DEF Release
    <2>3. QED
      BY <2>1, <2>2 DEF ClaimInv, OneWorkerPerFile
  <1>5. CASE /\ feed'.job = feed.job /\ inflight' = inflight
             /\ \A w \in Worker : worker'[w].job = worker[w].job
    BY <1>5 DEF ClaimInv, OneWorkerPerFile
  <1>6. QED
    BY <1>1, <1>2, <1>3, <1>4, <1>5, PoolSteps

\* No file is in two hands, for any number of files, workers and sweeps.
THEOREM NoFileTwice == Spec => []OneWorkerPerFile
  <1>1. Init => ClaimInv
    BY DEF Init, ClaimInv, OneWorkerPerFile, Free, Sweeping
  <1>2. ClaimInv => OneWorkerPerFile
    BY DEF ClaimInv
  <1>3. QED
    BY <1>1, <1>2, ClaimStep, TypeInit, TypeStep, PTL DEF Spec

-----------------------------------------------------------------------------
(* The table                                                               *)

\* A path is a stored row's.
RowInv == \A m \in Msg : HasPath(m) => msg[m].there

Decided(m) == msg[m].local \/ msg[m].error

\* The statements on the table.
LEMMA TableSteps ==
  ASSUME [Next]_vars
  PROVE  \/ UNCHANGED msg
         \/ \E m \in Msg : LiveRevoke(m) \/ LiveStub(m)
         \/ \E h \in Reader : ApplyEdit(h) \/ Insert(h) \/ Attach(h)
         \/ \E w \in Worker : Records(w) \/ Expires(w)
  BY DEF Next, vars, Arrives, Live, History, Store, LiveEdit, Reads, Wake, StoreFails, Feed, Query,
         Claim, HandOver, SweepEnds, TakeWake, QueryFails, Tick, Works, Lands, DownloadFails, Release, Crash

\* What one step does to one row: it is kept, its path too, and what is decided
\* of its file stays decided; it comes to be pending under a reader that will
\* wake the feeder, and to hold a file that a worker has stored.
RowStep(m) ==
  /\ msg[m].there => msg'[m].there
  /\ HasPath(m)' => msg'[m].there
  /\ HasPath(m) => msg'[m].media = msg[m].media /\ (Decided(m) => Decided(m)')
  /\ Pending(m)' => Pending(m) \/ \E h \in Reader : reader'[h].pc = "wake"
  /\ msg'[m].local => \/ msg[m].local
                      \/ \E w \in Worker : worker[w].pc = "stored" /\ worker[w].job = m

LEMMA RowSteps ==
  ASSUME TypeOK, RowInv, [Next]_vars, NEW m \in Msg
  PROVE  RowStep(m)
  <1>1. CASE UNCHANGED msg
    BY <1>1 DEF RowStep, RowInv, HasPath, Decided, Pending
  <1>2. ASSUME msg'[m] = msg[m] PROVE RowStep(m)
    BY <1>2 DEF RowStep, RowInv, HasPath, Decided, Pending
  <1>3. ASSUME NEW k \in Msg, LiveRevoke(k) PROVE RowStep(m)
    <2>1. /\ msg'[m].there = msg[m].there /\ msg'[m].media = msg[m].media
          /\ msg'[m].local = msg[m].local /\ msg'[m].error = msg[m].error
      BY <1>3 DEF LiveRevoke, TypeOK, Row
    <2>2. QED
      BY <2>1 DEF RowStep, RowInv, HasPath, Decided, Pending
  <1>4. ASSUME NEW k \in Msg, LiveStub(k) PROVE RowStep(m)
    <2>1. CASE k # m
      BY <1>2, <1>4, <2>1 DEF LiveStub, TypeOK
    <2>2. CASE k = m
      <3>1. msg'[m] = New(0, "none") /\ ~msg[m].there
        BY <1>4, <2>2 DEF LiveStub, TypeOK
      <3>2. QED
        BY <3>1 DEF RowStep, RowInv, New, HasPath, Decided, Pending
    <2>3. QED
      BY <2>1, <2>2
  <1>5. ASSUME NEW h \in Reader, ApplyEdit(h) PROVE RowStep(m)
    <2>1. /\ msg'[m].there = msg[m].there /\ msg'[m].media = msg[m].media
          /\ msg'[m].local = msg[m].local /\ msg'[m].error = msg[m].error
      BY <1>5 DEF ApplyEdit, TypeOK, Row
    <2>2. QED
      BY <2>1 DEF RowStep, RowInv, HasPath, Decided, Pending
  <1>6. ASSUME NEW h \in Reader, Insert(h) PROVE RowStep(m)
    <2>1. reader[h] \in Held
      BY <1>6, AfterType DEF Insert
    <2>2. CASE msg[reader[h].id].there \/ reader[h].id # m
      BY <1>2, <1>6, <2>2 DEF Insert, TypeOK
    <2>3. CASE ~msg[m].there /\ reader[h].id = m
      <3>1. msg'[m] = New(reader[h].text, reader[h].media)
        BY <1>6, <2>3 DEF Insert, TypeOK
      <3>2. reader[h].media = "own" => reader'[h].pc = "wake"
        BY <1>6, <2>1, <2>3 DEF Insert, TypeOK, Held
      <3>3. reader[h].media \in {"none", "own"}
        BY <2>1 DEF Held
      <3>4. QED
        BY <2>3, <3>1, <3>2, <3>3 DEF RowStep, RowInv, New, HasPath, Decided, Pending
    <2>4. QED
      BY <2>2, <2>3
  <1>7. ASSUME NEW h \in Reader, Attach(h) PROVE RowStep(m)
    <2>1. reader[h] \in Held /\ reader[h].quote \in Msg
      BY <1>7, AfterType DEF Attach
    <2>2. reader'[h].pc = "wake"
      BY <1>7, <2>1 DEF Attach, TypeOK, Held
    <2>3. CASE reader[h].quote # m \/ UNCHANGED msg
      BY <1>2, <1>7, <2>1, <2>3 DEF Attach, TypeOK
    <2>4. CASE reader[h].quote = m /\ ~msg[m].there /\ msg' = [msg EXCEPT ![m] = New(0, "quoted")]
      <3>1. msg'[m] = New(0, "quoted")
        BY <2>4 DEF TypeOK
      <3>2. QED
        BY <2>2, <2>4, <3>1 DEF RowStep, RowInv, New, HasPath, Decided, Pending
    <2>5. CASE /\ reader[h].quote = m /\ msg[m].there /\ ~HasPath(m)
               /\ msg' = [msg EXCEPT ![m] = [@ EXCEPT !.media = "quoted", !.error = FALSE]]
      <3>1. /\ msg'[m].there = msg[m].there /\ msg'[m].media = "quoted"
            /\ msg'[m].local = msg[m].local
        BY <2>5 DEF TypeOK, Row
      <3>2. QED
        BY <2>2, <2>5, <3>1 DEF RowStep, RowInv, HasPath, Decided, Pending
    <2>6. QED
      BY <1>7, <2>3, <2>4, <2>5 DEF Attach
  <1>8. ASSUME NEW w \in Worker, Records(w) \/ Expires(w) PROVE RowStep(m)
    <2>1. worker[w].job \in Msg
      BY <1>8, BusyType DEF Records, Expires
    <2>2. CASE worker[w].job # m
      BY <1>2, <1>8, <2>1, <2>2 DEF Records, Expires, SetMediaResult, TypeOK
    <2>3. CASE worker[w].job = m
      <3>1. ASSUME NEW landed \in BOOLEAN, SetMediaResult(m, landed)
            PROVE  /\ msg'[m].there = msg[m].there /\ msg'[m].media = msg[m].media
                   /\ msg'[m].local = landed /\ msg'[m].error = ~landed
        BY <3>1 DEF SetMediaResult, TypeOK, Row
      <3>2. CASE Records(w)
        BY <2>3, <3>1, <3>2 DEF Records, RowStep, RowInv, HasPath, Decided, Pending
      <3>3. CASE Expires(w)
        BY <2>3, <3>1, <3>3 DEF Expires, RowStep, RowInv, HasPath, Decided, Pending
      <3>4. QED
        BY <1>8, <3>2, <3>3
    <2>4. QED
      BY <2>2, <2>3
  <1>9. QED
    BY <1>1, <1>3, <1>4, <1>5, <1>6, <1>7, <1>8, TableSteps

LEMMA RowInvStep == TypeOK /\ RowInv /\ [Next]_vars => RowInv'
  BY RowSteps DEF RowStep, RowInv

-----------------------------------------------------------------------------
(* Files that are held                                                     *)

\* A worker records a file only once it is in its place.
LandedInv ==
  /\ \A w \in Worker : worker[w].pc = "stored" => worker[w].job \in files
  /\ HeldFilesExist

LEMMA LandedStep == TypeOK /\ RowInv /\ LandedInv /\ [Next]_vars => LandedInv'
  <1> SUFFICES ASSUME TypeOK, RowInv, LandedInv, [Next]_vars PROVE LandedInv'
    OBVIOUS
  <1>1. files \subseteq files'
    BY DEF Next, vars, Arrives, Live, History, Store, LiveEdit, LiveRevoke, LiveStub, Reads, ApplyEdit,
           Insert, Attach, Wake, StoreFails, Feed, Query, Claim, HandOver, SweepEnds, TakeWake,
           QueryFails, Tick, Works, Lands, Records, Expires, DownloadFails, Release, Crash
  <1>2. HeldFilesExist'
    BY <1>1, RowSteps DEF RowStep, LandedInv, HeldFilesExist
  <1>3. ASSUME NEW v \in Worker, worker'[v].pc = "stored"
        PROVE  worker'[v].job \in files'
    <2>1. CASE worker'[v] = worker[v]
      BY <1>1, <1>3, <2>1 DEF LandedInv
    <2>2. CASE Crash
      BY <1>3, <2>2 DEF Crash, Free
    <2>3. ASSUME NEW w \in Worker, HandOver(w) PROVE worker'[v] = worker[v]
      BY <1>3, <2>3 DEF HandOver, TypeOK
    <2>4. ASSUME NEW w \in Worker, Works(w) PROVE worker'[v] = worker[v] \/ worker'[v].job \in files'
      <3>1. CASE v # w
        BY <2>4, <3>1, WorkSteps
      <3>2. CASE v = w
        <4>1. Lands(w)
          BY <1>3, <2>4, <3>2, WorkSteps
        <4>2. worker'[w].job = worker[w].job /\ files' = files \cup {worker[w].job}
          BY <2>4, <4>1, WorkSteps DEF Lands, Release
        <4>3. QED
          BY <3>2, <4>2
      <3>3. QED
        BY <3>1, <3>2
    <2>5. QED
      BY <2>1, <2>2, <2>3, <2>4, WorkerSteps
  <1>4. QED
    BY <1>2, <1>3 DEF LandedInv

\* A row that names a file has it, whenever the process stops.
THEOREM HeldAreThere == Spec => []HeldFilesExist
  <1>1. Init => RowInv /\ LandedInv
    BY DEF Init, RowInv, LandedInv, HeldFilesExist, HasPath, Absent, Free
  <1>2. LandedInv => HeldFilesExist
    BY DEF LandedInv
  <1>3. QED
    BY <1>1, <1>2, RowInvStep, LandedStep, TypeInit, TypeStep, PTL DEF Spec

-----------------------------------------------------------------------------
(* Files that are pending                                                  *)

\* What is listed or claimed has a path, and what a worker gives up without a
\* failure is decided.
SettledInv ==
  /\ \A m \in feed.todo \cup inflight : HasPath(m)
  /\ \A w \in Worker : worker[w].pc = "release" /\ ~worker[w].failed => Decided(worker[w].job)

\* Lists only grow by what is pending.
LEMMA ListSteps ==
  ASSUME TypeOK, [Next]_vars, NEW m \in feed'.todo \cup inflight'
  PROVE  m \in feed.todo \cup inflight \/ (Pending(m) /\ UNCHANGED msg)
  <1>1. CASE Crash
    BY <1>1 DEF Crash, Sweeping
  <1>2. CASE Query
    BY <1>2 DEF Query, TypeOK, Feeder
  <1>3. ASSUME NEW k \in Msg, Claim(k) PROVE m \in feed.todo \cup inflight
    <2>1. k \in feed.todo /\ feed'.todo = feed.todo \ {k} /\ inflight' \subseteq inflight \cup {k}
      BY <1>3 DEF Claim, TypeOK, Feeder
    <2>2. QED
      BY <2>1
  <1>4. CASE (\E w \in Worker : HandOver(w)) \/ SweepEnds \/ TakeWake \/ QueryFails \/ Tick
    <2>1. feed'.todo = feed.todo /\ inflight' = inflight
      BY <1>4 DEF HandOver, SweepEnds, TakeWake, QueryFails, Tick, TypeOK, Feeder
    <2>2. QED
      BY <2>1
  <1>5. CASE feed' = feed /\ inflight' \subseteq inflight
    BY <1>5
  <1>6. ASSUME ~Crash, ~Feed, ~QueryFails, ~Tick PROVE feed' = feed /\ inflight' \subseteq inflight
    BY <1>6 DEF Next, vars, pool, Arrives, Live, History, Store, LiveEdit, LiveRevoke, LiveStub, Reads,
           ApplyEdit, Insert, Attach, Wake, StoreFails, Works, Lands, Records, Expires, DownloadFails, Release
  <1>7. QED
    BY <1>1, <1>2, <1>3, <1>4, <1>5, <1>6 DEF Feed

LEMMA SettledStep == TypeOK /\ RowInv /\ ClaimInv /\ SettledInv /\ [Next]_vars => SettledInv'
  <1> SUFFICES ASSUME TypeOK, RowInv, ClaimInv, SettledInv, [Next]_vars PROVE SettledInv'
    OBVIOUS
  <1>1. ASSUME NEW m \in (feed.todo \cup inflight)' PROVE HasPath(m)'
    <2>1. m \in Msg
      BY <1>1, TypeStep DEF TypeOK, Feeder
    <2>2. HasPath(m)
      BY <1>1, ListSteps DEF SettledInv, Pending
    <2>3. QED
      BY <2>1, <2>2, RowSteps DEF RowStep, HasPath
  <1>2. ASSUME NEW v \in Worker, worker'[v].pc = "release", ~worker'[v].failed
        PROVE  Decided(worker[v].job)'
    <2>1. CASE worker'[v] = worker[v]
      <3>1. worker[v].job \in Msg /\ worker[v].job \in inflight
        BY <1>2, <2>1, BusyType, ConstantsAssumption DEF ClaimInv
      <3>2. Decided(worker[v].job) /\ HasPath(worker[v].job)
        BY <1>2, <2>1, <3>1 DEF SettledInv
      <3>3. msg'[worker[v].job].local \/ msg'[worker[v].job].error
        BY <3>1, <3>2, RowSteps DEF RowStep, Decided
      <3>4. QED
        BY <2>1, <3>3 DEF Decided
    <2>2. CASE Crash
      BY <1>2, <2>2 DEF Crash, Free
    <2>3. ASSUME NEW w \in Worker, HandOver(w) PROVE worker'[v] = worker[v]
      BY <1>2, <2>3 DEF HandOver, TypeOK
    <2>4. ASSUME NEW w \in Worker, Works(w) PROVE worker'[v] = worker[v] \/ Decided(worker[v].job)'
      <3>1. worker[w] \in [pc : {"fetch", "stored", "release"}, job : Msg, failed : BOOLEAN]
        BY <2>4, BusyType DEF Works, Lands, Records, Expires, DownloadFails, Release
      <3>2. CASE v # w
        BY <2>4, <3>2, WorkSteps
      <3>3. CASE v = w /\ (Lands(w) \/ Release(w))
        <4>1. CASE Lands(w)
          BY <1>2, <3>1, <3>3, <4>1 DEF Lands, TypeOK
        <4>2. CASE Release(w)
          BY <1>2, <3>3, <4>2 DEF Release, TypeOK, Free
        <4>3. QED
          BY <3>3, <4>1, <4>2
      <3>4. CASE v = w /\ DownloadFails(w)
        <4>1. worker' = [worker EXCEPT ![w] = [worker[w] EXCEPT !.pc = "release", !.failed = TRUE]]
          BY <3>4 DEF DownloadFails
        <4>2. worker'[w] = [worker[w] EXCEPT !.pc = "release", !.failed = TRUE]
          BY <4>1 DEF TypeOK
        <4>3. worker'[w].failed
          BY <3>1, <4>2
        <4>4. QED
          BY <1>2, <3>4, <4>3
      <3>5. CASE v = w /\ (Records(w) \/ Expires(w))
        <4>1. worker'[w].job = worker[w].job
          BY <2>4, <3>5, WorkSteps DEF Records, Expires, Release
        <4>2. msg'[worker[w].job].local \/ msg'[worker[w].job].error
          <5>1. PICK landed \in BOOLEAN : SetMediaResult(worker[w].job, landed)
            BY <3>5 DEF Records, Expires
          <5>2. msg'[worker[w].job] = [msg[worker[w].job] EXCEPT !.local = landed, !.error = ~landed]
            BY <3>1, <5>1 DEF SetMediaResult, TypeOK
          <5>3. msg[worker[w].job] \in Row
            BY <3>1 DEF TypeOK
          <5>4. QED
            BY <5>2, <5>3 DEF Row
        <4>3. QED
          BY <3>5, <4>1, <4>2 DEF Decided
      <3>6. QED
        BY <2>4, <3>2, <3>3, <3>4, <3>5 DEF Works
    <2>5. QED
      BY <2>1, <2>2, <2>3, <2>4, WorkerSteps
  <1>3. QED
    BY <1>1, <1>2 DEF SettledInv

\* A pending file that is to come still is, after any step.
LEMMA ComingStep ==
  ASSUME TypeOK, SettledInv, [Next]_vars, NEW m \in Msg, Pending(m), Coming(m)
  PROVE  Pending(m)' => Coming(m)'
  <1>1. CASE Crash
    BY <1>1 DEF Crash, Sweeping, Coming
  <1>2. CASE UNCHANGED vars
    BY <1>2 DEF vars, pool, Coming
  <1>3. ASSUME NEW k \in Msg, Arrives(k) PROVE Coming(m)'
    <2>1. UNCHANGED pool /\ \A h \in Reader : reader[h].pc = "wake" => reader'[h] = reader[h]
      BY <1>3 DEF Arrives, Live, History, Store, LiveEdit, LiveRevoke, LiveStub, TypeOK
    <2>2. QED
      BY <2>1 DEF pool, Coming
  <1>4. ASSUME NEW h \in Reader, Reads(h) \/ StoreFails(h) PROVE Coming(m)'
    <2>1. CASE Wake(h)
      BY <2>1 DEF Wake, Coming
    <2>2. CASE ApplyEdit(h) \/ Insert(h) \/ Attach(h) \/ StoreFails(h)
      <3>1. UNCHANGED pool /\ \A g \in Reader : reader[g].pc = "wake" => reader'[g] = reader[g]
        BY <2>2 DEF ApplyEdit, Insert, Attach, StoreFails, TypeOK
      <3>2. QED
        BY <3>1 DEF pool, Coming
    <2>3. QED
      BY <1>4, <2>1, <2>2 DEF Reads
  <1>5. CASE Query
    <2>1. m \in feed'.todo
      BY <1>5 DEF Query, TypeOK, Feeder
    <2>2. QED
      BY <2>1 DEF Coming
  <1>6. ASSUME NEW k \in Msg, Claim(k) PROVE Coming(m)'
    <2>1. /\ feed'.todo = feed.todo \ {k} /\ feed'.pc = feed.pc /\ feed'.blind = feed.blind
          /\ inflight \subseteq inflight' /\ k \in inflight' \cup failed
          /\ UNCHANGED <<failed, wake, reader>>
      BY <1>6 DEF Claim, TypeOK, Feeder
    <2>2. QED
      BY <2>1 DEF Coming
  <1>7. CASE (\E w \in Worker : HandOver(w)) \/ SweepEnds
    <2>1. /\ feed'.todo = feed.todo /\ (feed.pc = "sweep" => feed'.pc = "sweep")
          /\ feed'.blind = feed.blind /\ UNCHANGED <<inflight, failed, wake, reader>>
      BY <1>7 DEF HandOver, SweepEnds, TypeOK, Feeder
    <2>2. QED
      BY <2>1 DEF Coming
  <1>8. CASE QueryFails
    <2>1. feed'.blind
      BY <1>8 DEF QueryFails, TypeOK, Feeder
    <2>2. QED
      BY <2>1 DEF Coming
  <1>9. CASE TakeWake \/ Tick
    <2>1. feed'.pc = "sweep"
      BY <1>9 DEF TakeWake, Tick, TypeOK, Feeder
    <2>2. QED
      BY <2>1 DEF Coming
  <1>10. ASSUME NEW w \in Worker, Lands(w) \/ Records(w) \/ Expires(w) \/ DownloadFails(w)
         PROVE  Coming(m)'
    BY <1>10 DEF Lands, Records, Expires, DownloadFails, Coming
  <1>11. ASSUME NEW w \in Worker, Release(w) PROVE Coming(m)'
    <2>1. worker[w].job = m => worker[w].failed
      BY <1>11 DEF Release, SettledInv, Pending, Decided
    <2>2. m \in inflight \cup failed => m \in inflight' \cup failed'
      BY <1>11, <2>1 DEF Release
    <2>3. UNCHANGED <<feed, wake, reader>>
      BY <1>11 DEF Release
    <2>4. QED
      BY <2>2, <2>3 DEF Coming
  <1>12. QED
    BY <1>1, <1>2, <1>3, <1>4, <1>5, <1>6, <1>7, <1>8, <1>9, <1>10, <1>11 DEF Next, Feed, Works

LEMMA ForgottenStep ==
  TypeOK /\ RowInv /\ SettledInv /\ NothingIsForgotten /\ [Next]_vars => NothingIsForgotten'
  <1> SUFFICES ASSUME TypeOK, RowInv, SettledInv, NothingIsForgotten, [Next]_vars,
                      NEW m \in Msg, Pending(m)'
               PROVE  Coming(m)'
    BY DEF NothingIsForgotten
  <1>1. CASE Pending(m)
    BY <1>1, ComingStep DEF NothingIsForgotten
  <1>2. CASE \E h \in Reader : reader'[h].pc = "wake"
    BY <1>2 DEF Coming
  <1>3. QED
    BY <1>1, <1>2, RowSteps DEF RowStep

\* However many wakes collapse and downloads fail, a pending file is in flight,
\* barred until the tick, listed, or another sweep is sure to come.
THEOREM NothingForgotten == Spec => []NothingIsForgotten
  <1>1. Init => RowInv /\ ClaimInv /\ SettledInv /\ NothingIsForgotten
    BY DEF Init, RowInv, ClaimInv, OneWorkerPerFile, SettledInv, NothingIsForgotten, HasPath, Pending,
           Absent, Free, Sweeping
  <1>2. QED
    BY <1>1, RowInvStep, ClaimStep, SettledStep, ForgottenStep, TypeInit, TypeStep, PTL DEF Spec

-----------------------------------------------------------------------------
(* What rows hold                                                          *)

\* No reader has a text that the phone has not sent, and an edit in hand is the last.
Fits(h) ==
  /\ reader[h].pc \in {"edit", "insert"} => reader[h].text <= phone[reader[h].id].text
  /\ reader[h].pc = "edit" => h = "live" /\ reader[h].text = phone[reader[h].id].text

TextInv ==
  /\ \A m \in Msg : msg[m].text <= phone[m].text
  /\ \A h \in Reader : Fits(h)

\* The phone's texts only grow, and an edit comes when the event loop rests.
LEMMA PhoneSteps ==
  ASSUME TypeOK, [Next]_vars, NEW m \in Msg
  PROVE  /\ phone'[m].text >= phone[m].text
         /\ phone'[m].text = phone[m].text \/ LiveEdit(m)
  <1>1. CASE UNCHANGED phone
    <2>1. phone[m].text \in Nat
      BY ConstantsAssumption DEF TypeOK
    <2>2. QED
      BY <1>1, <2>1
  <1>2. ASSUME NEW k \in Msg, LiveEdit(k) \/ LiveRevoke(k)
        PROVE  /\ phone'[m].text >= phone[m].text
               /\ phone'[m].text = phone[m].text \/ LiveEdit(m)
    <2>1. phone[m].text \in Nat /\ phone[k].text \in Nat
      BY ConstantsAssumption DEF TypeOK
    <2>2. CASE LiveEdit(k)
      <3>1. phone' = [phone EXCEPT ![k] = [phone[k] EXCEPT !.text = phone[k].text + 1]]
        BY <2>2 DEF LiveEdit
      <3>2. CASE k = m
        <4>1. phone'[m] = [phone[m] EXCEPT !.text = phone[m].text + 1]
          BY <3>1, <3>2 DEF TypeOK
        <4>2. phone'[m].text = phone[m].text + 1
          BY <4>1 DEF TypeOK
        <4>3. QED
          BY <2>1, <2>2, <3>2, <4>2
      <3>3. CASE k # m
        <4>1. phone'[m].text = phone[m].text
          BY <3>1, <3>3 DEF TypeOK
        <4>2. QED
          BY <2>1, <4>1
      <3>4. QED
        BY <3>2, <3>3
    <2>3. CASE LiveRevoke(k)
      <3>1. phone'[m].text = phone[m].text
        BY <2>3 DEF LiveRevoke, TypeOK
      <3>2. QED
        BY <2>1, <3>1
    <2>4. QED
      BY <1>2, <2>2, <2>3
  <1>3. UNCHANGED phone \/ \E k \in Msg : LiveEdit(k) \/ LiveRevoke(k)
    BY DEF Next, vars, Arrives, Live, History, Store, LiveStub, Reads, ApplyEdit, Insert, Attach, Wake,
           StoreFails, Feed, Query, Claim, HandOver, SweepEnds, TakeWake, QueryFails, Tick, Works, Lands,
           Records, Expires, DownloadFails, Release, Crash
  <1>4. QED
    BY <1>1, <1>2, <1>3

\* A row's text is the phone's last, or one that a reader has, or stays.
LEMMA TextSteps ==
  ASSUME TypeOK, TextInv, [Next]_vars, NEW m \in Msg
  PROVE  /\ msg'[m].text <= phone[m].text
         /\ msg[m].there => msg'[m].text >= msg[m].text /\ (msg[m].revoked => msg'[m].revoked)
  <1> DEFINE Keeps == /\ msg'[m].text <= phone[m].text
                      /\ msg[m].there => msg'[m].text >= msg[m].text /\ (msg[m].revoked => msg'[m].revoked)
  <1> SUFFICES Keeps
    OBVIOUS
  <1>0. msg[m] \in Row /\ phone[m].text \in Nat
    BY ConstantsAssumption DEF TypeOK
  <1>1. ASSUME msg'[m].text = msg[m].text, msg'[m].revoked = msg[m].revoked PROVE Keeps
    BY <1>0, <1>1 DEF TextInv, Row
  <1>2. ASSUME ~msg[m].there, msg'[m].text = 0 PROVE Keeps
    BY <1>0, <1>2
  <1>3. ASSUME NEW k \in Msg, LiveRevoke(k) PROVE Keeps
    <2>1. msg'[m].text = msg[m].text /\ (msg[m].revoked => msg'[m].revoked)
      BY <1>0, <1>3 DEF LiveRevoke, TypeOK, Row
    <2>2. QED
      BY <1>0, <2>1 DEF TextInv, Row
  <1>4. ASSUME NEW k \in Msg, LiveStub(k) PROVE Keeps
    BY <1>1, <1>2, <1>4 DEF LiveStub, TypeOK, New
  <1>5. ASSUME NEW h \in Reader, ApplyEdit(h) PROVE Keeps
    <2>1. reader[h].id \in Msg /\ reader[h].text = phone[reader[h].id].text
      BY <1>5, AfterType DEF ApplyEdit, TextInv, Fits, Held
    <2>2. CASE ~msg[reader[h].id].there \/ reader[h].id # m
      BY <1>1, <1>5, <2>1, <2>2 DEF ApplyEdit, TypeOK
    <2>3. CASE msg[m].there /\ reader[h].id = m
      <3>1. msg'[m] = [msg[m] EXCEPT !.text = reader[h].text]
        BY <1>5, <2>3 DEF ApplyEdit, TypeOK
      <3>2. msg'[m].text = phone[m].text /\ msg'[m].revoked = msg[m].revoked
        BY <1>0, <2>1, <2>3, <3>1 DEF Row
      <3>3. QED
        BY <1>0, <3>2 DEF TextInv, Row
    <2>4. QED
      BY <2>2, <2>3
  <1>6. ASSUME NEW h \in Reader, Insert(h) PROVE Keeps
    <2>1. reader[h].id \in Msg /\ reader[h].text <= phone[reader[h].id].text
      BY <1>6, AfterType DEF Insert, TextInv, Fits, Held
    <2>2. CASE msg[reader[h].id].there \/ reader[h].id # m
      BY <1>1, <1>6, <2>2 DEF Insert, TypeOK
    <2>3. CASE ~msg[m].there /\ reader[h].id = m
      <3>1. msg'[m] = New(reader[h].text, reader[h].media)
        BY <1>6, <2>3 DEF Insert, TypeOK
      <3>2. QED
        BY <2>1, <2>3, <3>1 DEF New
    <2>4. QED
      BY <2>2, <2>3
  <1>7. ASSUME NEW h \in Reader, Attach(h) PROVE Keeps
    <2>1. reader[h].quote \in Msg
      BY <1>7, AfterType DEF Attach
    <2>2. CASE reader[h].quote # m \/ UNCHANGED msg
      BY <1>1, <1>7, <2>1, <2>2 DEF Attach, TypeOK
    <2>3. CASE reader[h].quote = m /\ ~msg[m].there /\ msg' = [msg EXCEPT ![m] = New(0, "quoted")]
      BY <1>2, <2>3 DEF TypeOK, New
    <2>4. CASE /\ reader[h].quote = m
               /\ msg' = [msg EXCEPT ![m] = [@ EXCEPT !.media = "quoted", !.error = FALSE]]
      <3>1. msg'[m] = [msg[m] EXCEPT !.media = "quoted", !.error = FALSE]
        BY <2>4 DEF TypeOK
      <3>2. QED
        BY <1>0, <1>1, <3>1 DEF Row
    <2>5. QED
      BY <1>7, <2>2, <2>3, <2>4 DEF Attach
  <1>8. ASSUME NEW w \in Worker, Records(w) \/ Expires(w) PROVE Keeps
    <2>1. PICK landed \in BOOLEAN : SetMediaResult(worker[w].job, landed)
      BY <1>8 DEF Records, Expires
    <2>2. msg'[m] = msg[m] \/ msg'[m] = [msg[m] EXCEPT !.local = landed, !.error = ~landed]
      BY <2>1 DEF SetMediaResult, TypeOK
    <2>3. QED
      BY <1>0, <1>1, <2>2 DEF Row
  <1>9. CASE UNCHANGED msg
    BY <1>1, <1>9
  <1>10. QED
    BY <1>3, <1>4, <1>5, <1>6, <1>7, <1>8, <1>9, TableSteps

LEMMA TextStep == TypeOK /\ TextInv /\ [Next]_vars => TextInv'
  <1> SUFFICES ASSUME TypeOK, TextInv, [Next]_vars PROVE TextInv'
    OBVIOUS
  <1>0. \A m \in Msg : phone[m].text \in Nat /\ phone'[m].text \in Nat /\ msg'[m].text \in Nat
    BY TypeStep, ConstantsAssumption DEF TypeOK, Row
  <1>1. \A m \in Msg : msg'[m].text <= phone'[m].text
    BY <1>0, PhoneSteps, TextSteps
  <1>2. ASSUME NEW h \in Reader, reader'[h] = reader[h] PROVE Fits(h)'
    <2>1. CASE reader[h].pc \notin {"edit", "insert"}
      BY <1>2, <2>1 DEF Fits
    <2>2. CASE reader[h].pc \in {"edit", "insert"}
      <3>1. reader[h].id \in Msg /\ reader[h].text \in Nat
        <4>1. reader[h] \in Held
          BY <2>2, AfterType
        <4>2. QED
          BY <4>1, ConstantsAssumption DEF Held
      <3>2. reader[h].pc = "edit" => ~LiveEdit(reader[h].id)
        BY <3>1 DEF TextInv, Fits, LiveEdit
      <3>3. reader[h].text <= phone'[reader[h].id].text
        BY <1>0, <2>2, <3>1, PhoneSteps DEF TextInv, Fits
      <3>4. reader[h].pc = "edit" => h = "live" /\ reader[h].text = phone'[reader[h].id].text
        BY <3>1, <3>2, PhoneSteps DEF TextInv, Fits
      <3>5. QED
        BY <1>2, <3>3, <3>4 DEF Fits
    <2>3. QED
      BY <2>1, <2>2
  <1>3. ASSUME NEW g \in Reader, NEW v, reader' = [reader EXCEPT ![g] = v], NEW h \in Reader,
               v.pc \notin {"edit", "insert"}
        PROVE  Fits(h)'
    <2>1. CASE h = g
      BY <1>3, <2>1 DEF Fits, TypeOK
    <2>2. CASE h # g
      BY <1>2, <1>3, <2>2 DEF TypeOK
    <2>3. QED
      BY <2>1, <2>2
  <1>4. ASSUME NEW m \in Msg, NEW g \in Reader, NEW text \in 0 .. phone[m].text, Store(g, m, text),
               NEW h \in Reader
        PROVE  Fits(h)'
    <2>1. CASE h = g
      <3>1. reader'[h].pc = "insert" /\ reader'[h].id = m /\ reader'[h].text = text /\ phone' = phone
        BY <1>4, <2>1 DEF Store, TypeOK
      <3>2. QED
        BY <1>0, <3>1 DEF Fits
    <2>2. CASE h # g
      BY <1>2, <1>4, <2>2 DEF Store, TypeOK
    <2>3. QED
      BY <2>1, <2>2
  <1>5. ASSUME NEW m \in Msg, Arrives(m), NEW h \in Reader PROVE Fits(h)'
    <2>1. CASE Live(m)
      <3>1. 0 \in 0 .. phone[m].text /\ "live" \in Reader
        BY <1>0 DEF Reader
      <3>2. QED
        BY <1>4, <2>1, <3>1 DEF Live
    <2>2. CASE History(m)
      BY <1>4, <2>2 DEF History, Reader
    <2>3. CASE LiveEdit(m)
      <3>1. CASE h = "live"
        <4>1. /\ reader'[h].pc = "edit" /\ reader'[h].id = m
              /\ reader'[h].text = phone[m].text + 1 /\ phone'[m].text = phone[m].text + 1
          BY <2>3, <3>1 DEF LiveEdit, TypeOK
        <4>2. QED
          BY <1>0, <3>1, <4>1 DEF Fits
      <3>2. CASE h # "live"
        BY <1>2, <2>3, <3>2 DEF LiveEdit, TypeOK
      <3>3. QED
        BY <3>1, <3>2
    <2>4. CASE LiveRevoke(m) \/ LiveStub(m)
      BY <1>2, <2>4 DEF LiveRevoke, LiveStub
    <2>5. QED
      BY <1>5, <2>1, <2>2, <2>3, <2>4 DEF Arrives
  <1>6. ASSUME NEW g \in Reader, Reads(g) \/ StoreFails(g), NEW h \in Reader PROVE Fits(h)'
    <2>1. CASE ApplyEdit(g) /\ ~msg[reader[g].id].there
      <3>1. CASE h = g
        <4>1. reader[g] \in Held
          BY <2>1, AfterType DEF ApplyEdit
        <4>2. /\ reader'[h].pc = "insert" /\ reader'[h].id = reader[h].id
              /\ reader'[h].text = reader[h].text /\ phone' = phone /\ reader[h].pc = "edit"
          BY <2>1, <3>1, <4>1 DEF ApplyEdit, TypeOK, Held
        <4>3. QED
          BY <1>0, <4>2 DEF TextInv, Fits
      <3>2. CASE h # g
        BY <1>2, <2>1, <3>2 DEF ApplyEdit, TypeOK
      <3>3. QED
        BY <3>1, <3>2
    <2>2. CASE \/ ApplyEdit(g) /\ msg[reader[g].id].there
               \/ Insert(g) \/ Attach(g) \/ Wake(g) \/ StoreFails(g)
      <3>1. reader[g] \in Held
        BY <2>2, AfterType DEF ApplyEdit, Insert, Attach, Wake, StoreFails
      <3>2. \E v : reader' = [reader EXCEPT ![g] = v] /\ v.pc \notin {"edit", "insert"}
        <4>1. \A pc \in {"wake", "attach"} : [reader[g] EXCEPT !.pc = pc].pc = pc
          BY <3>1 DEF Held
        <4>2. [reader[g] EXCEPT !.pc = "wake", !.quote = None].pc = "wake"
          BY <3>1 DEF Held
        <4>3. After(g).pc \notin {"edit", "insert"}
          BY <4>1 DEF After, Resting
        <4>4. CASE ApplyEdit(g) \/ StoreFails(g)
          BY <2>2, <4>4 DEF ApplyEdit, StoreFails, Insert, Attach, Wake, Resting
        <4>5. CASE Insert(g)
          BY <4>1, <4>3, <4>5 DEF Insert
        <4>6. CASE Attach(g)
          BY <4>2, <4>6 DEF Attach
        <4>7. CASE Wake(g)
          BY <4>3, <4>7 DEF Wake
        <4>8. QED
          BY <2>2, <4>4, <4>5, <4>6, <4>7
      <3>3. QED
        BY <1>3, <3>2
    <2>3. QED
      BY <1>6, <2>1, <2>2 DEF Reads
  <1>7. ASSUME Crash, NEW h \in Reader PROVE Fits(h)'
    BY <1>7 DEF Crash, Fits, Resting
  <1>8. \/ UNCHANGED reader \/ Crash
        \/ \E m \in Msg : Arrives(m)
        \/ \E g \in Reader : Reads(g) \/ StoreFails(g)
    BY DEF Next, vars, Feed, Query, Claim, HandOver, SweepEnds, TakeWake, QueryFails, Tick, Works, Lands,
           Records, Expires, DownloadFails, Release
  <1>9. \A h \in Reader : Fits(h)'
    BY <1>2, <1>5, <1>6, <1>7, <1>8
  <1>10. QED
    BY <1>1, <1>9 DEF TextInv

\* However live events and history interleave, no step takes back an edit, a
\* revocation, a row or the envelope a row holds.
THEOREM RowsKept == Spec => RowsKeepWhatTheyHold
  <1>1. Init => RowInv /\ TextInv
    BY ConstantsAssumption DEF Init, RowInv, TextInv, Fits, HasPath, Absent, Resting
  <1>2. TypeOK /\ RowInv /\ TextInv /\ [Next]_vars =>
          [\A m \in Msg :
             msg[m].there => /\ msg'[m].there /\ msg'[m].text >= msg[m].text
                             /\ msg[m].revoked => msg'[m].revoked
                             /\ HasPath(m) => msg'[m].media = msg[m].media]_vars
    BY RowSteps, TextSteps DEF RowStep
  <1>3. QED
    BY <1>1, <1>2, RowInvStep, TextStep, TypeInit, TypeStep, PTL DEF Spec, RowsKeepWhatTheyHold

-----------------------------------------------------------------------------
(* The supervisor of the bridge whose events Mirror takes (Sidecar)         *)

CONSTANTS MaxClicks, MaxExits

VARIABLES device, requested, qr, child, loop, built, waiting, asked, clicks, exits

B == INSTANCE Sidecar

Steps == {"top", "idle", "binary", "nobinary", "spawn", "wait", "restart", "terminate", "ended"}

\* A bridge runs only where the loop waits for it, and the loop is somewhere.
SupervisedInv == B!BridgeIsSupervised /\ loop \in [step : Steps, pairing : BOOLEAN]

\* Where the loop goes on to is a place of it.
LEMMA LoopGoes ==
  ASSUME loop \in [step : Steps, pairing : BOOLEAN], NEW step \in Steps, B!Go(step)
  PROVE  loop' \in [step : Steps, pairing : BOOLEAN] /\ loop'.step = step
  BY DEF B!Go

\* Only Spawn starts a bridge, and it has none running when the loop is there.
LEMMA SupervisedNext ==
  ASSUME SupervisedInv, [B!Next]_(B!vars)
  PROVE  SupervisedInv'
  <1> USE DEF SupervisedInv, B!BridgeIsSupervised, B!At
  <1>1. CASE B!Look
    <2>1. loop'.step \in {"binary", "idle"} /\ loop'.pairing \in BOOLEAN
          /\ loop' = [step |-> loop'.step, pairing |-> loop'.pairing]
      BY <1>1 DEF B!Look
    <2>2. loop' \in [step : Steps, pairing : BOOLEAN]
      BY <2>1 DEF Steps
    <2>3. child = "none" /\ child' = child
      BY <1>1 DEF B!Look
    <2>4. QED
      BY <2>2, <2>3
  <1>2. CASE B!Sleep
    <2>1. "top" \in Steps /\ B!Go("top") /\ child = "none" /\ child' = child
      BY <1>2 DEF B!Sleep, Steps
    <2>2. QED
      BY <2>1, LoopGoes
  <1>3. CASE B!Ensure
    <2>1. child = "none" /\ child' = child
      BY <1>3 DEF B!Ensure
    <2>2. loop' \in [step : Steps, pairing : BOOLEAN]
      <3>1. B!Go("spawn") \/ B!Go("nobinary")
        BY <1>3 DEF B!Ensure
      <3>2. {"spawn", "nobinary"} \subseteq Steps
        BY DEF Steps
      <3>3. QED
        BY <3>1, <3>2, LoopGoes
    <2>3. QED
      BY <2>1, <2>2
  <1>4. CASE B!Spawn
    <2>1. "wait" \in Steps /\ B!Go("wait")
      BY <1>4 DEF B!Spawn, Steps
    <2>2. QED
      BY <2>1, LoopGoes
  <1>5. CASE B!Exited
    <2>1. child = "none" /\ child' = child /\ (B!Go("restart") \/ B!Go("top"))
      BY <1>5 DEF B!Exited
    <2>2. {"restart", "top"} \subseteq Steps
      BY DEF Steps
    <2>3. QED
      BY <2>1, <2>2, LoopGoes
  <1>6. CASE B!Terminate
    <2>1. "ended" \in Steps /\ B!Go("ended") /\ child' = "none"
      BY <1>6 DEF B!Terminate, Steps
    <2>2. QED
      BY <2>1, LoopGoes
  <1>7. CASE B!Cancel
    <2>1. {"terminate", "ended"} \subseteq Steps /\ child' = child
      BY <1>7 DEF B!Cancel, Steps
    <2>2. CASE B!At("wait")
      <3>1. B!Go("terminate")
        BY <1>7, <2>2 DEF B!Cancel
      <3>2. QED
        BY <2>1, <3>1, LoopGoes
    <2>3. CASE ~B!At("wait")
      <3>1. B!Go("ended") /\ child = "none"
        BY <1>7, <2>3 DEF B!Cancel
      <3>2. QED
        BY <2>1, <3>1, LoopGoes
    <2>4. QED
      BY <2>2, <2>3
  <1>8. CASE B!Click \/ B!Request \/ B!ShowCode
    BY <1>8 DEF B!Click, B!Request, B!ShowCode
  <1>9. CASE B!Pairs \/ B!BridgeExits
    <2>1. loop' = loop /\ child # "none"
      BY <1>9 DEF B!Pairs, B!BridgeExits
    <2>2. QED
      BY <2>1
  <1>10. CASE UNCHANGED B!vars
    BY <1>10 DEF B!vars
  <1>11. QED
    BY <1>1, <1>2, <1>3, <1>4, <1>5, <1>6, <1>7, <1>8, <1>9, <1>10 DEF B!Next, B!Run

\* Whenever Pair is pressed, a bridge exits or the process shuts down, there is no
\* bridge that the supervisor does not wait for (sidecar.py:66-73).
THEOREM NeverOrphaned == B!Spec => []B!BridgeIsSupervised
  <1>1. B!Init => SupervisedInv
    BY DEF B!Init, SupervisedInv, B!BridgeIsSupervised, Steps
  <1>2. SupervisedInv => B!BridgeIsSupervised
    BY DEF SupervisedInv
  <1>3. QED
    BY <1>1, <1>2, SupervisedNext, PTL DEF B!Spec
=============================================================================
