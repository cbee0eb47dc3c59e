------------------------------- MODULE Mirror -------------------------------
(***************************************************************************)
(* The WhatsApp mirror (wabridge/sync.go, store.go, media.go): what live   *)
(* events and history payloads say is written to one table of messages,    *)
(* and a pool of workers downloads the media the table lists as pending.   *)
(*                                                                         *)
(* Live events are handled one after the other; history payloads are       *)
(* ingested beside them, one after the other among themselves; a feeder    *)
(* sweeps the table and hands files to workers.  Each statement on the     *)
(* table and each section under the pool's mutex is one step.              *)
(***************************************************************************)
EXTENDS Naturals, FiniteSets

CONSTANTS
  Msg,         \* messages, by chat and id
  Once,        \* those sent as view-once
  Worker,      \* mediaWorkers goroutines
  Errors,      \* whether a statement on the table may fail
  MaxEdits,    \* bound: edits of one message
  Revocable,   \* bound: messages somebody deletes
  Backfilled,  \* bound: messages that history payloads hold
  MaxCrashes,  \* bound: stops of the process, orderly or not
  None

Reader == {"live", "history"}

ASSUME ConstantsAssumption ==
  /\ {Once, Revocable, Backfilled} \subseteq SUBSET Msg /\ None \notin Msg
  /\ Errors \in BOOLEAN /\ MaxEdits \in Nat /\ MaxCrashes \in Nat

VARIABLES
  msg,       \* table messages
  files,     \* messages whose file is in the media folder
  phone,     \* ghost: what live events have told of a message
  reader,    \* the event loop and the history goroutine: what each has in hand
  feed,      \* Feed's locals
  wake,      \* the wake channel holds a token
  inflight,  \* files the pool has claimed
  failed,    \* files that wait for the next tick
  worker,    \* the workers' locals
  crashes

pool == <<feed, wake, inflight, failed, worker>>
vars == <<msg, files, phone, reader, pool, crashes>>

-----------------------------------------------------------------------------
(* Rows                                                                    *)

\* The envelope a row holds: its own or one recovered from a quote.  none is a
\* message without media, or one whose path history withholds (NULL in the row).
Media == {"none", "own", "quoted"}

Row == [there : BOOLEAN, text : 0 .. MaxEdits, revoked : BOOLEAN, media : Media,
        local : BOOLEAN,   \* local_path IS NOT NULL
        error : BOOLEAN]   \* media_error IS NOT NULL

Absent == [there |-> FALSE, text |-> 0, revoked |-> FALSE, media |-> "none",
           local |-> FALSE, error |-> FALSE]

New(text, media) == [there |-> TRUE, text |-> text, revoked |-> FALSE, media |-> media,
                     local |-> FALSE, error |-> FALSE]

HasPath(m) == msg[m].media # "none"

\* PendingMedia's condition.
Pending(m) == HasPath(m) /\ ~msg[m].local /\ ~msg[m].error

SetMediaResult(m, landed) ==
  msg' = [msg EXCEPT ![m] = [@ EXCEPT !.local = landed, !.error = ~landed]]

-----------------------------------------------------------------------------
Resting == [pc |-> "idle", id |-> None, text |-> 0, media |-> "none", quote |-> None]

Held == [pc : {"edit", "insert", "wake", "attach"}, id : Msg, text : 0 .. MaxEdits,
         media : {"none", "own"}, quote : Once \cup {None}]

InHand == {Resting} \cup {r \in Held : r.pc = "attach" => r.quote # None}

Feeder == [pc : {"sweep", "offer", "wait"}, todo : SUBSET Msg, job : Msg \cup {None},
           blind : BOOLEAN]  \* ghost: the last query failed

Sweeping == [pc |-> "sweep", todo |-> {}, job |-> None, blind |-> FALSE]

Free == [pc |-> "idle", job |-> None, failed |-> FALSE]

Downloader == {Free} \cup [pc : {"fetch", "stored", "release"}, job : Msg, failed : BOOLEAN]

Init ==
  /\ msg = [m \in Msg |-> Absent] /\ files = {}
  /\ phone = [m \in Msg |-> [text |-> 0, revoked |-> FALSE]]
  /\ reader = [h \in Reader |-> Resting]
  /\ feed = Sweeping /\ wake = FALSE /\ inflight = {} /\ failed = {}
  /\ worker = [w \in Worker |-> Free]
  /\ crashes = 0

\* The table and the folder survive; a sweep is the first thing Feed does.
Crash ==
  /\ crashes < MaxCrashes
  /\ crashes' = crashes + 1
  /\ reader' = [h \in Reader |-> Resting]
  /\ feed' = Sweeping /\ wake' = FALSE /\ inflight' = {} /\ failed' = {}
  /\ worker' = [w \in Worker |-> Free]
  /\ UNCHANGED <<msg, files, phone>>

-----------------------------------------------------------------------------
(* storeMessage                                                            *)

\* Reader h has a message in hand, which may quote a view-once it replies to.
Store(h, m, text) ==
  /\ reader[h].pc = "idle" /\ m \notin Once
  /\ \E media \in {"none", "own"}, quote \in Once \cup {None} :
       reader' = [reader EXCEPT ![h] =
         [pc |-> "insert", id |-> m, text |-> text, media |-> media, quote |-> quote]]
  /\ UNCHANGED <<msg, files, phone, pool, crashes>>

\* As it was sent; what is deleted is delivered no more.
Live(m) == ~phone[m].revoked /\ Store("live", m, 0)

\* A payload holds the message as it was when the payload was made.
History(m) == m \in Backfilled /\ \E text \in 0 .. phone[m].text : Store("history", m, text)

\* An edit may repeat the media it is the caption of, and the quote.
LiveEdit(m) ==
  /\ reader["live"].pc = "idle" /\ m \notin Once
  /\ phone[m].text < MaxEdits
  /\ phone' = [phone EXCEPT ![m].text = @ + 1]
  /\ \E media \in {"none", "own"}, quote \in Once \cup {None} :
       reader' = [reader EXCEPT !["live"] = [pc |-> "edit", id |-> m, text |-> phone[m].text + 1,
                                             media |-> media, quote |-> quote]]
  /\ UNCHANGED <<msg, files, pool, crashes>>

\* MarkRevoked keeps the content.
LiveRevoke(m) ==
  /\ reader["live"].pc = "idle" /\ m \in Revocable
  /\ phone' = [phone EXCEPT ![m].revoked = TRUE]
  /\ \/ msg[m].there /\ msg' = [msg EXCEPT ![m].revoked = TRUE]
     \/ (~msg[m].there \/ Errors) /\ UNCHANGED msg
  /\ UNCHANGED <<files, reader, pool, crashes>>

\* RecordStub: view-once content is withheld from linked devices.
LiveStub(m) ==
  /\ reader["live"].pc = "idle" /\ m \in Once
  /\ ~msg[m].there
  /\ msg' = [msg EXCEPT ![m] = New(0, "none")]
  /\ UNCHANGED <<files, phone, reader, pool, crashes>>

\* ApplyEdit: the target is updated, or is still to be inserted.
ApplyEdit(h) ==
  /\ reader[h].pc = "edit"
  /\ LET m == reader[h].id IN
       IF msg[m].there
       THEN /\ msg' = [msg EXCEPT ![m].text = reader[h].text]
            /\ reader' = [reader EXCEPT ![h] = Resting]
       ELSE /\ reader' = [reader EXCEPT ![h].pc = "insert"]
            /\ UNCHANGED msg
  /\ UNCHANGED <<files, phone, pool, crashes>>

\* What storeMessage goes on to once the row is written.
After(h) == IF reader[h].quote = None THEN Resting ELSE [reader[h] EXCEPT !.pc = "attach"]

\* mutant: a redelivery is merged into the row.
InsertMerges(h) ==
  /\ reader[h].pc = "insert"
  /\ LET m == reader[h].id IN
       /\ msg' = [msg EXCEPT ![m] = [New(reader[h].text, reader[h].media) EXCEPT !.revoked = msg[m].revoked]]
       /\ reader' = [reader EXCEPT ![h] =
            IF reader[h].media = "own" THEN [reader[h] EXCEPT !.pc = "wake"] ELSE After(h)]
  /\ UNCHANGED <<files, phone, pool, crashes>>

\* Insert drops what it has already.
Insert(h) ==
  /\ reader[h].pc = "insert"
  /\ LET m == reader[h].id IN
       IF msg[m].there
       THEN reader' = [reader EXCEPT ![h] = After(h)] /\ UNCHANGED msg
       ELSE /\ msg' = [msg EXCEPT ![m] = New(reader[h].text, reader[h].media)]
            /\ reader' = [reader EXCEPT ![h] =
                 IF reader[h].media = "own" THEN [reader[h] EXCEPT !.pc = "wake"] ELSE After(h)]
  /\ UNCHANGED <<files, phone, pool, crashes>>

\* AttachViewOnceMedia: a row without an envelope gets the quoted one.
Attach(h) ==
  /\ reader[h].pc = "attach"
  /\ LET q == reader[h].quote IN
       \/ ~msg[q].there /\ msg' = [msg EXCEPT ![q] = New(0, "quoted")]
       \/ /\ msg[q].there /\ ~HasPath(q)
          /\ msg' = [msg EXCEPT ![q] = [@ EXCEPT !.media = "quoted", !.error = FALSE]]
       \/ msg[q].there /\ HasPath(q) /\ UNCHANGED msg
  /\ reader' = [reader EXCEPT ![h] = [@ EXCEPT !.pc = "wake", !.quote = None]]
  /\ UNCHANGED <<files, phone, pool, crashes>>

\* mutant: only a feeder that waits is woken.
WakeIdle(h) ==
  /\ reader[h].pc = "wake"
  /\ wake' = (wake \/ feed.pc = "wait")
  /\ reader' = [reader EXCEPT ![h] = After(h)]
  /\ UNCHANGED <<msg, files, phone, feed, inflight, failed, worker, crashes>>

\* Wakes that arrive while one is pending collapse into it.
Wake(h) ==
  /\ reader[h].pc = "wake"
  /\ wake' = TRUE
  /\ reader' = [reader EXCEPT ![h] = After(h)]
  /\ UNCHANGED <<msg, files, phone, feed, inflight, failed, worker, crashes>>

\* A statement fails: it is logged and the message is let go.
StoreFails(h) ==
  /\ Errors
  /\ reader[h].pc \in {"edit", "insert", "attach"}
  /\ reader' = [reader EXCEPT ![h] = Resting]
  /\ UNCHANGED <<msg, files, phone, pool, crashes>>

-----------------------------------------------------------------------------
(* The media pool                                                          *)

\* sweep: PendingMedia is read once.
Query ==
  /\ feed.pc = "sweep"
  /\ feed' = [feed EXCEPT !.pc = "offer", !.todo = {m \in Msg : Pending(m)}, !.blind = FALSE]
  /\ UNCHANGED <<msg, files, phone, reader, wake, inflight, failed, worker, crashes>>

QueryFails ==
  /\ Errors
  /\ feed.pc = "sweep"
  /\ feed' = [feed EXCEPT !.pc = "wait", !.blind = TRUE]
  /\ UNCHANGED <<msg, files, phone, reader, wake, inflight, failed, worker, crashes>>

\* mutant: what is in flight is claimed again.
ClaimTwice(m) ==
  /\ feed.pc = "offer" /\ feed.job = None /\ m \in feed.todo
  /\ IF m \in failed
     THEN feed' = [feed EXCEPT !.todo = @ \ {m}] /\ UNCHANGED inflight
     ELSE /\ feed' = [feed EXCEPT !.todo = @ \ {m}, !.job = m]
          /\ inflight' = inflight \cup {m}
  /\ UNCHANGED <<msg, files, phone, reader, wake, failed, worker, crashes>>

\* claim: a file in flight or waiting for the tick is passed over.
Claim(m) ==
  /\ feed.pc = "offer" /\ feed.job = None /\ m \in feed.todo
  /\ IF m \in inflight \cup failed
     THEN feed' = [feed EXCEPT !.todo = @ \ {m}] /\ UNCHANGED inflight
     ELSE /\ feed' = [feed EXCEPT !.todo = @ \ {m}, !.job = m]
          /\ inflight' = inflight \cup {m}
  /\ UNCHANGED <<msg, files, phone, reader, wake, failed, worker, crashes>>

\* The feeder's send meets a worker's receive.
HandOver(w) ==
  /\ feed.pc = "offer" /\ feed.job # None
  /\ worker[w].pc = "idle"
  /\ worker' = [worker EXCEPT ![w] = [pc |-> "fetch", job |-> feed.job, failed |-> FALSE]]
  /\ feed' = [feed EXCEPT !.job = None]
  /\ UNCHANGED <<msg, files, phone, reader, wake, inflight, failed, crashes>>

SweepEnds ==
  /\ feed.pc = "offer" /\ feed.job = None /\ feed.todo = {}
  /\ feed' = [feed EXCEPT !.pc = "wait"]
  /\ UNCHANGED <<msg, files, phone, reader, wake, inflight, failed, worker, crashes>>

TakeWake ==
  /\ feed.pc = "wait" /\ wake
  /\ wake' = FALSE
  /\ feed' = [feed EXCEPT !.pc = "sweep"]
  /\ UNCHANGED <<msg, files, phone, reader, inflight, failed, worker, crashes>>

\* mutant: the files that failed stay barred.
TickKeeps ==
  /\ feed.pc = "wait"
  /\ feed' = [feed EXCEPT !.pc = "sweep"]
  /\ UNCHANGED <<msg, files, phone, reader, wake, inflight, failed, worker, crashes>>

\* The ticker: files that failed may be tried again.
Tick ==
  /\ feed.pc = "wait"
  /\ failed' = {}
  /\ feed' = [feed EXCEPT !.pc = "sweep"]
  /\ UNCHANGED <<msg, files, phone, reader, wake, inflight, worker, crashes>>

\* mutant: the result is recorded before the file is in its place.
RecordsFirst(w) ==
  /\ worker[w].pc = "fetch"
  /\ SetMediaResult(worker[w].job, TRUE)
  /\ worker' = [worker EXCEPT ![w].pc = "stored"]
  /\ UNCHANGED <<files, phone, reader, feed, wake, inflight, failed, crashes>>

\* The file is downloaded beside its place and renamed into it.
Lands(w) ==
  /\ worker[w].pc = "fetch"
  /\ files' = files \cup {worker[w].job}
  /\ worker' = [worker EXCEPT ![w].pc = "stored"]
  /\ UNCHANGED <<msg, phone, reader, feed, wake, inflight, failed, crashes>>

Records(w) ==
  /\ worker[w].pc = "stored"
  /\ SetMediaResult(worker[w].job, TRUE)
  /\ worker' = [worker EXCEPT ![w].pc = "release"]
  /\ UNCHANGED <<files, phone, reader, feed, wake, inflight, failed, crashes>>

\* The CDN no longer has it, or its type is none the bridge knows.
Expires(w) ==
  /\ worker[w].pc = "fetch"
  /\ SetMediaResult(worker[w].job, FALSE)
  /\ worker' = [worker EXCEPT ![w].pc = "release"]
  /\ UNCHANGED <<files, phone, reader, feed, wake, inflight, failed, crashes>>

\* The network, the folder or the table: tried again after the next tick.
DownloadFails(w) ==
  /\ worker[w].pc = "fetch" \/ (Errors /\ worker[w].pc = "stored")
  /\ worker' = [worker EXCEPT ![w] = [@ EXCEPT !.pc = "release", !.failed = TRUE]]
  /\ UNCHANGED <<msg, files, phone, reader, feed, wake, inflight, failed, crashes>>

Release(w) ==
  /\ worker[w].pc = "release"
  /\ inflight' = inflight \ {worker[w].job}
  /\ failed' = IF worker[w].failed THEN failed \cup {worker[w].job} ELSE failed
  /\ worker' = [worker EXCEPT ![w] = Free]
  /\ UNCHANGED <<msg, files, phone, reader, feed, wake, crashes>>

-----------------------------------------------------------------------------
Arrives(m) == Live(m) \/ History(m) \/ LiveEdit(m) \/ LiveRevoke(m) \/ LiveStub(m)

Reads(h) == ApplyEdit(h) \/ Insert(h) \/ Attach(h) \/ Wake(h)

Feed == Query \/ (\E m \in Msg : Claim(m)) \/ (\E w \in Worker : HandOver(w)) \/ SweepEnds \/ TakeWake

Works(w) == Lands(w) \/ Records(w) \/ Expires(w) \/ DownloadFails(w) \/ Release(w)

Next ==
  \/ \E m \in Msg : Arrives(m)
  \/ \E h \in Reader : Reads(h) \/ StoreFails(h)
  \/ Feed \/ QueryFails \/ Tick
  \/ \E w \in Worker : Works(w)
  \/ Crash

Spec == Init /\ [][Next]_vars

(***************************************************************************)
(* The goroutines run, the ticker ticks, a query does not fail for ever    *)
(* and neither does every download of a worker: each is tried without end  *)
(* and the network comes back.                                             *)
(***************************************************************************)
FairSpec ==
  /\ Spec
  /\ \A h \in Reader : WF_vars(Reads(h))
  /\ SF_vars(Query) /\ WF_vars(Feed) /\ SF_vars(Tick)
  /\ \A w \in Worker : SF_vars(Lands(w)) /\ WF_vars(Works(w)) /\ SF_vars(Records(w))
-----------------------------------------------------------------------------
(* Properties                                                              *)

\* The table, the pool's sets and the goroutines' locals keep to their shapes.
TypeOK ==
  /\ msg \in [Msg -> Row] /\ files \subseteq Msg
  /\ phone \in [Msg -> [text : 0 .. MaxEdits, revoked : BOOLEAN]]
  /\ reader \in [Reader -> InHand]
  /\ feed \in Feeder /\ wake \in BOOLEAN
  /\ inflight \subseteq Msg /\ failed \subseteq Msg
  /\ worker \in [Worker -> Downloader]
  /\ crashes \in 0 .. MaxCrashes

\* No file is downloaded by two workers at once, or offered while one downloads
\* it (claim and release), however many sweeps list it.
OneWorkerPerFile ==
  /\ \A w, v \in Worker : worker[w].job # None /\ worker[w].job = worker[v].job => w = v
  /\ feed.job # None => \A w \in Worker : worker[w].job # feed.job

\* A pending file is never forgotten ("waiting for a free one rather than dropping
\* it"): it is in flight, barred until the tick, listed by the sweep that runs, or
\* another sweep is sure to come, unless the last query failed and the tick is
\* awaited.  Wakes that collapse lose nothing.
Coming(m) ==
  \/ m \in inflight \cup failed \cup feed.todo
  \/ wake \/ feed.pc = "sweep" \/ feed.blind
  \/ \E h \in Reader : reader[h].pc = "wake"
NothingIsForgotten == \A m \in Msg : Pending(m) => Coming(m)

\* A row that names a file has it, through crashes between download, rename and
\* record.
HeldFilesExist == \A m \in Msg : msg[m].local => m \in files

\* History never takes an edit back, and a row keeps the first envelope it holds:
\* redeliveries are dropped, recoveries attach to rows without one.
RowsKeepWhatTheyHold ==
  [][\A m \in Msg :
       msg[m].there => /\ msg'[m].there /\ msg'[m].text >= msg[m].text
                       /\ msg[m].revoked => msg'[m].revoked
                       /\ HasPath(m) => msg'[m].media = msg[m].media]_vars

\* Every pending file is downloaded or recorded as expired, though downloads fail,
\* statements fail and the process restarts ("downloaded in full").
PendingIsSettled == \A m \in Msg : Pending(m) ~> ~Pending(m)

-----------------------------------------------------------------------------
(* What the code's own words claim and the code does not do                *)

\* "A sweep hands every pending file not already in flight to the workers"
\* (media.go): what a worker is handed is pending.
HandedIsPending == [][\A w \in Worker : HandOver(w) => Pending(feed.job)]_vars

\* "An edit of an unseen message inserts instead" (store.go): once both readers
\* rest, a stored row shows the last edit that was handled.
EditIsKept ==
  (\A h \in Reader : reader[h].pc = "idle") =>
    \A m \in Msg : msg[m].there => msg[m].text = phone[m].text

\* "The flag records that WhatsApp no longer shows the message" (store.go).
RevocationIsKept == \A m \in Msg : msg[m].there /\ phone[m].revoked => msg[m].revoked
=============================================================================
