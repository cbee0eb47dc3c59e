----------------------------- MODULE ItemStages -----------------------------
(***************************************************************************)
(* What happens to an archived item (core/database.py): its media is       *)
(* downloaded, it is sent to Telegram, captioned and indexed, and its      *)
(* files are deleted (core/jobs.py, core/caption.py, core/embed.py,        *)
(* core/telegram_client.py).                                               *)
(*                                                                         *)
(* A runner executes one job of a platform after the other.  A job reads   *)
(* the rows it will work on once; every row it writes is a statement and a *)
(* commit of its own; the process may die between any two of them.  The    *)
(* coroutines a job gathers work on different items and are taken one      *)
(* after the other.                                                        *)
(***************************************************************************)
EXTENDS Integers, FiniteSets

CONSTANTS
  Item,         \* items of one platform, in one category with a chat
  Shape,        \* the shapes in which the platform's items arrive
  Runner,       \* a queue worker, and people who run a job from the shell
  Jobs,         \* Jobs[r]: the jobs runner r executes
  Again,        \* statuses a run may be asked to take up again
  Captioning,   \* config.CAPTIONING_ENABLED
  Embedding,    \* config.EMBEDDING_ENABLED
  MaxAttempts,  \* config.CAPTION_MAX_ATTEMPTS
  MaxSends,     \* send_media's max_retries
  CallSize,     \* bound: targets of one captioning call
  Errors,       \* whether a captioning call may raise
  MaxCrashes,   \* bound: runs cut short
  MaxShown,     \* bound: times Telegram shows one item
  None

Job == {"archive", "upload", "caption", "embed"}

Shapes == {"text", "media", "removed", "tombstone", "igtv", "linked", "lost"}

ASSUME ConstantsAssumption ==
  /\ Shape \subseteq Shapes
  /\ Jobs \in [Runner -> SUBSET Job] /\ Again \subseteq {"failed", "refused"}
  /\ Captioning \in BOOLEAN /\ Embedding \in BOOLEAN /\ Errors \in BOOLEAN
  /\ MaxAttempts \in Nat \ {0} /\ MaxSends \in Nat \ {0} /\ CallSize \in Nat \ {0}
  /\ MaxCrashes \in Nat /\ MaxShown \in Nat

VARIABLES
  row,      \* table items: the columns the stages read and write
  disk,     \* items whose files are in the downloads folder
  indexed,  \* items in the vector index
  sent,     \* ghost: what Telegram delivered of an item
  run,      \* per runner: the job it executes and its locals
  crashes

vars == <<row, disk, indexed, sent, run, crashes>>

-----------------------------------------------------------------------------
(* Rows                                                                    *)

\* none: no media.  urls: media that stored urls restore.  local: media that
\* only the file linked at insert holds (WhatsApp).
Media == {"none", "urls", "local"}

Row == [archive : {"absent", "pending", "archived", "tombstone", "skipped", "failed"},
        upload : {"pending", "done", "skipped", "failed"},
        caption : {"pending", "done", "failed", "refused", "unavailable", "exhausted"},
        embed : {"pending", "done", "skipped", "failed"},
        tries : Nat,       \* caption_attempts
        paths : BOOLEAN,   \* local_paths IS NOT NULL
        media : Media,     \* has_media and media_urls
        gone : BOOLEAN]    \* the text is a removal notice

New(archive, media) ==
  [archive |-> archive, upload |-> "pending", caption |-> "pending", embed |-> "pending",
   tries |-> 0, paths |-> FALSE, media |-> media, gone |-> FALSE]

\* mutant: a tombstone's caption is skipped like its other stages.
ArrivalSkipped(shape) ==
  CASE shape = "text"      -> New("archived", "none")
    [] shape = "media"     -> New("pending", "urls")
    [] shape = "removed"   -> [New("archived", "none") EXCEPT !.gone = TRUE]
    [] shape = "tombstone" -> [New("tombstone", "none") EXCEPT !.gone = TRUE, !.upload = "skipped",
                                 !.caption = "skipped", !.embed = "skipped"]
    [] shape = "igtv"      -> [New("skipped", "urls") EXCEPT !.upload = "skipped", !.embed = "skipped"]
    [] shape = "linked"    -> [New("archived", "local") EXCEPT !.paths = TRUE]
    [] shape = "lost"      -> New("archived", "local")

\* The rows to_item makes: a text, a post with media, a post a moderator removed,
\* a refused tweet, IGTV, and a WhatsApp message with its file linked or lost.
Arrival(shape) ==
  CASE shape = "text"      -> New("archived", "none")
    [] shape = "media"     -> New("pending", "urls")
    [] shape = "removed"   -> [New("archived", "none") EXCEPT !.gone = TRUE]
    [] shape = "tombstone" -> [New("tombstone", "none") EXCEPT !.gone = TRUE, !.upload = "skipped",
                                 !.caption = "unavailable", !.embed = "skipped"]
    [] shape = "igtv"      -> [New("skipped", "urls") EXCEPT !.upload = "skipped", !.embed = "skipped"]
    [] shape = "linked"    -> [New("archived", "local") EXCEPT !.paths = TRUE]
    [] shape = "lost"      -> New("archived", "local")

\* What a job holds of a row it has read.
Snapshot == [id : Item, paths : BOOLEAN, media : Media]
Read(i) == [id |-> i, paths |-> row[i].paths, media |-> row[i].media]

-----------------------------------------------------------------------------
(* Runs                                                                    *)

Pc == {"idle", "walk", "refreshed", "select", "next", "ensure", "fetched", "send", "sent",
       "batch", "collect", "have", "describe", "apply", "crash", "insert", "inserted",
       "tidy", "clean", "unlinked"}

Idle == [job |-> None, pc |-> "idle", again |-> {}, todo |-> {}, item |-> None, n |-> 0,
         call |-> {}, left |-> {}, usable |-> {}, outcome |-> None]

Run == [job : Job \cup {None}, pc : Pc, again : SUBSET Again, todo : SUBSET Snapshot,
        item : Snapshot \cup {None}, n : Nat, call : SUBSET Snapshot, left : SUBSET Snapshot,
        usable : SUBSET Snapshot, outcome : {"success", "refused", "failed", None}]

\* The item in a run's hands.
Hand(r) == run[r].item.id

\* A run that goes on at pc with nothing else changed.
Goes(r, pc) == run' = [run EXCEPT ![r].pc = pc]

\* A run that has settled the item in its hands.
Settled(r, pc) == run' = [run EXCEPT ![r].pc = pc, ![r].item = None, ![r].n = 0]

Init ==
  /\ row = [i \in Item |-> New("absent", "none")]
  /\ disk = {} /\ indexed = {}
  /\ sent = [i \in Item |-> [times |-> 0, doubts |-> 0, media |-> FALSE]]
  /\ run = [r \in Runner |-> Idle]
  /\ crashes = 0

Begin(r, job, again) ==
  /\ run[r].pc = "idle" /\ job \in Jobs[r]
  /\ run' = [run EXCEPT ![r] = [Idle EXCEPT !.job = job, !.again = again,
       !.pc = IF job = "archive" THEN "walk" ELSE "select"]]
  /\ UNCHANGED <<row, disk, indexed, sent, crashes>>

\* The process dies or the job raises; a message already sent is not recorded.
Crash(r) ==
  /\ run[r].pc # "idle"
  /\ crashes < MaxCrashes
  /\ crashes' = crashes + 1
  /\ run' = [run EXCEPT ![r] = Idle]
  /\ sent' = IF run[r].pc = "sent" THEN [sent EXCEPT ![Hand(r)].doubts = @ + 1] ELSE sent
  /\ UNCHANGED <<row, disk, indexed>>

-----------------------------------------------------------------------------
(* Writes to a row                                                         *)

MarkArchived(i, paths) == row' = [row EXCEPT ![i].archive = "archived", ![i].paths = paths]

MarkArchiveFailed(i) == row' = [row EXCEPT ![i].archive = "failed"]

MarkUploaded(i) == row' = [row EXCEPT ![i].upload = "done"]

MarkUploadFailed(i) == row' = [row EXCEPT ![i].upload = "failed"]

MarkCaptioned(i) == row' = [row EXCEPT ![i].caption = "done"]

\* mutant: the last attempt is off by one.
MarkCaptionFailedLate(i) ==
  row' = [row EXCEPT ![i].tries = @ + 1,
    ![i].caption = IF row[i].tries >= MaxAttempts THEN "exhausted" ELSE "failed"]

\* Each failure spends an attempt, and the last one retires the item.
MarkCaptionFailed(i) ==
  row' = [row EXCEPT ![i].tries = @ + 1,
    ![i].caption = IF row[i].tries + 1 >= MaxAttempts THEN "exhausted" ELSE "failed"]

MarkCaptionRefused(i) == row' = [row EXCEPT ![i].caption = "refused"]

MarkEmbedded(i) == row' = [row EXCEPT ![i].embed = "done"]

MarkEmbedFailed(i) == row' = [row EXCEPT ![i].embed = "failed"]

-----------------------------------------------------------------------------
(* What an archive or source run does to rows before it downloads          *)

Walking(r) == run[r].job = "archive" /\ run[r].pc = "walk"

\* insert and insert_many: OR IGNORE.  WhatsApp's files are linked first.
Record(r, i, shape) ==
  /\ Walking(r)
  /\ row[i].archive = "absent"
  /\ row' = [row EXCEPT ![i] = Arrival(shape)]
  /\ disk' = IF shape = "linked" THEN disk \cup {i} ELSE disk
  /\ UNCHANGED <<indexed, sent, run, crashes>>

\* replace_tombstone: a refused tweet that resolves is a new row.
ReplaceTombstone(r, i, media) ==
  /\ Walking(r) /\ "failed" \in run[r].again
  /\ row[i].archive = "tombstone"
  /\ row' = [row EXCEPT ![i] = New(IF media = "none" THEN "archived" ELSE "pending", media)]
  /\ UNCHANGED <<disk, indexed, sent, run, crashes>>

\* mutant: a restored row is uploaded again.
RestoreUploads(r, i, media) ==
  /\ Walking(r)
  /\ row[i].archive # "absent" /\ row[i].gone
  /\ row' = [row EXCEPT ![i] = [row[i] EXCEPT
       !.gone = FALSE, !.media = media, !.upload = "pending",
       !.archive = IF media # "none" /\ ~row[i].paths THEN "pending" ELSE "archived",
       !.caption = IF @ = "unavailable" THEN "pending" ELSE @,
       !.embed = "pending"]]
  /\ UNCHANGED <<disk, indexed, sent, run, crashes>>

\* restore_content, from a source that still has the text.
Restore(r, i, media) ==
  /\ Walking(r)
  /\ row[i].archive # "absent" /\ row[i].gone
  /\ row' = [row EXCEPT ![i] = [row[i] EXCEPT
       !.gone = FALSE, !.media = media,
       !.archive = IF media # "none" /\ ~row[i].paths THEN "pending"
                   ELSE IF @ = "tombstone" THEN "archived" ELSE @,
       !.upload = IF @ = "skipped" THEN "pending" ELSE @,
       !.caption = IF @ = "unavailable" THEN "pending" ELSE @,
       !.embed = "pending"]]
  /\ UNCHANGED <<disk, indexed, sent, run, crashes>>

\* refresh_media for a failed download: the tweet has lost its media.  Where it
\* still has some only the urls change, and where the row already says none the
\* UPDATE matches nothing and the loop goes on.
RefreshMedia(r, i) ==
  /\ Walking(r) /\ "failed" \in run[r].again
  /\ row[i].archive = "failed" /\ row[i].media = "urls"
  /\ row' = [row EXCEPT ![i].media = "none"]
  /\ run' = [run EXCEPT ![r].pc = "refreshed", ![r].item = Read(i)]
  /\ UNCHANGED <<disk, indexed, sent, crashes>>

\* The second statement: nothing is left to download.
RefreshSettles(r) ==
  /\ run[r].pc = "refreshed"
  /\ MarkArchived(Hand(r), FALSE)
  /\ Settled(r, "walk")
  /\ UNCHANGED <<disk, indexed, sent, crashes>>

WalkEnds(r) ==
  /\ Walking(r)
  /\ Goes(r, "select")
  /\ UNCHANGED <<row, disk, indexed, sent, crashes>>

-----------------------------------------------------------------------------
(* The rows a job reads, and the media of the item in its hands            *)

\* mutant: indexing does not wait for captioning.
PendingUncaptioned(i, job, again) ==
  CASE job = "archive" -> row[i].archive \in {"pending"} \cup (again \cap {"failed"})
    [] job = "upload"  -> /\ row[i].archive = "archived"
                          /\ row[i].upload \in {"pending"} \cup (again \cap {"failed"})
    [] job = "caption" -> /\ row[i].archive = "archived"
                          /\ row[i].caption \in {"pending"} \cup again
                          /\ row[i].tries < MaxAttempts
    [] job = "embed"   -> /\ row[i].archive = "archived"
                          /\ row[i].embed \in {"pending"} \cup (again \cap {"failed"})

Pending(i, job, again) ==
  CASE job = "archive" -> row[i].archive \in {"pending"} \cup (again \cap {"failed"})
    [] job = "upload"  -> /\ row[i].archive = "archived"
                          /\ row[i].upload \in {"pending"} \cup (again \cap {"failed"})
    [] job = "caption" -> /\ row[i].archive = "archived"
                          /\ row[i].caption \in {"pending"} \cup again
                          /\ row[i].tries < MaxAttempts
    [] job = "embed"   -> /\ row[i].archive = "archived" /\ row[i].caption = "done"
                          /\ row[i].embed \in {"pending"} \cup (again \cap {"failed"})

Select(r) ==
  /\ run[r].pc = "select"
  /\ run' = [run EXCEPT
       ![r].todo = {Read(i) : i \in {j \in Item : Pending(j, run[r].job, run[r].again)}},
       ![r].pc = IF run[r].job = "caption" THEN "batch" ELSE "next"]
  /\ UNCHANGED <<row, disk, indexed, sent, crashes>>

Take(r) ==
  /\ run[r].pc = "next"
  /\ \E s \in run[r].todo :
       run' = [run EXCEPT ![r].todo = @ \ {s}, ![r].item = s, ![r].n = 1,
                          ![r].pc = IF run[r].job = "embed" THEN "insert" ELSE "ensure"]
  /\ UNCHANGED <<row, disk, indexed, sent, crashes>>

Drained(r) ==
  /\ run[r].pc = "next" /\ run[r].todo = {}
  /\ run' = IF run[r].job = "archive" THEN [run EXCEPT ![r] = Idle]
            ELSE [run EXCEPT ![r].pc = "tidy"]
  /\ UNCHANGED <<row, disk, indexed, sent, crashes>>

\* ensure_media returned: files on disk, or none because the item has no media.
WithMedia(r, files) ==
  run' = [run EXCEPT ![r].item = IF run[r].job = "archive" THEN None ELSE [@ EXCEPT !.paths = files],
    ![r].pc = CASE run[r].job = "archive" -> "next"
                [] run[r].job = "upload"  -> "send"
                [] run[r].job = "caption" -> "have"]

\* ensure_media has nothing to do.  WhatsApp's captioning takes what is there.
EnsureReturns(r) ==
  /\ run[r].pc = "ensure"
  /\ LET s == run[r].item IN
       \/ s.paths /\ s.id \in disk /\ WithMedia(r, TRUE)
       \/ ~(s.paths /\ s.id \in disk) /\ s.media = "none" /\ WithMedia(r, FALSE)
       \/ /\ ~(s.paths /\ s.id \in disk) /\ s.media = "local" /\ run[r].job = "caption"
          /\ WithMedia(r, FALSE)
  /\ UNCHANGED <<row, disk, indexed, sent, crashes>>

EnsureFetches(r) ==
  /\ run[r].pc = "ensure"
  /\ ~(run[r].item.paths /\ Hand(r) \in disk) /\ run[r].item.media = "urls"
  /\ disk' = disk \cup {Hand(r)}
  /\ Goes(r, "fetched")
  /\ UNCHANGED <<row, indexed, sent, crashes>>

EnsureMarks(r) ==
  /\ run[r].pc = "fetched"
  /\ MarkArchived(Hand(r), TRUE)
  /\ WithMedia(r, TRUE)
  /\ UNCHANGED <<disk, indexed, sent, crashes>>

\* mutant: a failed download is not recorded.
EnsureGivesUp(r) ==
  /\ run[r].pc = "ensure"
  /\ ~(run[r].item.paths /\ Hand(r) \in disk)
  /\ run[r].item.media = "urls" \/ (run[r].item.media = "local" /\ run[r].job # "caption")
  /\ Settled(r, IF run[r].job = "caption" THEN "collect" ELSE "next")
  /\ UNCHANGED <<row, disk, indexed, sent, crashes>>

\* The urls no longer answer, or there are none; the caller records it.
EnsureRaises(r) ==
  /\ run[r].pc = "ensure"
  /\ ~(run[r].item.paths /\ Hand(r) \in disk)
  /\ \/ run[r].item.media = "urls"
     \/ run[r].item.media = "local" /\ run[r].job # "caption"
  /\ \/ run[r].job = "archive" /\ MarkArchiveFailed(Hand(r)) /\ Settled(r, "next")
     \/ run[r].job = "upload" /\ MarkUploadFailed(Hand(r)) /\ Settled(r, "next")
     \/ run[r].job = "caption" /\ MarkCaptionFailed(Hand(r)) /\ Settled(r, "collect")
  /\ UNCHANGED <<disk, indexed, sent, crashes>>

-----------------------------------------------------------------------------
(* Upload                                                                  *)

\* Telegram shows the item, with its files if the send carries any.
Delivered(r, doubt) ==
  /\ sent[Hand(r)].times < MaxShown
  /\ sent' = [sent EXCEPT ![Hand(r)].times = @ + 1,
       ![Hand(r)].doubts = IF doubt THEN @ + 1 ELSE @,
       ![Hand(r)].media = @ \/ run[r].item.paths]

\* The files of a send that carries files are there to be read.
Readable(r) == run[r].item.paths => Hand(r) \in disk

Send(r) ==
  /\ run[r].pc = "send" /\ Readable(r)
  /\ Delivered(r, FALSE)
  /\ Goes(r, "sent")
  /\ UNCHANGED <<row, disk, indexed, crashes>>

\* mutant: an attempt starts from the media again and is not counted.
SendOver(r) ==
  /\ run[r].pc = "send" /\ Readable(r)
  /\ Delivered(r, TRUE) \/ UNCHANGED sent
  /\ Goes(r, "ensure")
  /\ UNCHANGED <<row, disk, indexed, crashes>>

\* A timeout or flood control, before or after something was delivered, and
\* attempts are left.
SendAgain(r) ==
  /\ run[r].pc = "send" /\ Readable(r)
  /\ run[r].n < MaxSends
  /\ Delivered(r, TRUE) \/ UNCHANGED sent
  /\ run' = [run EXCEPT ![r].n = @ + 1]
  /\ UNCHANGED <<row, disk, indexed, crashes>>

\* Any other error, the last timeout, or a file that is not there.
SendFails(r) ==
  /\ run[r].pc = "send"
  /\ (Readable(r) /\ Delivered(r, TRUE)) \/ UNCHANGED sent
  /\ MarkUploadFailed(Hand(r))
  /\ Settled(r, "next")
  /\ UNCHANGED <<disk, indexed, crashes>>

\* Flood control to the last attempt ends the run and leaves the item pending.
SendFlooded(r) ==
  /\ run[r].pc = "send" /\ Readable(r)
  /\ run[r].n = MaxSends
  /\ Delivered(r, TRUE) \/ UNCHANGED sent
  /\ run' = [run EXCEPT ![r] = [Idle EXCEPT !.job = "upload", !.pc = "tidy"]]
  /\ UNCHANGED <<row, disk, indexed, crashes>>

\* mutant: what was sent is not recorded.
UploadForgets(r) ==
  /\ run[r].pc = "sent"
  /\ Settled(r, "next")
  /\ UNCHANGED <<row, disk, indexed, sent, crashes>>

UploadMarks(r) ==
  /\ run[r].pc = "sent"
  /\ MarkUploaded(Hand(r))
  /\ Settled(r, "next")
  /\ UNCHANGED <<disk, indexed, sent, crashes>>

-----------------------------------------------------------------------------
(* Caption                                                                 *)

\* Members without media are captioned without a call.
CaptionText(r) ==
  /\ run[r].pc = "batch"
  /\ \E s \in run[r].todo :
       /\ s.media = "none"
       /\ MarkCaptioned(s.id)
       /\ run' = [run EXCEPT ![r].todo = @ \ {s}]
  /\ UNCHANGED <<disk, indexed, sent, crashes>>

\* _plan_calls: each target in one call, `todo` being what is left for it.
PlanCall(r) ==
  /\ run[r].pc = "batch"
  /\ \A s \in run[r].todo : s.media # "none"
  /\ \E c \in SUBSET run[r].todo :
       /\ c # {} /\ Cardinality(c) <= CallSize
       /\ run' = [run EXCEPT ![r].todo = @ \ c, ![r].call = c, ![r].left = c, ![r].usable = {},
                             ![r].pc = "collect"]
  /\ UNCHANGED <<row, disk, indexed, sent, crashes>>

BatchEnds(r) ==
  /\ run[r].pc = "batch" /\ run[r].todo = {}
  /\ Goes(r, "tidy")
  /\ UNCHANGED <<row, disk, indexed, sent, crashes>>

\* _collect_media turns to the next target, or to the call itself.
Collect(r) ==
  /\ run[r].pc = "collect"
  /\ \/ \E s \in run[r].left :
          run' = [run EXCEPT ![r].left = @ \ {s}, ![r].item = s, ![r].pc = "ensure"]
     \/ /\ run[r].left = {}
        /\ run' = [run EXCEPT ![r].pc = IF run[r].usable = {} THEN "batch" ELSE "describe"]
  /\ UNCHANGED <<row, disk, indexed, sent, crashes>>

\* The target has files the model can be sent.
CollectUsable(r) ==
  /\ run[r].pc = "have"
  /\ run[r].item.paths /\ Hand(r) \in disk
  /\ run' = [run EXCEPT ![r].usable = @ \cup {run[r].item}, ![r].item = None, ![r].n = 0,
                        ![r].pc = "collect"]
  /\ UNCHANGED <<row, disk, indexed, sent, crashes>>

\* mutant: a target whose media cannot be sent is passed over.
CollectSkips(r) ==
  /\ run[r].pc = "have"
  /\ run[r].item.paths => Hand(r) \in disk
  /\ Settled(r, "collect")
  /\ UNCHANGED <<row, disk, indexed, sent, crashes>>

\* Its media is gone, unsupported or too large: captioned on its text alone.
CollectUnusable(r) ==
  /\ run[r].pc = "have"
  /\ run[r].item.paths => Hand(r) \in disk
  /\ MarkCaptioned(Hand(r))
  /\ Settled(r, "collect")
  /\ UNCHANGED <<disk, indexed, sent, crashes>>

\* The call raises: a file that went away under stat, a trace or a mark that
\* could not be written, anything unexpected.
CallRaises(r) ==
  /\ Errors
  /\ run[r].pc \in {"have", "describe"} \/ (run[r].pc = "apply" /\ run[r].left # {})
  /\ run' = [run EXCEPT ![r].pc = "crash", ![r].item = None, ![r].n = 0, ![r].left = run[r].call]
  /\ UNCHANGED <<row, disk, indexed, sent, crashes>>

\* mutant: the targets of a call that raised are left as they are.
CrashMarksNone(r) ==
  /\ run[r].pc = "crash"
  /\ Goes(r, "batch")
  /\ UNCHANGED <<row, disk, indexed, sent, crashes>>

\* Every target of the call is failed, whatever the call had settled of it.
CrashMarks(r) ==
  /\ run[r].pc = "crash"
  /\ \/ \E s \in run[r].left :
          /\ MarkCaptionFailed(s.id)
          /\ run' = [run EXCEPT ![r].left = @ \ {s}]
     \/ /\ run[r].left = {} /\ UNCHANGED row
        /\ Goes(r, "batch")
  /\ UNCHANGED <<disk, indexed, sent, crashes>>

\* describe_thread and the trace of it.
Describe(r) ==
  /\ run[r].pc = "describe"
  /\ \E outcome \in {"success", "refused", "failed"} :
       run' = [run EXCEPT ![r].outcome = outcome, ![r].left = run[r].usable, ![r].pc = "apply"]
  /\ UNCHANGED <<row, disk, indexed, sent, crashes>>

Apply(r) ==
  /\ run[r].pc = "apply"
  /\ \/ \E s \in run[r].left :
          /\ \/ run[r].outcome = "success" /\ MarkCaptioned(s.id)
             \/ run[r].outcome = "refused" /\ MarkCaptionRefused(s.id)
             \/ run[r].outcome = "failed" /\ MarkCaptionFailed(s.id)
          /\ run' = [run EXCEPT ![r].left = @ \ {s}]
     \/ /\ run[r].left = {} /\ UNCHANGED row
        /\ Goes(r, "batch")
  /\ UNCHANGED <<disk, indexed, sent, crashes>>

-----------------------------------------------------------------------------
(* Embed                                                                   *)

\* The embedding server raises.
EmbedRaises(r) ==
  /\ run[r].pc = "insert"
  /\ MarkEmbedFailed(Hand(r))
  /\ Settled(r, "next")
  /\ UNCHANGED <<disk, indexed, sent, crashes>>

\* insert_embedding upserts, or logs what the index raised and returns False;
\* nobody looks at the answer.
EmbedInserts(r) ==
  /\ run[r].pc = "insert"
  /\ indexed' \in {indexed, indexed \cup {Hand(r)}}
  /\ Goes(r, "inserted")
  /\ UNCHANGED <<row, disk, sent, crashes>>

EmbedMarks(r) ==
  /\ run[r].pc = "inserted"
  /\ MarkEmbedded(Hand(r))
  /\ Settled(r, "next")
  /\ UNCHANGED <<disk, indexed, sent, crashes>>

-----------------------------------------------------------------------------
(* cleanup_downloads, the end of every upload, caption and embed run       *)

\* mutant: an upload that failed is taken for done.
CleanableFailed(i) ==
  /\ row[i].paths
  /\ row[i].upload \in {"done", "skipped", "failed"}
  /\ Captioning => row[i].caption \in {"done", "skipped"}
  /\ Embedding => row[i].embed \in {"done", "skipped"}

Cleanable(i) ==
  /\ row[i].paths
  /\ row[i].upload \in {"done", "skipped"}
  /\ Captioning => row[i].caption \in {"done", "skipped"}
  /\ Embedding => row[i].embed \in {"done", "skipped"}

Tidy(r) ==
  /\ run[r].pc = "tidy"
  /\ run' = [run EXCEPT ![r].todo = {Read(i) : i \in {j \in Item : Cleanable(j)}}, ![r].pc = "clean"]
  /\ UNCHANGED <<row, disk, indexed, sent, crashes>>

Unlink(r) ==
  /\ run[r].pc = "clean"
  /\ \E s \in run[r].todo :
       /\ disk' = disk \ {s.id}
       /\ run' = [run EXCEPT ![r].todo = @ \ {s}, ![r].item = s, ![r].pc = "unlinked"]
  /\ UNCHANGED <<row, indexed, sent, crashes>>

ClearPaths(r) ==
  /\ run[r].pc = "unlinked"
  /\ row' = [row EXCEPT ![Hand(r)].paths = FALSE]
  /\ Settled(r, "clean")
  /\ UNCHANGED <<disk, indexed, sent, crashes>>

CleanEnds(r) ==
  /\ run[r].pc = "clean" /\ run[r].todo = {}
  /\ run' = [run EXCEPT ![r] = Idle]
  /\ UNCHANGED <<row, disk, indexed, sent, crashes>>

-----------------------------------------------------------------------------
Archive(r) ==
  \/ \E i \in Item :
       \/ \E shape \in Shape : Record(r, i, shape)
       \/ \E media \in {"none", "urls"} : ReplaceTombstone(r, i, media) \/ Restore(r, i, media)
       \/ RefreshMedia(r, i)

Ensure(r) == EnsureReturns(r) \/ EnsureFetches(r) \/ EnsureMarks(r) \/ EnsureRaises(r)

Upload(r) == Send(r) \/ SendAgain(r) \/ SendFails(r) \/ SendFlooded(r) \/ UploadMarks(r)

Caption(r) ==
  \/ CaptionText(r) \/ PlanCall(r) \/ BatchEnds(r)
  \/ Collect(r) \/ CollectUsable(r) \/ CollectUnusable(r)
  \/ CrashMarks(r) \/ Describe(r) \/ Apply(r)

Embed(r) == EmbedRaises(r) \/ EmbedInserts(r) \/ EmbedMarks(r)

Cleanup(r) == Tidy(r) \/ Unlink(r) \/ ClearPaths(r) \/ CleanEnds(r)

\* What a run does once it has begun, errors and the walk's findings aside.
Continue(r) ==
  \/ RefreshSettles(r) \/ WalkEnds(r) \/ Select(r) \/ Take(r) \/ Drained(r)
  \/ Ensure(r) \/ Upload(r) \/ Caption(r) \/ Embed(r) \/ Cleanup(r)

Next ==
  \E r \in Runner :
    \/ \E job \in Job, again \in SUBSET Again : Begin(r, job, again)
    \/ Crash(r) \/ CallRaises(r)
    \/ Archive(r)
    \/ Continue(r)

Spec == Init /\ [][Next]_vars

(***************************************************************************)
(* A run that has begun goes on: every wait in it has a timeout.  The      *)
(* queue executes each configured job again and again, once a cycle,       *)
(* whatever else it executes in between.                                   *)
(***************************************************************************)
FairSpec ==
  /\ Spec
  /\ \A r \in Runner : WF_vars(Continue(r))
  /\ \A r \in Runner : \A job \in Jobs[r] : SF_vars(\E again \in SUBSET Again : Begin(r, job, again))

-----------------------------------------------------------------------------
(* Properties                                                              *)

\* The columns, the files and the locals of a run keep to their shapes.
TypeOK ==
  /\ row \in [Item -> Row]
  /\ disk \subseteq Item /\ indexed \subseteq Item
  /\ sent \in [Item -> [times : 0 .. MaxShown, doubts : 0 .. MaxShown, media : BOOLEAN]]
  /\ run \in [Runner -> Run]
  /\ crashes \in 0 .. MaxCrashes

\* Files stay on disk until every enabled consumer is done with them
\* (cleanup_downloads), through crashes at any step: a row that names files has
\* them while it is still to be uploaded or captioned.
Wanted(i) ==
  \/ row[i].upload \in {"pending", "failed"}
  \/ Captioning /\ row[i].caption \in {"pending", "failed", "refused"}
FilesAreKept == \A i \in Item : row[i].paths /\ Wanted(i) => i \in disk

\* A row whose caption may still be asked for has attempts left, and one that
\* has none left says so: no row is retried forever and none is passed over in
\* silence (mark_caption_failed).
RetriableHasAttempts ==
  \A i \in Item :
    /\ row[i].caption \in {"pending", "failed", "refused"} => row[i].tries < MaxAttempts
    /\ row[i].caption = "exhausted" => row[i].tries >= MaxAttempts

\* Of each item, uploading implements a delivery that repeats itself only after a
\* doubt (a timeout, an error after a part was sent, a crash before the mark),
\* records only what was shown, and never shows again what is recorded, a restored
\* row included (restore_content).
Promise == INSTANCE Delivery WITH
  status <- [i \in Item |-> IF row[i].archive = "absent" \/ row[i].upload = "skipped" THEN "none"
                            ELSE row[i].upload],
  shown  <- [i \in Item |-> sent[i].times],
  doubts <- [i \in Item |-> sent[i].doubts]
DeliverySpec == Promise!Spec

\* No row says it is indexed that has no caption (pending_embed: "an item is never
\* embedded before it has a caption"), though a captioning call that raises fails
\* what it has captioned.
IndexedIsCaptioned == \A i \in Item : row[i].embed = "done" => row[i].caption = "done"

\* Jobs run "in any order, at any time" (cleanup_downloads): no run deletes the
\* files another is about to send or describe.
InUse(r) ==
  CASE run[r].pc \in {"send", "have"} -> IF run[r].item.paths THEN {Hand(r)} ELSE {}
    [] run[r].pc = "describe" -> {s.id : s \in run[r].usable}
    [] OTHER -> {}
UsedFilesExist == \A r \in Runner : InUse(r) \subseteq disk

\* An archived item's caption is settled one way or another ("a run always makes
\* progress"), unless a restore finds it media that then cannot be downloaded.
CaptionIsSettled ==
  \A i \in Item :
    row[i].archive = "archived" /\ row[i].caption = "pending"
      ~> row[i].archive # "archived" \/ row[i].caption # "pending"

\* A recorded item's media is downloaded or recorded as failed.
DownloadIsSettled == \A i \in Item : row[i].archive = "pending" ~> row[i].archive # "pending"

-----------------------------------------------------------------------------
(* What the code's own words claim and the code does not do                *)

\* "Each target is captioned in exactly one call and its status is unambiguous"
\* (caption.py): what a call has captioned is not failed after it.
CaptionedStaysCaptioned ==
  [][\A i \in Item : row[i].caption = "done" => row'[i].caption = "done"]_vars

\* "A captioned item is indexed exactly once" (embed.py).
EmbeddedIsIndexed == \A i \in Item : row[i].embed = "done" => i \in indexed

\* download_item "returns whether it landed" (jobs.py): when it finds nothing
\* left to fetch, the row says archived.
LandedIsArchived ==
  [][\A r \in Runner :
       run[r].job = "archive" /\ EnsureReturns(r) => row[Hand(r)].archive = "archived"]_vars

\* "A restore never costs anything" (database.py): an item that was archived and
\* uploaded does not become a failed one.
UploadedIsNotFailed == \A i \in Item : row[i].upload = "done" => row[i].archive # "failed"

\* "Delete local media once every enabled consumer is done with it" (jobs.py),
\* where upload is the only consumer: it has sent the files that are deleted.
DeletedWasSent ==
  [][\A i \in disk \ disk' : sent[i].media]_vars

\* The same sentence, for a caption that is "exhausted", which is "terminal"
\* (database.py): the files of an uploaded item do not stay for it.
ExhaustedIsFreed ==
  \A i \in Item :
    row[i].paths /\ row[i].upload = "done" /\ row[i].caption = "exhausted" ~> ~row[i].paths
=============================================================================
