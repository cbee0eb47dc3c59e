# Verification of Social Archiver

TLA+ specifications of the core logic of Social Archiver, the TLC configurations
that model-check them on small instances, and TLAPS proofs of the main properties
for every instance.

    tlc -workers 2 -config JobQueueWeb.cfg MCJobQueue.tla      # one run
    tlapm JobQueueProofs.tla                                   # the proofs of one module

`PROJECT.json` lists every run with its properties, the source lines each definition
stands for, and the hazards each property is aimed at.

1. [Inventory](#1-inventory)  2. [Plan](#2-plan)  3. [Modules and code](#3-modules-and-code)
4. [Runs](#4-runs)  5. [Fairness](#5-fairness)  6. [Proofs](#6-proofs)
7. [Disagreements with the code's own words](#7-disagreements)  8. [Not modelled](#8-not-modelled)

## 1. Inventory

Social Archiver mirrors what one person saved, liked, posted or received on
Instagram, Reddit, Twitter and WhatsApp.  One process (`social_archiver.api`)
serves a web UI and runs everything; `social_archiver.daemon` runs the same
workers without the UI, and platforms may be split over several daemons that
share `data/jobs.db`.  Paths below are under `src/social_archiver/`, except the
Go program `src/wabridge/`.

| Component | Code | State | Operations | Talks to |
|---|---|---|---|---|
| Job queue | `core/queue.py` | tables jobs, schedules, sources | connect, enqueue, claim, finish, cancel, set_schedule, add/remove/enable source | workers, scheduler and web handlers, on one connection per process |
| Workers, scheduler | `core/worker.py`, `daemon.py`, `api/__init__.py` | a task per platform, a scheduler per process | worker, scheduler, enqueue_cycle, running | queue; `platforms/*/service.py` |
| Web control | `api/control.py` | scan cache | run, cycle, schedule, sources, cancel | queue, sidecar |
| Item archive | `core/database.py` | tables items, cursors, searched_conversations, traces | insert, mark_*, pending_*, replace_tombstone, restore_content, cursors | every stage below |
| Schema migrations | `core/migrations.py` | `user_version`, the folder of copies | apply, backup, prune | every process that opens an archive |
| Stages | `core/jobs.py`, `core/caption.py`, `core/embed.py` | local files, an item's stage columns | download, upload, caption, index, cleanup | archive, Telegram, language model, Milvus |
| Telegram delivery | `core/telegram_client.py` | none | send_media, send_text, with retries | Bot API |
| Model clients | `llm/` | none | describe_media, describe_thread, with retries and turns | Vertex, Gemini, OpenRouter |
| Archive walks | `platforms/*/archiver.py`, `platforms/*/fetchers/` | resume cursors, known ids | sync newest first, backfill by cursor or export | platform APIs, archive |
| Source walks | `core/sources.py`, `platforms/*/sources.py` | the watermark | walk a tracked account or subreddit | platform APIs, archive |
| Expansion | `platforms/twitter/expander.py`, `platforms/reddit/expander.py` | a walk's tree and what it has asked | expand conversations, quotes, ancestors | platform clients |
| Platform clients | `platforms/twitter/client.py`, `platforms/reddit/client.py`, `platforms/instagram/client.py` | query ids, session | one request with its retries, and walks built of requests | platforms |
| Profiles | `core/profile_store.py`, `profile_refresh.py`, `profile_images.py` | tables of profiles, versions and images; image files | observe, refresh, download | archive, platform APIs |
| WhatsApp sidecar | `platforms/whatsapp/sidecar.py` | bridge subprocess, pairing state | run, pair_start, pair_state | wabridge |
| WhatsApp mirror | `wabridge/sync.go`, `store.go`, `media.go` | table messages, media folder, the pool's sets | live events, history ingest, sweep, download, revoke, edit | WhatsApp; `platforms/whatsapp/archiver.py` reads the table |
| Readers | `read/`, `mcp_server.py`, `api/content.py` | connections opened on first use | list, search, present | archives, Milvus |
| Sign-in and tokens | `core/auth.py`, `api/auth.py` | sessions, OAuth clients, codes, token pairs | login, authorise, exchange, rotate, revoke | web UI, MCP clients |
| Frontend, scripts | `frontend/`, `scripts/` | none | rendering | API |

**How they interact.**  The scheduler turns a due schedule into a cycle: jobs
(archive each category, walk each tracked source, profiles, then upload, caption,
embed) inserted one by one into the queue.  A platform's worker claims the oldest
row and calls the platform's service, which walks the remote feed, inserts items
and downloads them, or runs a stage over the rows whose columns select it.  Stages
never call each other: they meet only in the columns of `items` and in the files.
The WhatsApp platform reads what the Go process mirrors into a database of its own,
which the sidecar starts and stops.  Readers open the archives beside all of this.

**What is hard**, and what would make each part correct:

* *Job queue and scheduler.*  Every `await` on the connection lets another coroutine
  in, between a look and the insert it decides, or a read of a schedule and its
  write; processes die with rows marked running; several processes open one table.
  Correct: a platform runs one job at a time, a running row has an owner, a due
  schedule costs exactly one cycle, waiting jobs do not pile up, a pause holds, every
  queued job is started and every run settles.
* *Stages.*  A run acts on rows it read at its start; runs from the shell overlap the
  queue's; a process dies between an effect and the column that records it; Telegram
  may show a message and time out; a captioning call shared by several posts may raise
  after it settled some.  Correct: nothing is shown again except after a doubt, no
  file is deleted while somebody needs it, no row is retried for ever or forgotten,
  nothing is indexed before it has a caption, no post waits for ever for a caption,
  and what a call cost is what is recorded of it.
* *Walks.*  Pages are inserted item by item and cursors saved after; a plain run stops
  at the first page it knows; watermarks are the newest id held; an export's queue is
  computed anew for each chunk.  Correct: a walk that ends has recorded what was there,
  an interrupted one leaves no gap that a full one skips, and every walk ends.
* *Expansion and its client.*  The answers of one round make the next one's questions;
  some tweets are served nowhere, or not by search, which stops at a cap; a request may
  fail in seven ways.  Correct: the rounds end by themselves, what is connected is
  kept, no conversation is noted as searched before its tweets are recorded.
* *Profiles.*  Sightings within one second, histories merged by a migration, accounts
  that never answer.  Correct: the latest version is what was said last, the refresh
  ends, a picture whose address is renewed is tried again.
* *Migrations.*  Deaths inside a step, builds of many ages, several processes.
  Correct: the version a file reports is its schema's, and a file is copied first.
* *Sidecar.*  A pairing request racing the child's life.  Correct: no bridge runs
  unsupervised, no request is lost, and a device that is paired is synced again.
* *Mirror.*  Live events, history ingest, a sweeping feeder and a pool of downloaders
  on one table.  Correct: every pending file is settled, by one worker at a time; what
  a row holds is not lost to a redelivery; an edit or deletion is not lost.
* *Readers.*  Pages are asked for one after the other, of several archives that are
  written, restored and migrated meanwhile.  Correct: whoever reads to the end has
  seen every row once.

## 2. Plan

| Order | Module | Models | What it is measured by | Theorems | Status |
|---|---|---|---|---|---|
| 1 | `JobQueue` | queue, workers, schedulers, web handlers, processes | `JobLifecycle`, an abstract specification | types, one run, ownership, one cycle, pauses, bounded duplicates, none between daemons, refinement | done |
| 2 | `ItemStages` | the columns, files and deliveries of items under the stage jobs | `Delivery`, an abstract specification | types, retries have attempts, indexed rows are captioned, files are kept and there when used, refinement | done |
| 3 | `Mirror` | wabridge's table, readers and media pool | | types, one worker per file, nothing is forgotten, held files exist, rows keep what they hold | done |
| 4 | `TweetExpander` | the rounds over a world of tweets | reachability in that world | rounds end by themselves, what is cited is kept, threads are whole | done |
| 5 | `TweetArchive` | the likes job, over `TweetExpander` | threads and reachability | searched is kept, rows only gain | done |
| 6 | `SourceWalk` | tracked accounts and subreddits | what was there when the walk began | types, nothing is taken back, walks end whole | done |
| 6 | `FeedWalk` | the walks of Instagram | what was there when the walk began | types, full walks are whole | done |
| 6 | `RedditArchive` | the walks of Reddit | what was there when the walk began | types, categories end whole | done |
| 7 | `TwitterClient` | requests and the walks built of them | the index of each conversation | conversations are whole | done |
| 8 | `Profiles` | sightings, versions, refresh, pictures | what was last said, field by field | types, what was said last is shown, renewed pictures are tried, the refresh leaves nobody | done |
| 9 | `Migrations` | versions, steps, copies | the schema at each version | version is the schema's, content is copied | done |
| 10 | `Sidecar` | supervisor, pairing requests, bridge | | no bridge is unsupervised | done |
| 11 | `ModelClient` | one call to a model | its tries; what was billed | tries, spend and answers are true | done |
| 11 | `CaptionCalls` | a run's plan of calls | limits of a call | | checked |
| 12 | `Reader` | timelines and searches, page by page | the rows that were there | | checked |

`ItemStages` composes the archive with download, upload, caption, embed and cleanup.
`JobQueue` composes the queue with its workers, schedulers and web handlers, and
`JobQueue`'s "a job ends done or failed" is what `ItemStages` calls a run.
`TweetArchive` extends `TweetExpander` with the job that feeds it and records what it
finds.  The other walks write columns no stage reads but `archive_status`, so each has
the rows it writes to itself.  None of the modules uses a RECURSIVE operator, so that
each can be proved about.  Four MC modules (`MCRecords`, `MCFetchers`, `MCOverlap`,
`MCQueueLive`) put several small modules, or two instances of one, side by side: see
section 4.

## 3. Modules and code

In all modules one database statement with its commit is one step, and a stretch of
code between two awaits, unlocks or statements is one step.  Variables called ghost
or history in the modules record what happened for a property and are read by no guard.
An operator marked "mutant" is a plausible bug of the definition after it; no model
uses it, and `PROJECT.json` says which property it breaks.

### JobQueue (with JobLifecycle, MCJobQueue, MCQueueLive, JobQueueProofs)

`jobs` is the table in id order (AUTOINCREMENT, rows are never deleted), `schedules`
and `tracked` the other two tables.  `proc`, `worker`, `thread`, `phase` and `batch` are
the memory of processes: a worker's job in hand; the coroutine that enqueues (a
scheduler or a web request) with its plan; the schedule rows a tick has read.

| Code | Actions |
|---|---|
| `JobQueue.connect`, `seed_schedules`, task creation | `Connect`, `Boot` |
| a process killed, or stopped through the `finally` of `running` | `Stop` |
| `worker`: claim, `_invoke`, finish | `Claim`, `Finish`, `WorkerDies` |
| `enqueue` (its SELECT, its INSERT), `enqueue_cycle` | `Plan`, `EnqueueRefused`, `EnqueueFree`, `EnqueueInsert`, `EnqueueReturn` |
| `scheduler` | `SchedulerStarts`, `StartupCycle`, `SchedulerSleeps`, `Tick`, `Reschedule`, `SchedulerError` |
| `/api/run`, `/cycle`, `/schedule`, `/sources/*`, `/cancel` | `WebRun`, `WebCycle`, `WebSchedule`, `WebSource`, `WebCancel`, `WebError` |

`full` stands for the flags (history, retry_failed) a job carries that the duplicate
check leaves out.  A schedule's clock is whether `next_run` has gone by; interval and
jitter are not modelled.  `Errors` makes any statement of the queue raise.  The
connection of a process is shared by its coroutines, so a coroutine's statements are
not in a transaction of their own; each is committed on its own here, as in the code.
`JobLifecycle` is what the docstrings promise of a job: started in order, one at a
time per platform, settled once, interrupted at a start if found running.

### ItemStages (with Delivery, MCItemStages, ItemStagesProofs, ItemPromisesProofs)

`row` holds the columns the stages select by (four statuses, attempts, whether
local_paths is set, what media there is to restore), `disk` the items with files,
`indexed` those in the vector index, `sent` what Telegram showed.  A runner `r`
executes one job after the other (`run[r]`): a queue worker, or a person at the shell.

| Code | Actions |
|---|---|
| `insert`, `insert_many`, `to_item` | `Record` with `Arrival` |
| `replace_tombstone`, `restore_content`, `_refresh_failed_media` | `ReplaceTombstone`, `Restore`, `RefreshMedia`, `RefreshSettles` |
| `pending_archive/upload/caption/embed`, a run's one SELECT | `Pending`, `Select`, `Take` |
| `ensure_media`, `download_item` | `EnsureReturns`, `EnsureFetches`, `EnsureMarks`, `EnsureRaises` |
| `UploadJob`, `send_media`, `send_text` | `Send`, `SendAgain`, `SendFails`, `SendFlooded`, `UploadMarks` |
| `CaptionJob` | `CaptionText`, `PlanCall`, `Collect*`, `Describe`, `Apply`, `CallRaises`, `CrashMarks`, `BatchEnds` |
| `IndexJob`, `insert_embedding` | `EmbedInserts`, `EmbedMarks`, `EmbedRaises` |
| `cleanup_downloads` | `Tidy`, `Unlink`, `ClearPaths`, `CleanEnds` |

Abstractions: items are of one category that has a chat; every item has text or media
to search for; the coroutines a job gathers work on different items and are taken one
after the other; an archive run is one walk followed by one drain; how a captioning run
packs its targets into calls is left to `CaptionCalls`, and Instagram's captioning is a
call of one target (`CallSize` 1); `Again` is what the flags
retry_failed and `--retry-refused` add to a selection; a restore never takes media
away.  `Delivery` is what uploading promises of one item: shown until answered for,
again only when the last showing is in doubt, recorded only when shown.

### Mirror (with MCMirror, MirrorProofs)

`msg` is the table messages, `files` the media folder, `phone` a ghost of what live
events have told.  `reader["live"]` is whatsmeow's event loop, which handles one event
at a time; `reader["history"]` the goroutines that ingest history, one after the other
under `historyMu`.  `feed` holds `Feed`'s and `sweep`'s locals, `wake` the channel of
one token, `inflight` and `failed` the sets under the pool's mutex, `worker` the
downloaders.

| Code | Actions |
|---|---|
| `handle`, `storeMessage`, `ingestHistory` | `Live`, `History`, `LiveEdit`, `ApplyEdit`, `Insert`, `StoreFails` |
| `MarkRevoked`, `RecordStub`, `recoverViewOnce` | `LiveRevoke`, `LiveStub`, `Attach` |
| `Wake`, `Feed`, `sweep`, `claim` | `Wake`, `Query`, `QueryFails`, `Claim`, `HandOver`, `SweepEnds`, `TakeWake`, `Tick` |
| `worker`, `download`, `release` | `Lands`, `Records`, `Expires`, `DownloadFails`, `Release` |

Abstractions: a message has one identity (a chat is not first seen under a LID and
then under a number); chats, contacts and names are left out; a text is the number of
edits it has had; history carries messages, as old as the payload may be, not edits or
deletions; a message with media whose path history withholds is one without media,
as PendingMedia sees it; a view-once arrives as a stub or in a reply's quote; temporary
files left by a death are not counted; a stop of the process, orderly or not, is
`Crash`, and the supervisor starts it again at once.

### TweetExpander and TweetArchive (with MCTweetExpander, MCRecords, TweetArchiveProofs)

`world` is what X holds: who wrote which tweet, what it answers and quotes, and what X
does not serve, or not by search.  `x` is one `expand()`: what is known of each tweet
("stub" is a quoted tweet as embedded, "bare" an id of the export), what was asked and
refused, and the phase of the round.  `TweetArchive` adds the tables (`items`,
`searched`) and the job's locals.

| Code | Actions |
|---|---|
| `expand`, its rounds: `_resolve_refs`, `_discover_threads`; `_adopt_unchained`, `_adopt_ancestors` | `Resolve`, `Discover`, `Adopt`, `Climb`, `Raise` |
| `_resolve_tombstones`, `_name_refusals` | `ResolveTombstones`, `NameRefusals` |
| `_backfill_from_export`, `_fetch_seeds`, `_paginate` | `Backfill`, `Fetch`, `NextChunk` with `Collected` |
| `_expand_and_record`, `upgrade_origin`, `insert`, `mark_searched` | `Expanding`, `GiveUp`, `Upgrade`, `Insert`, `MarkSearched` |
| X, a death, time | `Like`, `Return`, `Crash`, `Age` |

Abstractions: a world does not change while a run looks at it, but for a tweet that is
served again between runs; the seeds are likes; a quoted tweet, a retweeted one and one
linked to are one kind of reference; a step is one call of the client with what is done
to its answer, and what the client makes of the server's answers is `TwitterClient`.

### TwitterClient (with MCFetchers, ClientProofs)

`req` is one request through retries, rate limits and query ids; `walk` the caller's
locals; `index` what search holds of each conversation.

| Code | Actions |
|---|---|
| `_send_with_retry`, `_graphql_get_with_fallbacks`, `_graphql_post` | `Send`, `Resend` with `Reported`, `Outcome` |
| `get_conversation_author_tweets`, `_walk_conversation`, `_search_page` | `Ask`, `Page` with `Slice`, `TopPage`, `Advance`, `NextPair`, `PairFails` |
| `get_thread`, `get_tweets_by_ids` | `ThreadPage`, `BatchChunk`, `Raises` |

Abstractions: an answer is one of eight kinds; ids in an error's text (`digits`) are what
`is_rate_limit` may take for a status; waiting is no state.

### SourceWalk, FeedWalk, RedditArchive (with MCRecords, MCFetchers, WalkProofs)

| Code | Actions |
|---|---|
| `core/sources.py` `SourceJob.run`: watermark, batches of four commits | `SourceWalk`: `Start`, `InsertMany`, `Restore`, `AddCategories`, `Attribute` |
| `twitter/sources.py`, `reddit/sources.py`: slices of a search, lines of a dump | `Slice`, `Lines` |
| the rest of the world | `Publish`, `Drop`, `Like`, `Crash` |
| `instagram/archiver.py` `_archive_category`: file, insert, cursor | `FeedWalk`: `Start`, `File`, `Insert`, `SetCursor`, `ClearCursor` |
| `fetchers/saved.py`, `likes.py`, `shared.py`, `page.py`, `media_infos.py` | `Page` with `From`, `PageMedia`, `Resumed`, `HasMore`, `NextPosition`, `Resolved` |
| the account, other categories, a death | `Add`, `Move`, `DeleteCollection`, `Other`, `Cut` |
| `reddit/archiver.py`: live listing, export in chunks, recording | `RedditArchive`: `List`, `Attribute`, `Chunk`, `Upgrade`, `Insert` |
| `reddit/expander.py`, `reddit/client.py` | `Expand` with `Expanded`, `Listing`, `Live`, `Hydrated` |
| the account, Reddit, a failure or death | `Vote`, `Change`, `Fault` |

Abstractions: a post is its place in time; of a row only what these walks write is kept
(its text or a marker, source, category; its collections; its origin and whether it is a
placeholder); a page of a feed is read in one step; a post that cannot be read or
resolved is passed over as the code does.

### Profiles, Migrations, Reader (with MCRecords, RecordsProofs)

| Code | Actions |
|---|---|
| `ProfileStore.observe`, `_record_version`, `_record_image` | `Profiles`: `Sight` with `Observe`, `Recorded`, `Renewed` |
| `refresh_profiles` | `StartRefresh`, `Ask`, `Read`, `Abort` |
| `download_profile_images` | `StartImages`, `Fetched` |
| `apply`, `_backup` | `Migrations`: `Open`, `Copy`, `Copied`, `Prune`, `Apply`, `Finish`, `Die` |
| `ArchiveReader._archive`, `list_items`, `_fetch`, `_merge` | `Reader`: `Open`, `OpenArchive`, `Timed`, `TimelessTail`, `ShowPage` |
| `search`, `_search_fts`, `_search_plain` | `SearchOne` with `SearchOrder`, `MergeOrder` |
| the archiver beside a reader | `Insert`, `Restore`, `Migrate` |

Abstractions: an account shows three fields, of which a payload may leave out two; the
queue of a refresh and the batch it asks for are sets, of which it takes any, so that
every order in which the code may ask is among the behaviours; a
step of the schema is what it creates and drops, and raises where that is there already
or missing; a row has the rank of its time as stored, a rank of relevance, and matches
the filter or not.

### Sidecar (with MCFetchers, MirrorProofs)

| Code | Actions |
|---|---|
| `run` | `Look`, `Sleep`, `Ensure`, `Spawn`, `Exited`, `Cancel`, `Terminate` |
| `pair_start`, `pair_state` | `Click`, `Request`, `Pairing` |
| the bridge (`wabridge/client.go`, `sync.go`) | `ShowCode`, `Pairs`, `BridgeExits` |

The bridge is what it shows of itself: a device in its session store, a code on disk,
an exit.  A supervisor that is itself killed (SIGKILL) is not in the model, and `Spawn` is
one step: a cancel that meets the await of `create_subprocess_exec` itself is left out.

### CaptionCalls and ModelClient (with MCFetchers, MCOverlap, ClientProofs)

| Code | Actions |
|---|---|
| `CaptionJob.run`, `pending_caption_roots`, `pending_caption`, `_load`, `_cap_context`, `_plan_calls` | `CaptionCalls`: `Start`, `Select`, `Load`, `Text`, `BatchEnds` |
| `_run_call`, `_caption_call`, `_collect_media`, `_apply`; Instagram's `_settle` | `Enter`, `Collect`, `Describe`, `Apply`, `Raise`, `CrashMark` |
| the rest of the archive | `Archive`, `Restore`, `Die` |
| `_call`, `_call_gemini`, `_call_openrouter` and their `except` clauses | `ModelClient`: `Fail`, `Wait`, `Unreadable` |
| `_answer`, `_think_turn`, `_read_response`, `describe_*` | `Answer` with `Thought`, `ReadResponse`, `Described`, `Result` |

Abstractions: an item has a number of files and a video or none; a reply is how it ends
and what kind of parts it has; tokens are counted, not typed.  The reasons to end that no
client looks for (OTHER, LANGUAGE and the like) are one, `other`; with text, such a reply is
a success, as in the code, so that what is shown of a caption is that it was neither cut
nor withheld, and not that the model stopped by itself.

## 4. Runs

All bounds are constants named in the configurations or in the MC modules.  Deadlock is
checked unless said otherwise.

| Run | Instance | Shows |
|---|---|---|
| queue_web | one process with RUN_ON_START, its worker, scheduler and one request slot, a tracked source that is walked by schedule or by hand; any statement may raise; 2 rows, 1 death | one run per platform, ownership, one cycle per due, bounded duplicates, pauses, JobLifecycle |
| queue_live | one process that queues a cycle when it starts (`RUN_ON_START`) and serves web requests, 2 rows, 1 death; two schedules in one process with neither, 3 rows, 1 death; deadlock off: the bound on rows may hold the scheduler of two schedules at its INSERT for good | queued jobs are taken, runs settle; due schedules are served, those too that fell due while the other or their own last cycle was served, or while the process was down |
| item_queue | one item of every shape, all jobs, 1 death, 2 sends, 2 attempts | types, files are kept, retries have attempts, indexed rows are captioned, Delivery; captions and downloads are settled |
| overlap | two daemons with a platform each, RUN_ON_START, 3 rows, 1 death; an upload from the shell beside the queue's jobs; two posts in one captioning call that may raise, 3 attempts; a call of each model client, 2 tries; deadlock off: the daemons may both wait for the bound on rows | schedulers alone never stack duplicates; no run deletes what another is using; attempts, tries and spend are counted |
| mirror_pool | a message and the view-once it quotes, 2 workers; statements fail; 1 restart; workers are a symmetry set | no file is in two hands, recorded files exist, no pending file is without a sweep to come |
| mirror_reply | the same two, edited and deleted, live and in history | rows keep what they hold |
| mirror_live | two files, one worker, live and in history (the second live only), statements and downloads fail; 1 restart | every pending file is settled |
| tweet_expander | every conversation of four tweets by two authors, the first two by one, with one quote, with or without its payload, one thing wrong with X, and requests that fail; deadlock off: a run ends | the rounds end by themselves, what is cited is kept, threads are whole |
| records | the likes of four tweets in eight worlds with an export, 2 deaths, requests that fail; a source of three posts, 1 death; two accounts over 3 seconds, the history of one maybe merged; builds of 1, 2, 4 and 7 steps, 3 deaths; five rows in two archives, a page of one; deadlock off: what has gone wrong may go wrong no more | rows only gain, what is noted as searched is kept, walks and pages are whole, profiles are current and their refresh ends, versions tell the schema |
| fetchers | conversations of up to 9 tweets around pages of 2 and a cap of 4, every answer to every request; four posts on Instagram with two collections, 1 cut; four things on Reddit with an export, 1 fault; 3 presses of Pair and 3 exits; a conversation of three posts with media, the last of them late, and a post without, 1 fault; deadlock off: walks end | walks are whole, bridges are supervised, no call is too large, and everything ends |
| item_refresh, schema_copies | | sentences of the code that it breaks: section 7 |

**Parts.**  `MCQueueLive`, `MCOverlap`, `MCRecords` and `MCFetchers` put components, or
two instances of one, that share no state side by side.  A variable `part`, chosen at the start, says which of them moves; the
others stay in one of their initial states.  So a behaviour of the run is a behaviour of
one of its modules, and each module is checked as by itself, over all its initial states.
What a property says of several parts is the conjunction of what it says of each.

The bounds are enough to make the interesting cases happen.  Two rows and the insert in
flight are a running job, a waiting one and a late duplicate; three rows leave each of
two daemons its own and one to contend for.  Two coroutines that enqueue (a tick and a
request) are the fewest that race, and requests are alike.  One death suffices because
a start forgets everything but the tables: a second death meets a state the first could
have left, except where a walk leaves more behind the second time (likes, migrations),
which have two and three.  Two schedules with a table
of three rows (`queue_live`) fall due while the other's cycle or their own last one runs,
and again while the process is down, before the table is full; a scheduler that the full
table holds at its INSERT is the one excuse `DueIsServed` grants.
One item suffices where the property is about one row, as
items share no column, and two where they share a captioning call.  Two sends and two
attempts put a run at its first, last and only try.  Two messages let a sweep's list
outlive what a worker settles and a reply recover another row's media; two workers are
the fewest that could hold one file, and one is enough for the feeder to block on a full
pool; with a restart besides, one of the two comes from history too (`Backfilled`).
Four tweets are a thread of two, an answer to somebody else's and a quote into
another conversation, with one to spare for what is missing; five rounds
(`MAX_ITERATIONS` is larger) are more than four tweets need, which `EndsOnItsOwn` shows.
Conversations of 3, 4, 5, 8 and 9 tweets lie below, at and above one and two caps.
Three posts of a source are one at the watermark, one above and one below it, with a
search that returns two; pages of one to three posts of four end before, at and after the
last that is new.  Two categories on Reddit let one find first what the other lists.  Two
presses and two exits beyond the one under test are the fewest that meet in between.
Five rows give two archives ties of time within and across them, and rows without a
time; two moves are a migration and a restore.  Two videos that do not fit one call and
a window of two of three posts make a call close on each limit and a target wait for
another run.  `MaxFaults` of `CaptionCalls` also bounds the runs started by hand with
retry_failed, which no schedule starts.

What these bounds leave open, the proofs of section 6 close for the safety of `JobQueue`,
`ItemStages`, `Mirror`, `TweetArchive`, `SourceWalk`, `FeedWalk`, `TwitterClient`,
`Profiles`, `Migrations`, `Sidecar` and `ModelClient`.  For each property of a passing run
`PROJECT.json` names a plausible bug of the code under which the run fails, so that no
property holds by the shape of the model.

## 5. Fairness

* `JobQueue`: weak fairness of `Connect` and `Boot` (the container restarts unless
  stopped, `docker-compose.yml`), of a worker's `Claim` and `Finish` (it polls, and every
  client it waits for has a timeout), of schedulers and of each coroutine that can go on.
  Nothing is assumed of the clock, of requests or of errors.
* `ItemStages`: weak fairness of a run that has begun (every wait in it has a timeout)
  and strong fairness of beginning each job a runner executes, since cycles come round
  whatever else the worker does in between.
* `Mirror`: weak fairness of readers, feeder and workers.  Strong fairness of the ticker
  (Go's `select` chooses at random among what is ready), of the query, and of a download
  landing and being recorded: the network and the database come back.
* `FeedWalk`, `RedditArchive`, `TwitterClient`: weak fairness of the walk that is under
  way.  Nothing is assumed of which requests a server refuses, or of whether it names a
  page after its last.  Its pages hold each listed thing once, from the newest: an endless
  listing, or one that goes round, is no behaviour of these modules.  `EverythingEnds`
  leaves out one walk, that of a thread of Instagram, which goes on for as long as the
  server names pages that hold nothing (`F!PastTheEnd`; section 7, `F!EmptyPageIsTheEnd`).
* `Sidecar`: weak fairness of the supervisor's loop; none of presses, codes, pairings or
  the exits of bridges.
* `CaptionCalls`: weak fairness of the run under way or of a next one, which the schedule
  starts; none of runs by hand.
* In `MCFetchers` this is one formula, `Fair`: weak fairness of the part that moves.

## 6. Proofs

`JobQueueProofs` proves, for any platforms, processes, sources, requests and bounds that
satisfy `ConstantsAssumption` and `WebAssumption` of `JobQueue`:

| Theorem | Statement |
|---|---|
| TypeCorrect | `Spec => []TypeOK` |
| OneRun | `Spec => []OneRunPerPlatform` |
| RunningHasAnOwner | `Spec => []RunningIsOwned` |
| OneCycle | `Spec => []OneCyclePerDue` |
| PauseLostOnlyInTick | `Spec => PauseOnlyLostInTick` |
| BacklogIsBounded | with finitely many request slots, `Spec => []DuplicatesBounded` |
| DaemonsNeverStack | with no web requests, `Spec => []NoDuplicateWaiting` |
| HeldJobsRun | with one process, `Spec => []HeldIsRunning` |
| QueueImplementsLifecycle | with one process, `Spec => LifecycleSpec` |

*Argument.*  "At most one running row per platform" is not inductive: a claim only
looks at its worker.  `IInv` adds that a running row is in its worker's hands or its
process is down, that a busy worker belongs to a process that is up, that a worker's
job is a row of its own platform, and that a coroutine about to insert has a platform
and a key; `Claim` then finds no other running row because its worker is idle, and
`Connect` releases what a death left.  `CycleInv` adds that what a scheduler holds is
its own, once each, and not begun since it fell due: each `Reschedule` therefore takes
a platform's count from 0 to 1, and only the passing of `next_run` resets it.
`PauseLostOnlyInTick` follows from the same two, by cases on who may set `enabled`.
`BacklogIsBounded` counts a key's rows and the coroutines that have decided to add one.
An INSERT turns one into the other; a new decision needs that there was no such row, and
then the sum is at most the coroutines for that platform, which `OwnInv` says are the
requests and, of the schedulers, the one whose process has it.
`SingleEnqueuerInv` says a scheduler that has decided to insert finds no active row of
its key: between its look and its insert nobody else enqueues for its platform, and no
step makes a settled row active.  With one process, `Connect` meets no live worker, so
that what a worker holds stays running, and each step of the queue is a step of
`JobLifecycle` or changes no row under the mapping `rows`.

`ItemStagesProofs` and `ItemPromisesProofs` prove, for any items, runners, shapes,
attempts and sends that satisfy the assumption of `ItemStages`:

| Theorem | Under | Statement |
|---|---|---|
| TypeCorrect | | `Spec => []TypeOK` |
| AttemptsAreLeft | `Alone({"caption"})` | `Spec => []RetriableHasAttempts` |
| IndexedHasCaption | `Alone({"caption", "embed"})` | `Spec => []IndexedIsCaptioned` |
| UploadsDeliver | `Alone({"upload"})` | `Spec => DeliverySpec` |
| NeededFilesAreKept | `OneTidies` | `Spec => []FilesAreKept` |
| UsedFilesAreThere | `OneTidies`, `CaptionsAwaited` | `Spec => []UsedFilesExist` |

*Hypotheses.*  `Alone(jobs)`: one runner has those jobs.  `OneRun` of `JobQueueProofs` is
what makes it so, as the queue runs one job of a platform at a time; a person who starts
the same job from the shell breaks it, and with it the property: two captioning runs
put a row that has used up its attempts back to refused, two uploading runs show an item
twice.  Other jobs may overlap, and do in the run overlap.  `OneTidies` is one runner
that uploads and one that captions; where captioning calls raise it is the same one and
indexes too, since a call that raises takes "done" back from a row another job may have
cleaned up after.  `CaptionsAwaited`: nobody captions by hand what the configuration says
no stage waits for.

*Argument.*  Every one of these is about a row a run has *read before*: `IInv` says where
in its job a run can be (`Placed`), that what it holds was recorded and has not lost its
text (`Known`), and that no item is in two of the places it will turn to (`Apart`).  On it stand invariants
of one column each, all of one form: what a run has still before it is in the state the
run read, because only a run of that job takes it out of that state.  `CaptionDue` and
`UploadDue` say so of captions and uploads; `AttemptsInv` and `IndexedInv` then follow by
cases on what a step may do to one item's columns.  For the refinement, `DeliveryInv`
counts showings: doubts and one more while an answer is awaited.  `FilesInv` says that
what a run is deleting was done with (`Spent`) when it looked and still is, since "done"
is only taken back by the run itself; `UsedInv` adds what each run counts on.

`MirrorProofs` proves, for any messages, view-onces, workers and bounds that satisfy
`ConstantsAssumption` of `Mirror`:

| Theorem | Statement |
|---|---|
| TypeCorrect | `Spec => []TypeOK` |
| NoFileTwice | `Spec => []OneWorkerPerFile` |
| HeldAreThere | `Spec => []HeldFilesExist` |
| NothingForgotten | `Spec => []NothingIsForgotten` |
| RowsKept | `Spec => RowsKeepWhatTheyHold` |

*Argument.*  `ClaimInv` adds to "one worker per file" that whatever a worker or the
feeder has in hand is in `inflight`, which `Claim` looks at.  `RowSteps` says what one
step does to one row, from `RowInv` (a path is a stored row's): what is decided of a
file stays decided, a row comes to be pending only under a reader about to wake the
feeder, and to hold a file only by a worker that stored one; `LandedInv` (a stored file
is in the folder) then gives `HeldFilesExist`.  "Nothing is forgotten" needs
`SettledInv`: a worker that releases a file without a failure has had the row decided,
so that leaving `inflight` never loses a pending file; and since decisions last only on
rows with a path, that all that is listed or claimed has one.  `TextInv` bounds every
text in a row or in hand by what the phone has sent, and says an edit in hand is the
last one, since the event loop handles no other until it rests; so no write is older
than the row it meets.

`TweetArchiveProofs` proves, for any tweets, authors, worlds, likes, batches and faults:

| Theorem | Statement |
|---|---|
| SearchedKept | `Spec => []SearchedIsKept` |
| RowsKeptUp | `Spec => NeverDemoted` |
| ArchiveIsTyped | `Spec => []TypeOK` |
| WalkHeals | `Spec /\ []~CutShort => FullWalkHeals`, and `Spec => FullWalkHeals` under `Enough` |

*Argument.*  `KeptInv` says that from the climb on the result of an expansion includes all
that its searches returned (`Adopted`), that the job inserts only what an ended expansion
archived, and that when it comes to `mark_searched` every tweet of that result has a row.
Nothing is needed of the rounds but that they lose nothing they found.  `ArchiveIsTyped`,
under `WorldsAssumption`, rests on `RoundsOK`, which the rounds of an expansion keep (below),
on `Bounded` (a phase that may begin another round is below `MAX_ITERATIONS`) and on `Apart`:
between chunks nothing is held of an expansion, which a world that changes could belie.

and of one expansion, for any finite number of tweets, any worlds of them in which a tweet
answers an older one (`WorldsAssumption`), any `MAX_ITERATIONS`, and whatever requests fail:

| Theorem | Under | Statement |
|---|---|---|
| RoundsEndThemselves | `Enough` | `ExpandSpec => []EndsOnItsOwn /\ []~CutShort` |
| CitedKept | | `ExpandSpec => [](CutShort \/ CitedIsKept)`, and `[]CitedIsKept` under `Enough` |
| ThreadsKept | | `ExpandSpec => [](CutShort \/ ThreadsAreWhole)`, and `[]ThreadsAreWhole` under `Enough` |

*Hypotheses.*  `CutShort`: the rounds or the climb came to `MAX_ITERATIONS` (the code then
logs what it left).  `Enough`: `MAX_ITERATIONS` is more than five times the tweets there
are.  The 50 of the code are that only for nine tweets, a bound as loose as the counting
below; what holds of every expansion that is not cut short needs no bound.

*Argument.*  The comment above `MAX_ITERATIONS` says that every round "strictly consumes
from finite pools".  `Spent` is what has been taken from them: tweets told of, pairs
searched, conversations asked for, tweets archived and probes, each at most as many as there
are tweets.  No step gives anything back, a round that reports progress takes something
(`RoundsFew`), and one that does not leaves nothing to look up (`Quiet`, in `RoundsOK`).
With `Right`, that whatever is known in full is archived, found, seen or a probe, `Quiet`
gives `CitedIsKept`.  For the threads, `SearchOK` says what a search and a detail leave found
where none failed, and `Settled` that after a round without progress every archived tweet
with answers was looked for.  So a tweet with a neighbour in its thread is looked for
itself, or through the tweet it answers (`ThreadsSought`), unless that one is a probe; and the
whole thread is in one pair, hence in the list or the conversation that was asked for
(`ChainIsKin`).  That a thread stays in one conversation needs that `Conv` exists, which
`RootIs` builds tweet by tweet, the older ones first.

The proof corrected the model: `ThreadsAreWhole` used to except probes that are not archived
in the end, and no proof came through, since a probe may be archived in the climb, as an
ancestor of somebody's reply, when no search is made any more.  A world of six tweets shows
it: 1 by b; 2 (a) answers 1; 3 and 4 (a) answer 2; 5 (b) answers 1 and quotes 3; 6 (b)
answers 2; with 5 for the seed, 2 is a probe of 3's, archived above 6, and 4 is left out.
Four tweets, as in the run, are too few.  The property now excepts what the rounds passed over.

`WalkHeals` needs `WorldsAssumption` too, and joins what the two tables above say apart, over
runs that were cut short, failed, or met a world that withheld something.  `HealInv` says:

* `WalkOK`: in a walk of the whole timeline of which nothing failed so far, every like X
  serves is still queued, a seed of the chunk in hand, or recorded with its thread, if a
  search can find all of it (`Heals`).  No step takes that back (`HealsStays`), since rows
  only gain; a chunk in hand may be lost to a death or an error, but then the walk is over,
  or is no longer one of which nothing failed.
* `SkipOK`: of a pair recorded as searched, an earlier search had shown all it lists, but for
  what X serves again since.  So a pair that the expansion skips costs nothing: what it lists
  was shown, and what was shown has its row (`SearchedIsKept`).
* `SeedsOK` and `ThreadsOK`: when an expansion is done, each of its seeds that has a
  neighbour in its thread was looked for itself.  A seed of the timeline comes with its
  payload, so that the first lookup brings the tweet it answers, and it cannot be passed
  over as a probe (`SeedsSought`); its thread is in one pair, hence home (`SeedsAreHome`).
* Of the seeds that were there already, the origin is raised before the chunk is marked
  (`JobOK`), so that what is recorded of a like is that it is one.

This is why the property speaks of `Findable` threads, and why a like of the export, known
by its id alone, is not promised its thread by the backfill but by the walk that follows.

`WalkProofs` proves of `SourceWalk`, for any posts, sources, batches and caps (`Sized`: the
bounds are numbers):

| Theorem | Under | Statement |
|---|---|---|
| WalksAreTyped | | `Spec => []TypeOK` |
| WalksTakeNothingBack | | `Spec => NothingIsTakenBack` |
| WalksEndWhole | `~Shell`, the two kinds of source | `Spec => WalkIsWhole` |

*Argument.*  `WholeInv` says that every post the walk has come past is recorded, or is in
the batch in hand in such a way that one of the commits still ahead records it: not
among the rows `held()` returned before `insert_many`, among them before
`attribute_to_source`.  That `held()` is still right when `insert_many` runs is where
`~Shell` is needed: with likes archived from a shell meanwhile TLC breaks the property
(section 7).  That a plain walk may stop at the watermark uses that there is a newest
post of a source (`GreatestOne`, from the well-foundedness of `<` on `Nat`).

and of `FeedWalk`, for any posts, collections, sizes of page, limits and cuts that satisfy
`FeedsAssumption` (the categories are the three there are, pages hold a post at least, the
rest are numbers), whichever posts cannot be read or resolved, and whatever the account and
other jobs do meanwhile:

| Theorem | Statement |
|---|---|
| FeedsAreTyped | `Spec => []TypeOK` |
| FullWalksAreWhole | `Spec => FullWalkIsWhole` |

*Argument.*  The property is about one step, the last, of a walk that may have taken many
runs; what it needs is kept in two places, and one goes over into the other.  `CursorInv`:
everything due is recorded and filed (`Done`) or lies ahead of the saved cursor.  `WalkInv`:
for a full walk, everything due is done, ahead of the page, later than it, or in hand.  The
second gives the first where the cursor is saved, the first the second where a run begins
from it, and a cut falls back to the cursor, which is why it may only name a page whose
posts are all recorded.  Two facts about what the code computes carry the page step:
`LatestOf` (whatever the n latest of some posts leave out is older than each of them, and
they are none only of none) and `ResolvedIs` (however `_resolve_chunk` halves a batch, what it returns is what
resolves), both by induction on the size of a finite set.  `Onward` says that deleting a
collection, even the one the cursor names, leaves none out.

and of `RedditArchive`, for any things, categories, listings, exports, sizes of chunk and depth
of expansion that satisfy `RedditAssumption` (parents, posts, listings and exports are of
things there are, no category has the name of another origin):

| Theorem | Statement |
|---|---|
| CategoriesAreTyped | `Spec => []TypeOK` |
| CategoriesEndWhole | `Spec => CategoryIsWhole` |

*Argument.*  `RefsFiled` says the refs of the export are filed before the first is looked
for, so that a category that finds no ref without a row has them all.  `ListingKept` follows
one listed thing through a full run: among the seeds, then among what the expansion found,
then held as the category's own with its context held or still to be inserted, and from then
on both.  `Fresh` is what lets a row stay: nothing is inserted that has one, so a later
chunk never turns a listed thing into a mere find.  That the expansion of a listing has the
context of each thing listed is `RoundsGrow`: round by round, what hangs on a thing that is
known is known, looked for, or gone.  The rounds are a recursive function, whose existence
(`RoundsAre`) and properties are proved by `UpTo`: a set of numbers that has 0, and each
number after one it has, has every number up to a bound.

`RecordsProofs` proves of `Migrations`, for any processes, builds of up to twelve steps, and number of
copies kept, with `~Together` (one process at a time opens the file; section 7 says what
two do):

| Theorem | Under | Statement |
|---|---|---|
| VersionsAreTrue | | `Spec => []VersionIsTruth` |
| ContentIsCopied | `Builds \subseteq 0 .. 10` | `Spec => []CopiedFirst` |

*Argument.*  `TruthInv`: one process moves, and its index is the file's version; each of
the twelve steps makes of its version's schema the next one's (`StepsAddUp`).  `CopyInv`:
no copy is of a version the file has not reached, so the one just made sorts last and is
never pruned, as long as versions have one digit.  The bound on builds is where
that ends: the run schema_copies shows the copy lost beyond it.

and of `Profiles`, for any accounts, handles, posts and batches that satisfy
`ProfilesAssumption` (what the migration left of an account is at least one version, none
later than the start and none with a picture; nothing is named as a missing field is):

| Theorem | Under | Statement |
|---|---|---|
| PeopleAreTyped | | `Spec => []TypeOK` |
| PeopleAreCurrent | `~Shell` | `Spec => [](LatestIsLastSaid /\ RenewedIsTried)` |
| RefreshLeavesNobody | | `Spec => RefreshSettles` |

*Argument.*  `AccountInv` says of one account that its latest version shows what was last
said, and of each of its pictures that one to be fetched is known and not renewed since
the fetch began.  `RecordedShows` carries the first: the code compares times to a second and
breaks ties by position, and whichever of the two decides, the version written is the one
`Latest` finds.  The second needs `~Shell`: a picture's error is written a request after the
row was read, and with an archive job beside it TLC finds the renewal lost (section 7).
`RefreshInv` accounts for everybody a refresh began with: observed, queued or being asked;
`NamesInv` that it asks under the name last said.  The last theorem needs no `~Shell`,
as nobody takes `observed_at` back.

`MirrorProofs` also proves of `Sidecar`, for any bounds on presses and exits, NeverOrphaned,
`Spec => []BridgeIsSupervised`.  The property is inductive once the loop is known to be at
one of its places: only `Spawn` starts a bridge, from a place where there is none, and a
loop that has one leaves `wait` only for `terminate`, or after the bridge is gone.

`ClientProofs` proves of `TwitterClient`, under its `ClientAssumption` (the cap of a search
is a whole number of pages, as 40 is of 20), and of `ModelClient` with at least one try for
each turn (`Tries`):

| Theorem | Statement |
|---|---|
| ConversationsAreWhole | `Spec => []WalkedIsWhole` |
| CallsAreTrue | `Spec => [](TypeOK /\ TriesAreBounded /\ SpendIsWhole /\ OnlyAnswersSucceed)` |

*Argument.*  A conversation counts as walked when a slice comes back below the cap, so the
proof has to say what a slice stands for.  `Reached` says that above some tweet `h` the
slices gone by found everything and that each was at the cap (`h` and the slices times the
cap add up to the conversation), `Paging` that the slice in hand is a whole number of pages
below the cap, `Sliced` that one that ended is at the cap or reached the bottom.  Where the
cap is no whole number of pages this fails: a slice would end above the cap, and the code
compares for equality.  For the calls, `Counted` adds to the bound that of a call that will
ask again a try is left, and that the second turn begins a count of its own; `Billed` and
`Kept` say that up to its result a call of Vertex was billed what its first turn kept, which
is why adding the two usages at the end is neither too little nor too much.

**Only model-checked:** everything under fairness (captions and downloads are settled, runs
and walks end, due schedules are served, pending files are settled).  `CallsFit` of
`CaptionCalls` and `PagesAreWhole` of `Reader` are about sequences that are filtered,
sorted and folded (chunks of an export, calls packed in order, pages of merged rows): that
is induction over a sequence, for which the provers have no rule they can apply.  The
conjunctions of the MC modules are proved where a theorem above proves the conjunct: of
`RowsOnlyGain`, `ProfilesAreCurrent`, `RefreshSettles`, `BridgeIsSupervised` and
`UsedFilesExist` all, of `CallsAreCounted` all, of `SchemaIsSafe` both up to the tenth
version, of `WalksAreWhole` those of `SourceWalk` and `TweetArchive`, of `RunsAreWhole` those
of `FeedWalk` and `RedditArchive`, of `TypesOK` those of `TweetArchive`, `SourceWalk` and
`Profiles` (records) and of `FeedWalk` and `RedditArchive` (fetchers).

## 7. Disagreements

Two runs check one sentence of the code's own each, which TLC finds violated; the
line is quoted in `PROJECT.json` ("findings"):

* item_refresh, `LandedIsArchived`: a death between two statements leaves a tweet failed
  with nothing left to download, on every later run.
* schema_copies, `CopiedFirst`: copies are sorted by name, where v10 comes before v9;
  once five copies of one-digit versions are there, the copy just made is removed and
  the step runs on a file that has none of its present state.

The modules state more such sentences, kept out of the standing runs.  Naming one in a
configuration makes TLC show how the code breaks it.  `S`, `C`, `V`, `P`, `M`, `D`, `F`,
`R` and `B` are the instances in the MC module of that configuration; a property of an
instance is given a name there first, as the run's own are.

| Property | Configuration | The words | What happens |
|---|---|---|---|
| `NoDuplicateWaiting` | JobQueueWeb | `core/queue.py:183-184` | a tick and a request both look, both insert the same job |
| `PausedStaysPaused` | JobQueueLive | `core/queue.py:4` | a tick that read a schedule writes `enabled` back over a pause (`core/worker.py:181`) |
| `OrphansAreOrphans` | Overlap | `core/queue.py:164` | a second daemon's start interrupts the first one's running job |
| `CycleUploadsWhatItArchives` | JobQueueLive with `Category = {saved}`, `Request = {}`, `WebProcess = None`, `MaxJobs = 5` | `core/worker.py:89-90` | a cycle's upload is refused because the last one's waits ahead of what the new cycle archives |
| `RefusedOnlyForIdentical` | JobQueueLive with `ByHand = {"source"}`, `Target = {t1}`, `Flags = {TRUE, FALSE}` | `core/queue.py:183` | a full walk is refused because a plain one waits |
| `DeadRunIsVisible` | JobQueueLive with `Errors = TRUE` | `core/queue.py:3-4` | when `finish` raises, the worker task ends and its row says running until the process restarts |
| `C!CaptionedStaysCaptioned` | Overlap | `core/caption.py:22-23` | a captioning call that raises fails targets it has captioned |
| `EmbeddedIsIndexed` | ItemStagesQueue | `core/embed.py:34` | an insert the index refuses is marked embedded |
| `UploadedIsNotFailed` | ItemStagesQueue | `core/database.py:788` | an uploaded row that is restored and whose media does not download ends as failed, out of reach of captioning and indexing |
| `DeletedWasSent` | ItemStagesRefresh with `Shape = {"removed"}` | `core/jobs.py:131` | media that a restore brings to an uploaded row is downloaded and deleted without being sent |
| `ExhaustedIsFreed` | ItemStagesQueue | `core/jobs.py:131` | the files of an item whose caption is exhausted are never deleted |
| `V!CutIsTruncated` | Overlap | `llm/vlm_types.py:69-70` | Gemini's and OpenRouter's clients take a text cut at the token cap for a success |
| `V!FailureSaysWhy` | Overlap | `llm/vlm_types.py:77` | their results pass one value too few, so that the reason lands in the field of the usage |
| `HandedIsPending` | MirrorPool | `wabridge/media.go:42-43` | a sweep's old list has a finished file downloaded again |
| `EditIsKept`, `RevocationIsKept` | MirrorReply | `wabridge/store.go:285-292` | an edit or a deletion of a message that history is inserting is lost |
| `EverythingConnected` | TweetExpander | `twitter/expander.py:3-5` | a tweet fetched as a probe that turns out to be cited as well is passed over (`:161`, `:203`) |
| `InterruptedResumes` | Records | `twitter/archiver.py:48-49` | a plain sync stops at the known likes above those that an interrupted run did not record |
| `LikeHasContent` | Records | `twitter/archiver.py` | a like that X once refused stays a placeholder when a walk meets it again, served |
| `RecoveredIsExplored` | Records | `twitter/archiver.py:181-183` | a recovered tweet's row is written before its expansion; a death in between leaves it unexplored, as later runs see no placeholder |
| `S!ResumesFromWatermark` | Records | `core/sources.py:105-106` | a walk cut short leaves a gap below the newest post it recorded, which no plain walk comes back to |
| `S!RefusedIsReplaced` | Records | `twitter/sources.py:50-51` | a text no longer than its marker does not replace it |
| `WalksAreWhole`, with `Shell <- TRUE` in `S` | Records | `twitter/sources.py:10-15` | a like recorded from a shell between a batch's look and its insert is filed under the source's category and attributed to no source |
| `ProfilesAreCurrent`, with `Shell <- TRUE` in `P` | Records | `core/profile_store.py:141-142` | the error of a picture's old link is written over the renewal that came meanwhile |
| `SchemaIsSafe`, with `Process <- {1, 2}, Together <- TRUE` in `M` | Records | `core/migrations.py:7-12` | a process that read the version before another advanced the file runs a step again that allows it, and sets the version back |
| `D!AnyGenerationAnswers` | Records | `read/store.py:3-6` | a filter by author names a table that an old archive lacks (`:166-172`) |
| `WalksAreWhole`, with `Ranks == <<-2, -3, -1, -2, -1>>` and `Stamps == <<2, 2, 0, 1, 0>>` | Records | `read/store.py:60` | hits of equal relevance are ranked one way within an archive and another over all, so a page skips one |
| `RateLimitSurvives` | Fetchers | `twitter/client.py:384-393` | a 429 that answers the POST fallback is reported as the 404 before it |
| `OneFailsAlone` | Fetchers | `twitter/client.py:656-657` | an error whose text holds the digits 429 for another reason ends the walk of all conversations |
| `F!EmptyPageIsTheEnd` | Fetchers | `instagram/fetchers/page.py:10-12` | a page of a thread that holds nothing but names a cursor is not the end: the walk asks on for as long as cursors are named (`shared.py:58-59`) |
| `F!KnownPageIsTheEnd` | Fetchers | `instagram/archiver.py:25` | a page known to another category, or left whole by a run that was cut, ends a plain walk above posts it lacks |
| `F!KnownPageEndsItsCollection` | Fetchers | `instagram/archiver.py:26` | a known page of saved posts ends nothing: the walk of the collection goes on |
| `R!KnownIsTheEnd` | Fetchers | `reddit/fetchers/live.py:2-3` | a listing is left at the first known thing, above what an interrupted run did not record |
| `R!ChunkResumes` | Fetchers | `reddit/archiver.py:96-97` | a death after a chunk's seeds are inserted and before what they hang on leaves that out for good |
| `B!CodeIsCurrent` | Fetchers | `whatsapp/sidecar.py:121` | a code of a bridge that is gone stays on disk |
| `B!PairingIsShown` | Fetchers | `frontend/src/routes/admin/+page.svelte:110` | between the clearing of the request and the start of the bridge the state says neither, and the overlay gives up |
| `B!PairedWhenAsked` | Fetchers | `whatsapp/sidecar.py:5` | a request made while a device is being paired outlives it, and pairs again once that device is lost |

Two remarks that no property states: a truncated answer is to be asked again
"immediately with a larger output budget" (`llm/vlm_types.py:64-66`), while
`core/caption.py:283` marks the target failed; and only Vertex's client has
`describe_thread`, so that with another provider (`llm/factory.py:10-44`, `README.md:97`)
every call for a thread raises.

## 8. Not modelled

* *Sign-in and tokens*: statements on tables of their own that nothing else reads.
* *Frontend, scripts*: no state the archive depends on.
* *Readers beyond paging*: conversations, semantic search, profiles, the MCP server's and
  the API's presentation of rows.
* *Platform clients beyond their control*: sessions, headers, the fields of answers;
  Instagram's client is its pages only; WhatsApp's archiver appears as the rows it links.
* *wabridge*: chats, contacts and names; one conversation addressed by LID and by number;
  profile pictures, which are one upsert each.
* *The supervisor's own death*: a process killed with SIGKILL leaves its bridge running,
  and the next one starts another; no code handles it.
* *Text*: captions, labels, layout, prompts and the building of requests are no state the
  control turns on.
* *The index for full-text search, traces, and relations between posts* in
  `core/database.py`, which only readers use.
