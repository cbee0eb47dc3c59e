---------------------------- MODULE TweetArchive ----------------------------
(***************************************************************************)
(* The twitter archive job (platforms/twitter/archiver.py): the likes of   *)
(* the official export, then the likes timeline, expanded chunk by chunk   *)
(* with TweetExpander; a chunk's rows are inserted one commit at a time,   *)
(* and the conversations it searched are recorded as searched after them.  *)
(*                                                                         *)
(* The likes timeline is served newest first, and a plain sync leaves it   *)
(* after a number of tweets it knows.  A job may be cut short between any  *)
(* two commits; a request may fail, and what cannot go on is given up.     *)
(***************************************************************************)
EXTENDS TweetExpander, Sequences, Functions

CONSTANTS
  Likes,       \* what the account likes, in that order
  Export,      \* likes.js: the likes of the export, in its order
  Batch,       \* TWITTER_EXPAND_BATCH
  KnownHits,   \* _paginate's known_hit_threshold
  ProbeLimit,  \* TOMBSTONE_PROBE_LIMIT
  MaxCrashes,  \* bound: jobs cut short
  MaxReturns   \* bound: tweets X serves again

ASSUME ArchiveAssumption ==
  /\ Likes \in Seq(Tweet) /\ Export \in Seq(Tweet)
  /\ {Batch, KnownHits, ProbeLimit} \subseteq Nat \ {0} /\ {MaxCrashes, MaxReturns} \subseteq Nat

VARIABLES
  liked,     \* how many of Likes the account has liked so far
  items,     \* table items: the rows' origin, and whether they are placeholders
  searched,  \* table searched_conversations, as far as it is recent
  shown,     \* ghost: what the searches recorded there returned
  job,       \* the archive job and its locals
  faults     \* what has gone wrong so far

store == <<items, searched, shown>>
vars == <<world, x, liked, items, searched, shown, job, faults>>

-----------------------------------------------------------------------------

\* Origins, of which upgrade_origin replaces any but the seeds'.
Origins == {"none", "liked", "found"}

\* A placeholder carries the reason X gave for refusing the tweet, or none.
Kinds == {"row", "unnamed", "named"}

Absent == [origin |-> "none", kind |-> "row"]

Placeholders == {t \in Tweet : items[t].kind # "row"}

Held == {t \in Tweet : items[t].origin # "none"}

\* ids_by_origin
KnownLikes == {t \in Tweet : items[t].origin = "liked"}

Steps == {"idle", "tombstones", "name", "export", "fetch", "chunk", "expand", "insert", "mark"}

\* recovered: placeholders that are served again.  queue: the seeds not expanded yet, by
\* their positions.  source: what the seeds of the chunk are.  clean: nothing failed
\* since the job began.
Queue == UNION {[positions -> Tweet] : positions \in SUBSET DOMAIN Likes}

Job == [step : Steps, full : BOOLEAN, source : {"bare", "full", "recovered"},
        recovered : SUBSET Tweet, queue : Queue, clean : BOOLEAN, retry : BOOLEAN]

Idle == [step |-> "idle", full |-> FALSE, source |-> "full", recovered |-> {}, queue |-> <<>>,
         clean |-> TRUE, retry |-> FALSE]

Init ==
  /\ world \in Worlds /\ x = Fresh /\ liked = 0
  /\ items = [t \in Tweet |-> Absent] /\ searched = {} /\ shown = {}
  /\ job = Idle /\ faults = [crashes |-> 0, returned |-> {}]

-----------------------------------------------------------------------------
(* The timeline                                                            *)

\* get_likes: newest first, without what X does not serve.
Timeline ==
  LET newest == [i \in 1 .. liked |-> Likes[liked + 1 - i]]
  IN  Restrict(newest, {i \in DOMAIN newest : newest[i] \in Served})

\* _paginate: tweets that are not known, up to KnownHits known ones in a row.
Collected(tweets, known) ==
  LET knownUpTo(i) == {j \in DOMAIN tweets : j <= i /\ \A k \in DOMAIN tweets \cap (j .. i) : tweets[k] \in known}
      reached == {i \in DOMAIN tweets : \A j \in DOMAIN tweets : Cardinality(knownUpTo(j)) >= KnownHits => i <= j}
  IN  Restrict(tweets, {i \in reached : tweets[i] \notin known})

\* The first n of some positions.
Leading(n, positions) == {i \in positions : Cardinality({j \in positions : j < i}) < n}

-----------------------------------------------------------------------------
(* The world goes on                                                       *)

Like ==
  /\ job.step = "idle" /\ liked < Len(Likes)
  /\ liked' = liked + 1
  /\ UNCHANGED <<world, x, items, searched, shown, job, faults>>

\* A tweet withheld from this connection is served again.
Return(t) ==
  /\ job.step = "idle" /\ t \in world.gone /\ Cardinality(faults.returned) < MaxReturns
  /\ world' = [world EXCEPT !.gone = @ \ {t}]
  /\ faults' = [faults EXCEPT !.returned = @ \cup {t}]
  /\ UNCHANGED <<x, liked, store, job>>

\* SEARCH_REFRESH days go by.
Age ==
  /\ job.step = "idle" /\ searched # {}
  /\ searched' = {}
  /\ UNCHANGED <<world, x, liked, items, shown, job, faults>>

Crash ==
  /\ job.step # "idle" /\ faults.crashes < MaxCrashes
  /\ job' = Idle /\ x' = Fresh
  /\ faults' = [faults EXCEPT !.crashes = @ + 1]
  /\ UNCHANGED <<world, liked, store>>

-----------------------------------------------------------------------------
(* The job                                                                 *)

Start(full, retry) ==
  /\ job.step = "idle"
  /\ job' = [Idle EXCEPT !.full = full, !.retry = retry, !.step = IF retry THEN "tombstones" ELSE "export"]
  /\ UNCHANGED <<world, x, liked, store, faults>>

Begin(seeds, source) == x' = Seeded(seeds, IF source = "bare" THEN "bare" ELSE "full", searched)

\* _resolve_tombstones: those that are served again become rows, one by one.
ResolveTombstones ==
  LET back == Placeholders \cap Served IN
  /\ job.step = "tombstones"
  /\ IF back = {}
     THEN job' = [job EXCEPT !.step = "name"] /\ UNCHANGED items
     ELSE \E t \in back : /\ items' = [items EXCEPT ![t].kind = "row"]
                          /\ job' = [job EXCEPT !.recovered = @ \cup {t}]
  /\ UNCHANGED <<world, x, liked, searched, shown, faults>>

\* The reasons the lookup gave, and _name_refusals: why the others are refused,
\* asked of a few conversations, of which some answer.
NameRefusals ==
  LET unnamed == {t \in Placeholders : items[t].kind = "unnamed"} IN
  /\ job.step = "name"
  /\ \E told \in SUBSET unnamed, probed \in SUBSET unnamed :
       \E named \in SUBSET {t \in Placeholders : \E p \in probed : Conv(p) = Conv(t)} :
         /\ Cardinality(probed) <= ProbeLimit
         /\ Cardinality(probed) = ProbeLimit \/ unnamed \subseteq probed \cup named
         /\ items' = [t \in Tweet |-> IF t \in told \cup named THEN [items[t] EXCEPT !.kind = "named"]
                                     ELSE items[t]]
  /\ IF job.recovered = {}
     THEN job' = [job EXCEPT !.step = "export"] /\ UNCHANGED x
     ELSE /\ job' = [job EXCEPT !.step = "expand", !.source = "recovered", !.recovered = {}]
          /\ Begin(job.recovered, "recovered")
  /\ UNCHANGED <<world, liked, searched, shown, faults>>

\* _backfill_from_export: the likes of the export that have no row yet.
Backfill ==
  LET chunk == Leading(Batch, {i \in DOMAIN Export : Export[i] \notin Held}) IN
  /\ job.step = "export"
  /\ IF chunk = {}
     THEN job' = [job EXCEPT !.step = "fetch"] /\ UNCHANGED x
     ELSE job' = [job EXCEPT !.step = "expand", !.source = "bare"] /\ Begin({Export[i] : i \in chunk}, "bare")
  /\ UNCHANGED <<world, liked, store, faults>>

\* _fetch_seeds: the whole walk, or the pages read before one that failed.
Fetch ==
  LET known == IF job.full THEN {} ELSE KnownLikes IN
  /\ job.step = "fetch"
  /\ \E last \in 0 .. liked :
       LET pages == Restrict(Timeline, {i \in DOMAIN Timeline : i <= last})
           seeds == Collected(pages, known) IN
       /\ pages # Timeline => Faults /\ DOMAIN seeds # {}
       /\ job' = [job EXCEPT !.queue = seeds, !.step = "chunk", !.source = "full",
                             !.clean = @ /\ pages = Timeline]
  /\ UNCHANGED <<world, x, liked, store, faults>>

NextChunk ==
  LET chunk == Leading(Batch, DOMAIN job.queue) IN
  /\ job.step = "chunk"
  /\ IF chunk = {}
     THEN job' = [job EXCEPT !.step = "idle"] /\ UNCHANGED x
     ELSE /\ job' = [job EXCEPT !.step = "expand", !.queue = Restrict(@, DOMAIN @ \ chunk)]
          /\ Begin({job.queue[i] : i \in chunk}, "full")
  /\ UNCHANGED <<world, liked, store, faults>>

Expanding ==
  /\ job.step = "expand" /\ Expand
  /\ UNCHANGED <<liked, store, job, faults>>

\* Waits and starts over, or gives up (_archive_category).
GiveUp ==
  /\ job.step = "expand" /\ x.phase = "failed"
  /\ x' = Fresh
  /\ \/ job' = Idle
     \/ job.source # "recovered" /\ job' = [job EXCEPT !.step = "export", !.queue = <<>>]
  /\ UNCHANGED <<world, liked, store, faults>>

\* mutant: the origin is written under the category's name.
UpgradeNames ==
  /\ job.step = "expand" /\ x.phase = "done"
  /\ items' = [t \in Tweet |-> IF t \in x.seeds \cap Held THEN [items[t] EXCEPT !.origin = "likes"] ELSE items[t]]
  /\ job' = [job EXCEPT !.step = "insert"]
  /\ UNCHANGED <<world, x, liked, searched, shown, faults>>

\* upgrade_origin of the seeds that were there already.
Upgrade ==
  /\ job.step = "expand" /\ x.phase = "done"
  /\ items' = IF job.source = "recovered" THEN items
              ELSE [t \in Tweet |-> IF t \in x.seeds \cap Held THEN [items[t] EXCEPT !.origin = "liked"]
                                    ELSE items[t]]
  /\ job' = [job EXCEPT !.step = "insert"]
  /\ UNCHANGED <<world, x, liked, searched, shown, faults>>

\* mutant: what is there is written again.
MissingOrLiked == (x.archived \ Held) \cup (x.archived \cap KnownLikes)

\* The result in the order it was written in, placeholders first.
Missing == x.archived \ Held

Earlier(t, u) == IF (t \in Tombstoned(x)) = (u \in Tombstoned(x)) THEN t < u ELSE t \in Tombstoned(x)

\* mutant: a chunk's searches are recorded before its rows.
MarkFirst ==
  /\ job.step = "insert" /\ searched' = searched \cup x.walked /\ shown' = shown \cup x.found
  /\ job' = [job EXCEPT !.step = "mark"]
  /\ UNCHANGED <<world, x, liked, items, faults>>

Insert ==
  /\ job.step = "insert"
  /\ IF Missing = {}
     THEN job' = [job EXCEPT !.step = "mark"] /\ UNCHANGED items
     ELSE /\ \E t \in Missing : /\ \A u \in Missing \ {t} : Earlier(t, u)
                               /\ \E kind \in IF t \in Tombstoned(x) THEN {"unnamed", "named"} ELSE {"row"} :
                                    items' = [items EXCEPT ![t] = [origin |-> IF t \in x.seeds THEN "liked" ELSE "found",
                                                                   kind |-> kind]]
          /\ UNCHANGED job
  /\ UNCHANGED <<world, x, liked, searched, shown, faults>>

\* mutant: pairs whose search failed are recorded with the others.
MarkSearchedAll ==
  /\ job.step = "mark"
  /\ searched' = searched \cup x.searched
  /\ shown' = shown \cup x.found
  /\ x' = Fresh
  /\ job' = [job EXCEPT !.step = IF job.source = "full" THEN "chunk" ELSE "export",
                        !.source = "full", !.clean = @ /\ ~x.partial]
  /\ UNCHANGED <<world, liked, items, faults>>

MarkSearched ==
  /\ job.step = "mark"
  /\ searched' = searched \cup x.walked
  /\ shown' = shown \cup x.found
  /\ x' = Fresh
  /\ job' = [job EXCEPT !.step = IF job.source = "full" THEN "chunk" ELSE "export",
                        !.source = "full", !.clean = @ /\ ~x.partial]
  /\ UNCHANGED <<world, liked, items, faults>>

Next ==
  \/ Like \/ Age \/ Crash
  \/ \E t \in Tweet : Return(t)
  \/ \E full, retry \in BOOLEAN : Start(full, retry)
  \/ ResolveTombstones \/ NameRefusals \/ Backfill \/ Fetch \/ NextChunk \/ Expanding \/ GiveUp
  \/ Upgrade \/ Insert \/ MarkSearched

Spec == Init /\ [][Next]_vars

-----------------------------------------------------------------------------
(* Properties                                                              *)

TypeOK ==
  /\ ExpanderTypeOK /\ liked \in 0 .. Len(Likes)
  /\ items \in [Tweet -> [origin : Origins, kind : Kinds]]
  /\ searched \subseteq {Pair(t) : t \in Tweet} /\ shown \subseteq Tweet
  /\ job \in Job /\ faults \in [crashes : 0 .. MaxCrashes, returned : SUBSET Tweet]

\* What a search returned has its row by the time the conversation is recorded
\* as searched, so that skipping it loses nothing (database.py:682-691).
SearchedIsKept == shown \subseteq Held

\* A like's thread, as the table has it.
Recorded(t) == items[t].origin = "liked" /\ Chain(t) \subseteq Held

\* Threads that a search can find, and that X served all along.
Findable(t) == Chain(t) \cap (world.unlisted \cup faults.returned) = {}

Finishes == job.step = "chunk" /\ DOMAIN job.queue = {} /\ job.clean /\ job'.step = "idle" /\ UNCHANGED faults

\* A walk of the whole timeline that nothing disturbed leaves every like and its
\* thread recorded, whatever runs were cut short or failed before it.
FullWalkHeals ==
  [][Finishes /\ job.full => \A t \in Range(Timeline) : Findable(t) => Recorded(t)]_vars

\* "an interrupted run resumes exactly where it stopped" (archiver.py:48-49): a
\* plain sync that nothing disturbed does the same.
InterruptedResumes ==
  [][Finishes => \A t \in Range(Timeline) : Findable(t) => Recorded(t)]_vars

\* A like X serves is not left a placeholder by a walk of the whole timeline
\* that nothing disturbed.
LikeHasContent ==
  [][Finishes /\ job.full => Range(Timeline) \cap Placeholders = {}]_vars

\* A tweet recovered from its placeholder has its graph followed (archiver.py:181-183).
RecoveredIsExplored ==
  [][Finishes /\ job.retry =>
       \A t \in Held \ Placeholders : t \in Served => ({world.parent[t], world.ref[t]} \ {None}) \subseteq Held]_vars

\* A row never goes back to being a placeholder, a like to being something found
\* along the way, a refusal with a reason to having none
\* (database.py:841-844, :1055-1060, archiver.py:26-27).
NeverDemoted ==
  [][\A t \in Tweet : /\ items[t].origin = "liked" => items'[t].origin = "liked"
                      /\ t \in Held \ Placeholders => items'[t].kind = "row"
                      /\ items[t].kind = "named" => items'[t].kind # "unnamed"]_vars
=============================================================================
