--------------------------- MODULE RedditArchive ---------------------------
(***************************************************************************)
(* The archive job of Reddit (platforms/reddit/archiver.py): for each      *)
(* category the live listing, newest first, then the refs of the account   *)
(* export in chunks.  Seeds are expanded into the posts and comments they  *)
(* hang on (expander.py), and the rows are inserted one commit at a time,  *)
(* seeds first.  A request may fail, which ends the category; a death      *)
(* may come between any two commits.                                       *)
(***************************************************************************)
EXTENDS Integers, Sequences, FiniteSets, Functions

CONSTANTS
  Things,      \* posts and comments
  Parent,      \* the thing a comment answers, or None
  Submission,  \* the post of a comment, or None for a post
  Categories,  \* CATEGORIES, in their order
  Votes,       \* what the account lists under each category, in that order
  Export,      \* parse_export: the refs under each category
  Fragile,     \* things Reddit may stop resolving, and resolve again
  Cap,         \* how much of a category Reddit's listing reaches back
  Batch,       \* REDDIT_EXPORT_BATCH
  MaxDepth,    \* MAX_DEPTH
  MaxFaults,   \* bound: categories that fail, runs that die
  None

VARIABLES
  voted,   \* how many of Votes each category has so far
  gone,    \* things Reddit resolves no more
  items,   \* table items
  filed,   \* table item_categories
  run,     \* ArchiveJob.run and its locals
  faults

vars == <<voted, gone, items, filed, run, faults>>

-----------------------------------------------------------------------------

Seed == Range(Categories)

\* What a theorem needs of the constants.
RedditAssumption ==
  /\ Categories \in Seq(Seed) /\ "none" \notin Seed /\ "found" \notin Seed
  /\ None \notin Things /\ Parent \in [Things -> Things \cup {None}] /\ Submission \in [Things -> Things \cup {None}]
  /\ Votes \in [Seed -> Seq(Things)] /\ Export \in [Seed -> Seq(Things)]
  /\ MaxDepth \in Nat /\ MaxFaults \in Nat

\* origin: a category, "found" for a thing met along the way, "none" without a row.
Absent == [origin |-> "none", tombstone |-> FALSE]

Held == {t \in Things : items[t].origin # "none"}

\* ids_by_origin
KnownOf(c) == {t \in Things : items[t].origin = c}

\* queue: categories to go.  seeds: those being recorded, by their positions.  upgrade and
\* found: what is still to be upgraded, and inserted.  listed: history, the listing as it was.
Idle == [step |-> "idle", full |-> FALSE, queue |-> <<>>, live |-> FALSE, seeds |-> <<>>, tombs |-> {}, found |-> {},
         upgrade |-> {}, listed |-> {}]

Init ==
  /\ voted = [c \in Seed |-> 0] /\ gone = {}
  /\ items = [t \in Things |-> Absent] /\ filed = {} /\ run = Idle /\ faults = 0

-----------------------------------------------------------------------------
(* The client and the expander                                             *)

\* The first n of some positions.
Leading(n, positions) == {i \in positions : Cardinality({j \in positions : j < i}) < n}

\* RedditClient.listing, newest first: what is gone is not listed.
Listing(c) ==
  LET newest == [i \in 1 .. voted[c] |-> Votes[c][voted[c] + 1 - i]]
  IN  Restrict(newest, Leading(Cap, {i \in DOMAIN newest : newest[i] \notin gone}))

\* fetch_live: up to the first that is known.
Live(c, known) ==
  LET listing == Listing(c)
  IN  Restrict(listing, {i \in DOMAIN listing : \A j \in DOMAIN listing : listing[j] \in known => i < j})

\* RedditClient.hydrate
Hydrated(S) == S \ gone

Above(t) == {Parent[t], Submission[t]} \ {None}

\* ThreadExpander.expand: what is known to begin with, and what that lacks.
Lacking(seeds, tombs) == [known |-> seeds, frontier |-> (UNION {Above(t) : t \in seeds \ tombs}) \ seeds]

\* A round of it.
Further(last) ==
  LET found == Hydrated(last.frontier)
      known == last.known \cup found
  IN  [known |-> known, frontier |-> (UNION {Above(t) : t \in found}) \ known]

Expanded(seeds, tombs) ==
  LET round[n \in 0 .. MaxDepth] == IF n = 0 THEN Lacking(seeds, tombs) ELSE Further(round[n - 1])
  IN  round[MaxDepth].known

-----------------------------------------------------------------------------
(* Everybody else                                                          *)

Vote(c) ==
  /\ voted[c] < Len(Votes[c])
  /\ voted' = [voted EXCEPT ![c] = @ + 1]
  /\ UNCHANGED <<gone, items, filed, run, faults>>

\* A thing is removed, or served again.
Change(t) ==
  /\ run.step = "idle" /\ t \in Fragile
  /\ gone' = IF t \in gone THEN gone \ {t} ELSE gone \cup {t}
  /\ UNCHANGED <<voted, items, filed, run, faults>>

\* A death, which ends the run, or a failure, after which it goes on with the
\* next category.
Fault ==
  /\ run.step # "idle" /\ faults < MaxFaults
  /\ \/ run' = Idle
     \/ run.queue # <<>> /\ run' = [Idle EXCEPT !.step = "category", !.full = run.full, !.queue = Tail(run.queue)]
  /\ faults' = faults + 1
  /\ UNCHANGED <<voted, gone, items, filed>>

-----------------------------------------------------------------------------
(* The run                                                                 *)

Start(full, queue) ==
  /\ run.step = "idle"
  /\ run' = [Idle EXCEPT !.step = "category", !.full = full, !.queue = queue]
  /\ UNCHANGED <<voted, gone, items, filed, faults>>

Category == Head(run.queue)

\* _archive_category, up to add_categories of what is listed.
List ==
  /\ run.step = "category"
  /\ IF run.queue = <<>> THEN run' = Idle /\ UNCHANGED filed
     ELSE LET live == Live(Category, IF run.full THEN {} ELSE KnownOf(Category)) IN
          /\ filed' = filed \cup {<<t, Category>> : t \in Range(live)}
          /\ run' = [run EXCEPT !.step = IF DOMAIN live = {} THEN "attribute" ELSE "expand", !.live = TRUE, !.seeds = live,
                                   !.listed = Range(Listing(Category))]
  /\ UNCHANGED <<voted, gone, items, faults>>

\* mutant: refs are filed as their rows are inserted, and only then.
AttributeLater ==
  /\ run.step = "attribute"
  /\ run' = [run EXCEPT !.step = "chunk", !.live = FALSE]
  /\ UNCHANGED <<voted, gone, items, filed, faults>>

\* _backfill_from_export begins: add_categories of every ref.
Attribute ==
  /\ run.step = "attribute"
  /\ filed' = filed \cup {<<t, Category>> : t \in Range(Export[Category])}
  /\ run' = [run EXCEPT !.step = "chunk", !.live = FALSE]
  /\ UNCHANGED <<voted, gone, items, faults>>

\* mutant: what Reddit does not resolve is left out.
NoTombstones(refs) == {}

\* _tombstone
Tombstones(refs) == refs \cap gone

\* The refs that have no row yet, a chunk of them.
Chunk ==
  LET refs == Export[Category]
      queued == {i \in DOMAIN refs : refs[i] \notin Held}
      chunk == Restrict(refs, Leading(Batch, queued)) IN
  /\ run.step = "chunk"
  /\ run' = IF queued = {} THEN [run EXCEPT !.step = "category", !.queue = Tail(@), !.seeds = <<>>, !.listed = {}]
            ELSE LET tombs == Tombstones(Range(chunk)) IN
                 [run EXCEPT !.step = "expand", !.tombs = tombs,
                             !.seeds = Restrict(chunk, {i \in DOMAIN chunk : chunk[i] \in Hydrated(Range(chunk)) \cup tombs})]
  /\ UNCHANGED <<voted, gone, items, filed, faults>>

\* mutant: what was met along the way is upgraded with the seeds.
ExpandAll ==
  LET found == Expanded(Range(run.seeds), run.tombs) IN
  /\ run.step = "expand"
  /\ run' = [run EXCEPT !.step = "upgrade", !.found = found, !.upgrade = found \cap Held]
  /\ UNCHANGED <<voted, gone, items, filed, faults>>

\* The expansion, and what there is of it already.
Expand ==
  LET found == Expanded(Range(run.seeds), run.tombs) IN
  /\ run.step = "expand"
  /\ run' = [run EXCEPT !.step = "upgrade", !.found = found, !.upgrade = Range(run.seeds) \cap Held]
  /\ UNCHANGED <<voted, gone, items, filed, faults>>

\* upgrade_origin, seed by seed: of nothing but what was met along the way.
Upgrade ==
  /\ run.step = "upgrade"
  /\ IF run.upgrade = {} THEN run' = [run EXCEPT !.step = "insert", !.found = @ \ Held] /\ UNCHANGED items
     ELSE \E t \in run.upgrade :
            /\ items' = IF items[t].origin = "found" THEN [items EXCEPT ![t].origin = Category] ELSE items
            /\ run' = [run EXCEPT !.upgrade = @ \ {t}]
  /\ UNCHANGED <<voted, gone, filed, faults>>

\* Of some seeds, the one that comes first.
First(seeds) == {run.seeds[i] : i \in Leading(1, {i \in DOMAIN run.seeds : run.seeds[i] \in seeds})}

\* The next row: the seeds as they were listed, their tombstones, then the others.
Insert ==
  LET resolved == run.found \ run.tombs
      next == IF First(resolved) # {} THEN First(resolved)
              ELSE IF First(run.found) # {} THEN First(run.found) ELSE run.found IN
  /\ run.step = "insert"
  /\ IF run.found = {}
     THEN /\ run' = [run EXCEPT !.step = IF run.live THEN "attribute" ELSE "chunk", !.seeds = <<>>, !.tombs = {}]
          /\ UNCHANGED <<items, filed>>
     ELSE \E t \in next :
            /\ items' = [items EXCEPT ![t] = [origin |-> IF t \in Range(run.seeds) THEN Category ELSE "found",
                                              tombstone |-> t \in run.tombs]]
            /\ filed' = filed \cup {<<t, Category>>}
            /\ run' = [run EXCEPT !.found = @ \ {t}]
  /\ UNCHANGED <<voted, gone, faults>>

Job == List \/ Attribute \/ Chunk \/ Expand \/ Upgrade \/ Insert

Next ==
  \/ Job \/ Fault
  \/ \E c \in Seed : Vote(c)
  \/ \E t \in Things : Change(t)
  \/ \E full \in BOOLEAN : \E queue \in {Categories} \cup {<<c>> : c \in Seed} : Start(full, queue)

\* A run goes on while its process lives.
Spec == Init /\ [][Next]_vars /\ WF_vars(Job)

-----------------------------------------------------------------------------
(* Properties                                                              *)

TypeOK ==
  /\ voted \in [Seed -> Nat] /\ gone \subseteq Things /\ faults \in 0 .. MaxFaults
  /\ items \in [Things -> [origin : Seed \cup {"none", "found"}, tombstone : BOOLEAN]]
  /\ filed \subseteq Things \X Seed
  /\ run.step \in {"idle", "category", "attribute", "chunk", "expand", "upgrade", "insert"}
  /\ run.found \subseteq Things /\ run.upgrade \subseteq Range(run.seeds)

\* The category's part of the run ends without a failure.
CategoryEnds == run.step = "chunk" /\ run'.step = "category" /\ faults' = faults

Filed(t, c) == t \in Held /\ <<t, c>> \in filed

\* The things a comment hangs on, up to where the chain breaks off or is cut.
ContextOf(t) == Expanded({t}, {}) \ {t}

\* Whatever was cut short before, a category that is walked to the end has every
\* ref of the export recorded and filed under it; after a full run all of the
\* listing too, none of it as a mere find, with the things it hangs on
\* (archiver.py:93-105, database.py:841-844).
CategoryIsWhole ==
  [][CategoryEnds =>
       /\ \A t \in Range(Export[Category]) : Filed(t, Category)
       /\ run.full => \A t \in run.listed :
            Filed(t, Category) /\ items[t].origin \in Seed /\ ContextOf(t) \subseteq Held]_vars

\* What must end: each chunk shrinks the queue.
Running == run.step # "idle"

\* "it stops at the first already-archived item since ... listings are
\* newest-first" (live.py:2-3): a plain run has then all of the listing.
KnownIsTheEnd ==
  [][CategoryEnds => run.listed \subseteq Held]_vars

\* "each chunk is hydrated, expanded and committed before the next, so a stopped
\* run resumes from the database" (archiver.py:96-97)
ChunkResumes ==
  [][CategoryEnds /\ gone = {} => \A t \in Range(Export[Category]) \ gone : ~items[t].tombstone => ContextOf(t) \subseteq Held]_vars
=============================================================================
