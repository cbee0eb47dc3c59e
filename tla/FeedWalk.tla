------------------------------ MODULE FeedWalk ------------------------------
(***************************************************************************)
(* The archive job of Instagram (platforms/instagram/archiver.py): liked   *)
(* posts are one feed, saved posts one feed per collection with "All       *)
(* posts" last, and shared posts the messages of a thread.  A page is      *)
(* filed under its collection, recorded post by post, and only then named  *)
(* by the cursor, from which the next full run goes on.                    *)
(***************************************************************************)
EXTENDS Integers, FiniteSets, FiniteSetsExt

CONSTANTS
  Posts,       \* bound: how many posts a category will have; later ones come first in a feed
  Categories,  \* the categories looked at
  Named,       \* collections of saved posts, by id; "All posts" is Named + 1
  Elsewhere,   \* posts a run of another category may record
  Broken,      \* posts whose record cannot be read
  Poison,      \* shared posts whose id resolves to nothing
  PageSize,    \* how many posts a page of each category holds
  Amount,      \* INSTAGRAM_CATCHUP_LIMIT, FETCH_BATCH_SIZE
  MaxCuts      \* bound: runs that die or whose request raises

VARIABLES
  category,  \* the category walked; constant
  listed,    \* Instagram: pairs of a post and a collection it is in
  cols,      \* Instagram: the collections
  held,      \* table items
  filed,     \* table item_collections
  cursor,    \* table fetch_cursors: a collection and a max_id, or None
  walk,      \* _archive_category and the fetcher's generator
  due,       \* history: what was listed when the walk began that the cursor resumes, and stayed
  cuts

vars == <<category, listed, cols, held, filed, cursor, walk, due, cuts>>

-----------------------------------------------------------------------------

\* What a theorem needs of the constants.
FeedsAssumption ==
  /\ Categories \subseteq {"likes", "saved", "shared"}
  /\ \A c \in Categories : Posts[c] \in Nat /\ PageSize[c] \in Nat \ {0}
  /\ {Named, Amount, MaxCuts} \subseteq Nat

Post == 1 .. Posts[category]

Chronological == {"likes", "shared"}

AllPosts == IF category = "saved" THEN Named + 1 ELSE 1

\* max_id is the oldest post of the page before, 0, or one of two below every post.
None == [col |-> 0, max_id |-> 0]

Idle == [step |-> "idle", full |-> FALSE, pending |-> {}, max_id |-> 0, fetched |-> 0, media |-> {}, new |-> FALSE,
         raw |-> {}, next |-> 0, yielded |-> FALSE]

Init ==
  /\ category \in Categories
  /\ listed = {} /\ cols = 1 .. AllPosts
  /\ held = {} /\ filed = {} /\ cursor = None /\ walk = Idle /\ due = {} /\ cuts = 0

-----------------------------------------------------------------------------
(* The account, and other categories                                       *)

Add(p, cs) ==
  /\ \A q \in p .. Posts[category] : <<q, AllPosts>> \notin listed
  /\ AllPosts \in cs /\ cs \subseteq cols
  /\ listed' = listed \cup {<<p, c>> : c \in cs}
  /\ UNCHANGED <<category, cols, held, filed, cursor, walk, due, cuts>>

Move(p, c) ==
  /\ category = "saved" /\ c \in cols \ {AllPosts} /\ <<p, AllPosts>> \in listed
  /\ listed' = IF <<p, c>> \in listed THEN listed \ {<<p, c>>} ELSE listed \cup {<<p, c>>}
  /\ due' = due \cap listed'
  /\ UNCHANGED <<category, cols, held, filed, cursor, walk, cuts>>

DeleteCollection(c) ==
  /\ c \in cols \ {AllPosts}
  /\ cols' = cols \ {c}
  /\ listed' = {m \in listed : m[2] # c} /\ due' = due \cap listed'
  /\ UNCHANGED <<category, held, filed, cursor, walk, cuts>>

\* A run of another category records the post.
Other(p) ==
  /\ walk.step = "idle" /\ p \in Elsewhere \ held
  /\ held' = held \cup {p}
  /\ UNCHANGED <<category, listed, cols, filed, cursor, walk, due, cuts>>

\* The process dies, or a request raises.
Cut ==
  /\ walk.step # "idle" /\ cuts < MaxCuts
  /\ walk' = Idle /\ cuts' = cuts + 1
  /\ UNCHANGED <<category, listed, cols, held, filed, cursor, due>>

-----------------------------------------------------------------------------
(* The fetchers                                                            *)

\* mutant: a batch with an id that resolves to nothing is lost.
ResolvedAtOnce(ids) == IF ids \cap Poison = {} THEN ids ELSE {}

\* _resolve_chunk: such a batch comes back empty, and is split.
Resolved(ids) ==
  LET Half == [S \in (SUBSET ids) \ {{}} |->
                 CHOOSE H \in SUBSET S : Cardinality(H) = Cardinality(S) \div 2 /\ \A p \in H, q \in S \ H : p > q]
      resolve[S \in SUBSET ids] ==
        IF S = {} \/ S \cap Poison = {} THEN S
        ELSE IF Cardinality(S) = 1 THEN {}
        ELSE resolve[Half[S]] \cup resolve[S \ Half[S]]
  IN  resolve[ids]

\* The media of a page.
Extracted(raw) == IF category = "shared" THEN Resolved(raw) \ Broken ELSE raw \ Broken

\* The n latest of S.
Latest(n, S) == {p \in S : Cardinality({q \in S : q > p}) < n}

Limited == ~walk.full

Room == Amount - walk.fetched

\* mutant: a feed ends when it names no next page.
HasMoreNamed(raw, next) == next # 0

\* MediaPage.has_more; a thread goes on for as long as it names a cursor.
HasMore(raw, next) == next # 0 /\ (category = "shared" \/ raw # {})

\* mutant: a page of a collection stands for all of it.
NextPositionOn ==
  LET after == {c \in walk.pending : c > Min(walk.pending)}
  IN  [col |-> IF after = {} THEN Min(walk.pending) ELSE Min(after), max_id |-> 0]

\* MediaPage.cursor, SavedFetcher._next_position
NextPosition ==
  LET after == {c \in walk.pending : c > Min(walk.pending)}
  IN  IF walk.next # 0 THEN [col |-> Min(walk.pending), max_id |-> walk.next]
      ELSE IF category # "saved" THEN None
      ELSE [col |-> IF after = {} THEN Min(walk.pending) ELSE Min(after), max_id |-> 0]

\* The end of a walk: a full one clears its cursor.
Ended(w) == [w EXCEPT !.step = "clear"]

\* What the generator does when it is asked for more.
Resumed(w) ==
  LET room == w.full \/ w.fetched < Amount
      rest == w.pending \ {Min(w.pending)}
  IN  IF room /\ HasMore(w.raw, w.next) THEN [w EXCEPT !.step = "page", !.max_id = w.next]
      ELSE IF room /\ rest # {} THEN [w EXCEPT !.step = "page", !.pending = rest, !.max_id = 0]
      ELSE Ended(w)

\* What a run keeps of a page.  A limited one keeps the first of it; those of a
\* thread page that had to be resolved come after the others.
PageMedia(media) ==
  IF ~Limited THEN {media}
  ELSE IF category = "shared" THEN {S \in SUBSET media : Cardinality(S) = Min({Room, Cardinality(media)})}
  ELSE {Latest(Room, media)}

\* A request for a page.  Instagram may name a next page where there is none, another every time.
Page ==
  /\ walk.step = "page"
  /\ LET below == {p \in Post : <<p, Min(walk.pending)>> \in listed /\ (walk.max_id = 0 \/ p < walk.max_id)}
         raw == Latest(PageSize[category], below)
     IN  \E media \in PageMedia(Extracted(raw)), more \in BOOLEAN :
           /\ raw # below => more
           /\ LET next == IF ~more THEN 0 ELSE IF raw # {} THEN Min(raw) ELSE IF walk.max_id = -1 THEN -2 ELSE -1
                  w == [walk EXCEPT !.fetched = @ + Cardinality(media), !.media = media, !.new = FALSE,
                                    !.raw = raw, !.next = next, !.yielded = media # {}]
              IN  walk' = IF media # {} \/ (category = "shared" /\ raw # {})
                          THEN [w EXCEPT !.step = "file"] ELSE Resumed(w)
  /\ UNCHANGED <<category, listed, cols, held, filed, cursor, due, cuts>>

-----------------------------------------------------------------------------
(* ArchiveJob._archive_category                                            *)

\* SavedFetcher._resume: where a walk from the cursor goes on, or all of it
\* where the cursor names no collection there is.
From(c) == IF c.col \in cols THEN [pending |-> {d \in cols : d >= c.col}, max_id |-> c.max_id]
           ELSE [pending |-> cols, max_id |-> 0]

Start(full) ==
  LET from == From(IF full THEN cursor ELSE None) IN
  /\ walk.step = "idle"
  /\ walk' = [Idle EXCEPT !.step = "page", !.full = full, !.pending = from.pending, !.max_id = from.max_id]
  /\ due' = IF full /\ cursor.col \notin cols THEN listed ELSE due
  /\ UNCHANGED <<category, listed, cols, held, filed, cursor, cuts>>

\* add_collections, before posts that are held are passed over.
File ==
  /\ walk.step = "file"
  /\ filed' = IF category = "saved" THEN filed \cup {<<p, Min(walk.pending)>> : p \in walk.media} ELSE filed
  /\ walk' = [walk EXCEPT !.step = "insert"]
  /\ UNCHANGED <<category, listed, cols, held, cursor, due, cuts>>

\* The next post of the page; a thread page has those it had to resolve last.
Insert(p) ==
  /\ walk.step = "insert" /\ p \in walk.media
  /\ category = "shared" \/ p = Max(walk.media)
  /\ held' = held \cup {p}
  /\ walk' = [walk EXCEPT !.media = @ \ {p}, !.new = @ \/ p \notin held]
  /\ UNCHANGED <<category, listed, cols, filed, cursor, due, cuts>>

\* The page is done: a full run saves its place, a plain one of a feed by time
\* stops at a page that had posts and none of them new.
SetCursor ==
  /\ walk.step = "insert" /\ walk.media = {}
  /\ cursor' = IF walk.full THEN NextPosition ELSE cursor
  /\ walk' = IF ~walk.full /\ category \in Chronological /\ walk.yielded /\ ~walk.new THEN Ended(walk) ELSE Resumed(walk)
  /\ UNCHANGED <<category, listed, cols, held, filed, due, cuts>>

ClearCursor ==
  /\ walk.step = "clear"
  /\ cursor' = IF walk.full THEN None ELSE cursor
  /\ walk' = Idle
  /\ UNCHANGED <<category, listed, cols, held, filed, due, cuts>>

Job == Page \/ File \/ (\E p \in Post : Insert(p)) \/ SetCursor \/ ClearCursor

Account ==
  \/ \E p \in Post, cs \in SUBSET cols : Add(p, cs)
  \/ \E p \in Post, c \in cols : Move(p, c)
  \/ \E c \in cols : DeleteCollection(c)

Next == Account \/ Cut \/ Job \/ (\E p \in Post : Other(p)) \/ \E full \in BOOLEAN : Start(full)

\* A run goes on while its process lives.
Spec == Init /\ [][Next]_vars /\ WF_vars(Job)

-----------------------------------------------------------------------------
(* Properties                                                              *)

TypeOK ==
  /\ held \subseteq Post /\ listed \subseteq Post \X cols /\ due \subseteq listed /\ cuts \in 0 .. MaxCuts
  /\ filed \subseteq Post \X (1 .. Named + 1)
  /\ cursor.col \in 0 .. AllPosts /\ cursor.max_id \in 0 .. Posts[category]
  /\ walk.step \in {"idle", "page", "file", "insert", "clear"} /\ walk.media \subseteq walk.raw
  /\ (walk.step # "idle" => walk.pending # {}) /\ walk.new \in BOOLEAN

Readable(p) == p \notin Broken /\ (category = "shared" => p \notin Poison)

\* However many runs it took, and whatever moved or was deleted meanwhile, a full
\* walk that ends has recorded what was there when it began, and filed it under
\* the collections it stayed in (archiver.py:34-38, database.py:656-657).
FullWalkIsWhole ==
  [][walk.step = "clear" /\ walk.full /\ walk'.step = "idle" /\ cuts' = cuts =>
       \A m \in due : Readable(m[1]) => m[1] \in held /\ (category = "saved" => m \in filed)]_vars

Walking == walk.step # "idle"

\* A thread's walk was named a page after one that held nothing, and asks for it.
PastTheEnd == category = "shared" /\ walk.max_id < 0

-----------------------------------------------------------------------------
(* What the code's own words claim and the code does not do                *)

\* "raw_count ... is what separates 'end of the feed' from 'every item on this page
\* failed to extract'" (page.py:10-12): a page that held nothing ends its feed.
EmptyPageIsTheEnd ==
  [][walk.step = "page" /\ walk'.step = "page" /\ walk' # walk /\ walk'.raw = {} => walk'.pending # walk.pending]_vars

\* "a page with nothing new means everything past it is archived too" (archiver.py:25)
KnownPageIsTheEnd ==
  [][walk.step = "insert" /\ walk.media = {} /\ walk.yielded /\ ~walk.new /\ ~walk.full /\ category \in Chronological
       => \A p \in Post : <<p, 1>> \in listed /\ p < Min(walk.raw) /\ Readable(p) => p \in held]_vars

\* "where a known page only ends that collection" (archiver.py:26)
KnownPageEndsItsCollection ==
  [][walk.step = "insert" /\ walk.media = {} /\ ~walk.full /\ category = "saved" /\ ~walk.new /\ walk'.step = "page"
       => walk'.pending # walk.pending]_vars
=============================================================================
