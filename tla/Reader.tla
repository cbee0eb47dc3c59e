-------------------------------- MODULE Reader --------------------------------
(***************************************************************************)
(* Reading the archives page by page (read/store.py), beside the archiver  *)
(* that writes and migrates them.  A timeline goes on below the last row of *)
(* its page, by the time as stored and the id; a search, after as many hits *)
(* as it has shown.  Every archive is asked in turn, and the answers merged. *)
(***************************************************************************)
EXTENDS Integers, Sequences, FiniteSets, FiniteSetsExt, SequencesExt

CONSTANTS
  Platforms,    \* the archives, in the order they are asked
  PlatformOf,   \* of each row, its archive; a later row has the greater item_id
  Times,        \* of each row, the rank of its created_at as stored, 0 for NULL
  Restored,     \* of each row without one, the time it may be restored with
  Scores,       \* of each row, its relevance in a full-text index, the best lowest
  Wanted,       \* rows the filter matches
  Later,        \* rows that come in while somebody reads
  Generations,  \* what an archive may be at first
  Ways,         \* "timeline", or the sort of a search
  Limit,        \* rows of a page
  Filters,      \* what the filter needs: "any" schema, one with a "column", or the table of "authors"
  MaxMoves      \* bound: migrations and restores

VARIABLES
  there,   \* rows in the archives
  time,    \* items.created_at
  schema,  \* of each archive: "none" there, an "empty" file, the "old" schema or the "new"
  opened,  \* ArchiveReader._archives: the schema an archive had when it was opened, or "none"
  walk,    \* a person's way through the pages
  moves

vars == <<there, time, schema, opened, walk, moves>>

-----------------------------------------------------------------------------

Row == DOMAIN PlatformOf

Archive == ToSet(Platforms)

\* Before the first row.
Top == [time |-> -1, row |-> 0]

Idle == [at |-> "idle", way |-> "timeline", filter |-> "any", todo |-> <<>>, got |-> {}, cursor |-> Top,
         shown |-> <<>>, due |-> {}, still |-> TRUE]

Init ==
  /\ there = Row \ Later /\ time = Times
  /\ schema \in [Archive -> Generations]
  /\ \A r \in there : schema[PlatformOf[r]] \in {"old", "new"}
  /\ opened = [p \in Archive |-> "none"] /\ walk = Idle /\ moves = 0

-----------------------------------------------------------------------------
(* The archiver                                                            *)

\* A row comes in.
Insert(r) ==
  /\ r \notin there /\ schema[PlatformOf[r]] = "new"
  /\ there' = there \cup {r}
  /\ walk' = [walk EXCEPT !.still = FALSE]
  /\ UNCHANGED <<time, schema, opened, moves>>

\* restore_content fills the time of a row that had none.
Restore(r) ==
  /\ r \in there /\ time[r] = 0 /\ Restored[r] # 0 /\ moves < MaxMoves
  /\ time' = [time EXCEPT ![r] = Restored[r]] /\ moves' = moves + 1
  /\ walk' = [walk EXCEPT !.still = FALSE, !.due = @ \ {r}]
  /\ UNCHANGED <<there, schema, opened>>

\* The archiver makes the file, and then the schema, or migrates an old one.
Migrate(p) ==
  /\ schema[p] # "new" /\ moves < MaxMoves
  /\ schema' = [schema EXCEPT ![p] = IF @ = "none" THEN "empty" ELSE "new"] /\ moves' = moves + 1
  /\ UNCHANGED <<there, time, opened, walk>>

-----------------------------------------------------------------------------
(* ArchiveReader                                                           *)

\* _archive: the schema read when the archive was first opened holds from then on.
Read(p) == IF opened[p] # "none" THEN opened[p] ELSE IF schema[p] \in {"old", "new"} THEN schema[p] ELSE "none"

\* _where, and the rows as they are read: a column that is not there matches nothing.
Matches(p, filter) ==
  IF Read(p) = "none" \/ (filter = "column" /\ Read(p) = "old") THEN {}
  ELSE {[row |-> r, time |-> time[r]] : r \in {s \in there : PlatformOf[s] = p /\ (filter = "any" \/ s \in Wanted)}}

Rows(S) == {e.row : e \in S}

\* Timed rows by time and id from the last, then those without one.
Newer(e, f) == e.time > f.time \/ (e.time = f.time /\ e.row > f.row)

Older(e, f) ==
  IF e.time = 0 \/ f.time = 0 THEN e.time # 0 \/ (f.time = 0 /\ e.row < f.row)
  ELSE e.time < f.time \/ (e.time = f.time /\ e.row < f.row)

\* An archive without an index finds words, and knows no relevance.
Score(e) == IF opened[PlatformOf[e.row]] = "new" THEN Scores[e.row] ELSE 0

\* _SORT and _SEARCH_ORDER, of one archive.
SearchOrder(way, e, f) ==
  CASE way = "oldest" -> Older(e, f)
    [] way = "relevance" /\ Score(e) # Score(f) -> Score(e) < Score(f)
    [] way = "relevance" /\ Score(e) = Score(f) /\ Score(e) # 0 -> e.row > f.row
    [] OTHER -> Newer(e, f)

\* _merge, _order: of all of them, ties by recency.
MergeOrder(way, e, f) ==
  CASE way = "oldest" -> Older(e, f)
    [] way = "relevance" /\ Score(e) # Score(f) -> Score(e) < Score(f)
    [] OTHER -> Newer(e, f)

\* The first n of S in the order asked for.
FirstOf(S, n) == {e \in S : Cardinality({f \in S : f # e /\ SearchOrder(walk.way, f, e)}) < n}

\* mutant: the boundary is the time alone.
BelowTime(cursor, e) == cursor = Top \/ e.time < cursor.time

\* Past the cursor: a cursor without a time is among the rows without one.
Below(cursor, e) == cursor = Top \/ e.time < cursor.time \/ (e.time = cursor.time /\ e.row < cursor.row)

Timeline == walk.way = "timeline"

\* A person begins to read.
Open(way, filter) ==
  /\ walk.at = "idle"
  /\ walk' = [Idle EXCEPT !.at = "ask", !.way = way, !.filter = filter, !.todo = Platforms,
                          !.due = Rows(UNION {Matches(p, filter) : p \in Archive})]
  /\ UNCHANGED <<there, time, schema, opened, moves>>

\* The next archive opens, where there is one.  The filter by author names a table
\* an old one lacks, and raises.
OpenArchive ==
  /\ walk.at = "ask" /\ walk.todo # <<>>
  /\ LET p == Head(walk.todo) IN
     /\ opened' = [opened EXCEPT ![p] = Read(p)]
     /\ walk' = [walk EXCEPT !.at = IF Read(p) = "none" THEN "ask"
                                    ELSE IF walk.filter = "authors" /\ Read(p) = "old" THEN "raised"
                                    ELSE IF Timeline THEN "timed" ELSE "search",
                             !.todo = IF Read(p) = "none" THEN Tail(@) ELSE @]
  /\ UNCHANGED <<there, time, schema, moves>>

Asked(rows) == [walk EXCEPT !.at = "ask", !.todo = Tail(@), !.got = @ \cup rows]

\* _fetch: the timed run below the cursor, one row more than the page holds.
Timed ==
  /\ walk.at = "timed"
  /\ LET p == Head(walk.todo)
         rows == FirstOf({e \in Matches(p, walk.filter) : e.time # 0 /\ Below(walk.cursor, e)}, Limit + 1)
     IN  walk' = IF Cardinality(rows) > Limit THEN Asked(rows) ELSE [walk EXCEPT !.at = "tail", !.got = @ \cup rows]
  /\ UNCHANGED <<there, time, schema, opened, moves>>

\* And the rows without a time, as many as it left room for.
TimelessTail ==
  /\ walk.at = "tail"
  /\ LET p == Head(walk.todo)
         had == Cardinality({e \in walk.got : PlatformOf[e.row] = p})
     IN  walk' = Asked(FirstOf({e \in Matches(p, walk.filter) : e.time = 0 /\ Below(walk.cursor, e)}, Limit + 1 - had))
  /\ UNCHANGED <<there, time, schema, opened, moves>>

\* mutant: every archive is asked for a page.
WantedOfEachPage == Limit

\* _search_fts, _search_plain: what the archive has up to the end of the page.
WantedOfEach == Len(walk.shown) + Limit

SearchOne ==
  /\ walk.at = "search"
  /\ walk' = Asked(FirstOf(Matches(Head(walk.todo), walk.filter), WantedOfEach))
  /\ UNCHANGED <<there, time, schema, opened, moves>>

\* The page, which the last one has nothing after.
ShowPage ==
  /\ walk.at = "ask" /\ walk.todo = <<>>
  /\ LET Order(e, f) == MergeOrder(walk.way, e, f)
         ranked == SetToSortSeq(walk.got, Order)
         from == IF Timeline THEN 0 ELSE Len(walk.shown)
         page == SubSeq(ranked, from + 1, Min({from + Limit, Len(ranked)}))
         more == IF Timeline THEN Len(ranked) > Limit ELSE Len(page) = Limit
     IN  walk' = [walk EXCEPT !.at = IF more THEN "ask" ELSE "over", !.todo = IF more THEN Platforms ELSE <<>>, !.got = {},
                              !.shown = @ \o [i \in DOMAIN page |-> page[i].row],
                              !.cursor = IF Timeline /\ more THEN Last(page) ELSE @]
  /\ UNCHANGED <<there, time, schema, opened, moves>>

Leave ==
  /\ walk.at \in {"over", "raised"}
  /\ walk' = Idle
  /\ UNCHANGED <<there, time, schema, opened, moves>>

Next ==
  \/ \E r \in Row : Insert(r) \/ Restore(r)
  \/ \E p \in Archive : Migrate(p)
  \/ \E way \in Ways, filter \in Filters : Open(way, filter)
  \/ OpenArchive \/ Timed \/ TimelessTail \/ SearchOne \/ ShowPage \/ Leave

Spec == Init /\ [][Next]_vars

-----------------------------------------------------------------------------
(* Properties                                                              *)

TypeOK ==
  /\ there \subseteq Row /\ time \in [Row -> Nat] /\ Rows(walk.got) \subseteq Row /\ walk.due \subseteq Row
  /\ schema \in [Archive -> {"none", "empty", "old", "new"}] /\ opened \in [Archive -> {"none", "old", "new"}]
  /\ walk.at \in {"idle", "ask", "timed", "tail", "search", "over", "raised"} /\ walk.shown \in Seq(Row)

\* No row is shown twice, and a timeline read to its end showed every row that was
\* there when it began and kept its place, whatever came in meanwhile (store.py:8-10);
\* so did a search, if nothing came in.
PagesAreWhole ==
  Timeline \/ walk.still =>
    /\ IsInjective(walk.shown)
    /\ walk.at = "over" => walk.due \subseteq ToSet(walk.shown)

\* "a viewer can point at any generation of archive" (store.py:5)
AnyGenerationAnswers == walk.at # "raised"
=============================================================================
