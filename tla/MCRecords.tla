------------------------------ MODULE MCRecords ------------------------------
(* What is recorded: the likes of TweetArchive, and beside it, each in runs  *)
(* of its own, the walk of a source, the profiles, the schema they are       *)
(* recorded under, and who reads them.  The five share no state here: part   *)
(* says which one moves.                                                     *)
EXTENDS TweetArchive

CONSTANTS a, b, s1, s2

\* Tweet 2 answers 1, by the same author, and may be withheld at first; 4 answers
\* 3, both by somebody else, and 3 quotes 1 or 2; the search index may miss all.
MCWorlds ==
  {[author |-> [t \in Tweet |-> IF t \in {3, 4} THEN b ELSE a],
    parent |-> [t \in Tweet |-> IF t = 2 THEN 1 ELSE IF t = 4 THEN 3 ELSE None],
    ref |-> [t \in Tweet |-> IF t = 3 THEN quoted ELSE None],
    card |-> {}, gone |-> gone, unlisted |-> unlisted, closed |-> {}] :
     quoted \in {1, 2}, gone \in {{}, {2}}, unlisted \in {{}, Tweet}}

MCLikes == <<3, 1, 2>>
MCExport == <<3>>

VARIABLES
  part,
  kind, published, dropped, rows, walk, crashes,                                     \* SourceWalk
  shows, clock, versions, observed, images, refresh, fetching, seen, changes,        \* Profiles
  file, backups, proc, now, deaths,                                                  \* Migrations
  there, times, layout, opened, reading, moves                                       \* Reader

\* Three posts, the text of the second no longer than a marker; two names.
S == INSTANCE SourceWalk WITH Posts <- 3, Kinds <- {"profile", "subreddit"}, Drafts <- {2}, Source <- {s1, s2},
       Cap <- 2, Batch <- 2, Shell <- FALSE, MaxCrashes <- 1, shown <- published

\* Two accounts; the history of one may have been merged from two.
Named(handle, last) == [handle |-> handle, bio |-> None, avatar |-> None, last |-> last]
Wrote == [one |-> 3, other |-> 1]

P == INSTANCE Profiles WITH Accounts <- DOMAIN Wrote, Handles <- {"x", "y"}, Bios <- {"p"}, Keys <- {"k"},
       Posts <- Wrote, Seeds <- {<<Named("x", 1)>>, <<Named("x", 1), Named("y", 0)>>},
       Attempts <- 2, Batch <- 1, Shell <- FALSE, MaxNow <- 2, MaxChanges <- 1, now <- clock

ASSUME P!ProfilesAssumption

\* Builds that skip some of the others' steps.
M == INSTANCE Migrations WITH Process <- {1}, Builds <- {1, 2, 4, 7}, Kept <- 2, Together <- FALSE,
       MaxDeaths <- 3, MaxNow <- 3

\* Two archives, the second of which is made while somebody reads; rows of one time
\* within the first and in both, and one without a time that may be restored with one.
Two == <<"a", "b">>
Kept == <<"a", "b", "a", "a", "b">>
Stamps == <<2, 2, 0, 2, 0>>
Stamped == <<0, 0, 3, 0, 0>>
Ranks == <<-3, -3, -1, -2, -1>>

D == INSTANCE Reader WITH Platforms <- Two, PlatformOf <- Kept, Times <- Stamps, Restored <- Stamped, Scores <- Ranks,
       Wanted <- {1, 3}, Later <- {2, 5}, Generations <- {"none", "old"},
       Ways <- {"timeline", "relevance", "newest", "oldest"}, Limit <- 1, Filters <- {"any", "column", "authors"},
       MaxMoves <- 2, time <- times, schema <- layout, walk <- reading

likes == <<world, x, liked, items, searched, shown, job, faults>>
sources == <<kind, published, dropped, rows, walk, crashes>>
profiles == <<shows, clock, versions, observed, images, refresh, fetching, seen, changes>>
schema == <<file, backups, proc, now, deaths>>
reader == <<there, times, layout, opened, reading, moves>>

\* A part that does not move begins in one of its states.
RecordsInit ==
  /\ part \in {"likes", "sources", "profiles", "schema", "reader"}
  /\ Init /\ S!Init /\ P!Init /\ M!Init /\ D!Init
  /\ part # "likes" => world = CHOOSE w \in Worlds : TRUE
  /\ part # "sources" => kind = "profile"
  /\ Len(versions["other"]) = 1
  /\ part # "profiles" => /\ Len(versions["one"]) = 1
                          /\ shows = [i \in DOMAIN Wrote |-> [handle |-> "x", bio |-> "p", avatar |-> "k"]]
  /\ part # "schema" => file.schema = {}
  /\ part # "reader" => layout = [p \in {"a", "b"} |-> "old"]

RecordsNext ==
  \/ part = "likes" /\ Next /\ UNCHANGED <<part, sources, profiles, schema, reader>>
  \/ part = "sources" /\ S!Next /\ UNCHANGED <<part, likes, profiles, schema, reader>>
  \/ part = "profiles" /\ P!Next /\ UNCHANGED <<part, likes, sources, schema, reader>>
  \/ part = "schema" /\ M!Next /\ UNCHANGED <<part, likes, sources, profiles, reader>>
  \/ part = "reader" /\ D!Next /\ UNCHANGED <<part, likes, sources, profiles, schema>>

RecordsSpec == RecordsInit /\ [][RecordsNext]_<<part, likes, sources, profiles, schema, reader>>

-----------------------------------------------------------------------------

\* What the variables of the part that moves range over.
TypesOK ==
  CASE part = "likes" -> TypeOK [] part = "sources" -> S!TypeOK [] part = "profiles" -> P!TypeOK
    [] part = "schema" -> M!TypeOK [] part = "reader" -> D!TypeOK

\* A walk of the whole timeline that nothing disturbed records every like with its
\* thread, and a walk of a source that ends leaves nothing above its watermark out;
\* whoever reads to the last page has seen every row that was there, once.
WalksAreWhole == FullWalkHeals /\ S!WalkIsWhole /\ [][D!PagesAreWhole']_reader

\* No row becomes a placeholder again, and no like a mere find; no walk takes back
\* the text, the source or the category of a row.
RowsOnlyGain == NeverDemoted /\ S!NothingIsTakenBack

\* The latest version of an account says what was last said of it, and a picture
\* that is named again is tried again.
ProfilesAreCurrent == P!LatestIsLastSaid /\ P!RenewedIsTried

\* A refresh that ends asks about none of its accounts again.
RefreshSettles == P!RefreshSettles

\* The version a file reports is what its schema is, and a file with content was
\* copied before a step runs on it.
SchemaIsSafe == part = "schema" => M!VersionIsTruth /\ M!CopiedFirst
=============================================================================
