----------------------------- MODULE SourceWalk -----------------------------
(***************************************************************************)
(* The walk of a source (core/sources.py): an account of X by search,      *)
(* newest first, down to the newest post held (platforms/twitter/          *)
(* sources.py), or a subreddit from a dump that may still be growing,      *)
(* oldest first (platforms/reddit/sources.py).                             *)
(*                                                                         *)
(* A batch takes four commits: the posts that are new, the content of the  *)
(* rows that lacked it, the category of the others, and their source.  A   *)
(* walk may be cut short before any of them.                               *)
(***************************************************************************)
EXTENDS Integers, FiniteSets

CONSTANTS
  Posts,      \* bound: how many posts there will be; ids go by time
  Kinds,      \* the kinds of source looked at: "profile", "subreddit"
  Drafts,     \* posts whose text is no longer than a marker
  Source,     \* the names the source is tracked under
  Cap,        \* the most a search returns
  Batch,      \* BATCH: records in a batch of a dump
  Shell,      \* whether somebody archives likes from a shell meanwhile
  MaxCrashes, \* bound: walks cut short
  None

VARIABLES
  kind,     \* the kind of source; constant
  shown,    \* the source has posts 1 .. shown, in the dump as whole lines
  dropped,  \* posts the platform serves no more; those the dump has no text of
  rows,     \* table items
  walk,     \* SourceJob.run and its locals
  crashes

vars == <<kind, shown, dropped, rows, walk, crashes>>

-----------------------------------------------------------------------------

Post == 1 .. Posts

\* marker: a record of a post that lacks its content (lacks_content).
Absent == [text |-> "none", source |-> None, filed |-> FALSE]

Row == [text : {"none", "marker", "post"}, source : Source \cup {None}, filed : BOOLEAN]

Held == {p \in Post : rows[p].text # "none"}

\* next: the slice's max_id, or the line read next.  last: no batch comes after
\* this one.  old: the rows of the batch as held() returned them.
Idle == [step |-> "idle", source |-> None, since |-> None, next |-> 0, batch |-> {}, old |-> [p \in {} |-> Absent],
         last |-> FALSE, top |-> 0]

Init ==
  /\ kind \in Kinds /\ shown = 0 /\ dropped = {}
  /\ rows = [p \in Post |-> Absent] /\ walk = Idle /\ crashes = 0

\* What a record of the post holds where the walk finds it.
Text(p) == IF kind = "subreddit" /\ p \in dropped THEN "marker" ELSE "post"

-----------------------------------------------------------------------------
(* Everybody else                                                          *)

Publish ==
  /\ shown < Posts
  /\ shown' = shown + 1
  /\ \/ dropped' = dropped
     \/ kind = "subreddit" /\ dropped' = dropped \cup {shown + 1}
  /\ UNCHANGED <<kind, rows, walk, crashes>>

Drop(p) ==
  /\ kind = "profile" /\ p \in (1 .. shown) \ dropped
  /\ dropped' = dropped \cup {p}
  /\ UNCHANGED <<kind, shown, rows, walk, crashes>>

\* The archive job records a post that was liked, or that it was refused.
Like(p) ==
  /\ p <= shown /\ p \notin Held
  /\ Shell \/ walk.step = "idle"
  /\ \E text \in {"marker", "post"} : rows' = [rows EXCEPT ![p] = [Absent EXCEPT !.text = text]]
  /\ UNCHANGED <<kind, shown, dropped, walk, crashes>>

Crash ==
  /\ walk.step # "idle" /\ crashes < MaxCrashes
  /\ walk' = Idle /\ crashes' = crashes + 1
  /\ UNCHANGED <<kind, shown, dropped, rows>>

-----------------------------------------------------------------------------
(* The walk                                                                *)

\* newest_source_item
Watermark(s) ==
  LET mine == {p \in Held : rows[p].source = s}
  IN  IF mine = {} THEN None ELSE CHOOSE p \in mine : \A q \in mine : q <= p

Start(s, full) ==
  /\ walk.step = "idle"
  /\ walk' = [Idle EXCEPT !.step = "read", !.source = s, !.since = IF full THEN None ELSE Watermark(s),
                          !.next = IF kind = "profile" THEN shown ELSE 1, !.top = shown]
  /\ UNCHANGED <<kind, shown, dropped, rows, crashes>>

\* A batch and what held() says of it, or the end of the walk.
Take(batch, next, last) ==
  walk' = IF batch # {}
          THEN [walk EXCEPT !.step = "insert", !.batch = batch, !.next = next, !.last = last,
                            !.old = [p \in batch \cap Held |-> rows[p]]]
          ELSE IF last THEN Idle ELSE [walk EXCEPT !.next = next]

\* mutant: a slice under the cap ends the walk, as it does in a conversation.
SliceShort ==
  LET below == {p \in 1 .. walk.next : p \notin dropped} IN
  /\ walk.step = "read" /\ kind = "profile"
  /\ IF below = {} THEN Take({}, 0, TRUE)
     ELSE \E oldest \in below :
            LET found == {p \in below : p >= oldest} IN
            /\ Cardinality(found) <= Cap
            /\ Take({p \in found : walk.since = None \/ p > walk.since}, oldest - 1, Cardinality(found) < Cap)
  /\ UNCHANGED <<kind, shown, dropped, rows, crashes>>

\* A search below the last slice: the newest posts there, however few it deigns
\* to return.
Slice ==
  LET below == {p \in 1 .. walk.next : p \notin dropped} IN
  /\ walk.step = "read" /\ kind = "profile"
  /\ IF below = {} THEN Take({}, 0, TRUE)
     ELSE \E oldest \in below :
            LET found == {p \in below : p >= oldest} IN
            /\ Cardinality(found) <= Cap
            /\ Take({p \in found : walk.since = None \/ p > walk.since}, oldest - 1,
                    walk.since # None /\ oldest <= walk.since)
  /\ UNCHANGED <<kind, shown, dropped, rows, crashes>>

\* The next whole lines of the dump; since is ignored.
Lines ==
  LET upto == IF walk.next + Batch - 1 <= shown THEN walk.next + Batch - 1 ELSE shown IN
  /\ walk.step = "read" /\ kind = "subreddit"
  /\ Take(walk.next .. upto, upto + 1, upto - walk.next + 1 < Batch)
  /\ UNCHANGED <<kind, shown, dropped, rows, crashes>>

Old == DOMAIN walk.old

Step(from, to) == walk.step = from /\ walk' = [walk EXCEPT !.step = to]

\* insert_many of the posts that held() did not return.
InsertMany ==
  /\ Step("insert", "restore")
  /\ rows' = [p \in Post |-> IF p \notin walk.batch \ Old THEN rows[p]
                             ELSE IF p \in Held THEN [rows[p] EXCEPT !.filed = TRUE]
                             ELSE [text |-> Text(p), source |-> walk.source, filed |-> TRUE]]
  /\ UNCHANGED <<kind, shown, dropped, crashes>>

\* mutant: a record that lacks the content too is put in the place of a row.
RestoreAny ==
  /\ Step("restore", "file")
  /\ rows' = [p \in Post |-> IF p \in Old THEN [rows[p] EXCEPT !.text = Text(p)] ELSE rows[p]]
  /\ UNCHANGED <<kind, shown, dropped, crashes>>

\* restore_content: a text for a marker, where it is longer.
Restore ==
  /\ Step("restore", "file")
  /\ rows' = [p \in Post |-> IF p \in Old /\ walk.old[p].text = "marker" /\ Text(p) = "post" /\ p \notin Drafts
                             THEN [rows[p] EXCEPT !.text = "post"] ELSE rows[p]]
  /\ UNCHANGED <<kind, shown, dropped, crashes>>

\* add_categories
AddCategories ==
  /\ Step("file", "attribute")
  /\ rows' = [p \in Post |-> IF p \in Old THEN [rows[p] EXCEPT !.filed = TRUE] ELSE rows[p]]
  /\ UNCHANGED <<kind, shown, dropped, crashes>>

\* attribute_to_source, and on to the next batch.
Attribute ==
  /\ walk.step = "attribute"
  /\ rows' = [p \in Post |-> IF p \in Old /\ rows[p].source = None THEN [rows[p] EXCEPT !.source = walk.source]
                             ELSE rows[p]]
  /\ walk' = IF walk.last THEN Idle ELSE [walk EXCEPT !.step = "read", !.batch = {}, !.old = Idle.old]
  /\ UNCHANGED <<kind, shown, dropped, crashes>>

Next ==
  \/ Publish \/ Crash
  \/ \E p \in Post : Like(p) \/ Drop(p)
  \/ \E s \in Source, full \in BOOLEAN : Start(s, full)
  \/ Slice \/ Lines \/ InsertMany \/ Restore \/ AddCategories \/ Attribute

Spec == Init /\ [][Next]_vars

-----------------------------------------------------------------------------
(* Properties                                                              *)

TypeOK ==
  /\ kind \in Kinds /\ shown \in 0 .. Posts /\ dropped \subseteq 1 .. shown
  /\ rows \in [Post -> Row] /\ crashes \in 0 .. MaxCrashes
  /\ walk.step \in {"idle", "read", "insert", "restore", "file", "attribute"}
  /\ walk.since \in Post \cup {None} /\ Old \subseteq walk.batch /\ walk.batch \subseteq Post

Ends == walk.step # "idle" /\ walk'.step = "idle" /\ crashes' = crashes

\* What a walk that goes on from since has to answer for.
Due(since) ==
  IF kind = "subreddit" THEN 1 .. walk.top
  ELSE {p \in 1 .. walk.top : p \notin dropped /\ (since = None \/ p > since)}

\* Whatever walks were cut short before it, a walk that ends has recorded every
\* post above the one it stops at, has it in the source's category and under a
\* source; the dump's, all of it (twitter/sources.py:10-15, reddit/sources.py:14-15).
WalkIsWhole ==
  [][Ends => \A p \in Due(walk.since) : rows'[p].filed /\ rows'[p].source # None]_vars

\* No walk takes a text back for a marker, a row from the source it was first
\* attributed to, or a row out of the category (database.py:783-793, :1289-1295).
NothingIsTakenBack ==
  [][\A p \in Held : /\ rows[p].text = "post" => rows'[p].text = "post"
                     /\ rows[p].source # None => rows'[p].source = rows[p].source
                     /\ rows[p].filed => rows'[p].filed]_vars

\* "an interrupted walk keeps everything up to the last one and resumes from the
\* watermark rather than starting over" (core/sources.py:105-106)
ResumesFromWatermark ==
  [][Ends => \A p \in Due(None) : rows'[p].filed]_vars

\* "a walk that returns the tweet is entitled to replace it" (twitter/sources.py:50-51)
RefusedIsReplaced ==
  [][Ends /\ walk.since = None => \A p \in Due(None) \ dropped : rows'[p].text = "post"]_vars
=============================================================================
