----------------------------- MODULE MCFetchers -----------------------------
(* What is fetched, and ends: the walks of TwitterClient, and beside it,     *)
(* each in runs of its own, the archive jobs of Instagram and Reddit, the    *)
(* supervisor of the bridge, and the captioning of what is fetched.  They    *)
(* share no state: part says which one moves.                                *)
EXTENDS TwitterClient

VARIABLES
  part,
  category, listed, cols, held, saved, cursor, fetch, due, cuts,                   \* FeedWalk
  voted, gone, items, filed, run, faults,                                          \* RedditArchive
  device, requested, qr, child, loop, built, waiting, asked, clicks, exits,        \* Sidecar
  kind, archived, caption, attempts, session, mishaps                              \* CaptionCalls

\* Four posts, or two in a collection and in "All posts"; one that another run may
\* record, a page of two that cannot be read, and a shared one whose id resolves to nothing.
FeedPosts == [likes |-> 4, saved |-> 2, shared |-> 4]
FeedPages == [likes |-> 2, saved |-> 1, shared |-> 3]
FeedCategories == DOMAIN FeedPosts
Second == {2}
Others == {3, 4}
First == {1}

F == INSTANCE FeedWalk WITH Posts <- FeedPosts, Categories <- FeedCategories, PageSize <- FeedPages,
       Named <- 1, Elsewhere <- Second, Broken <- Others, Poison <- First,
       Amount <- 2, MaxCuts <- 1, filed <- saved, walk <- fetch

ASSUME F!FeedsAssumption

\* Comment 3 answers comment 2 on post 1; 4 is a post; 2 is in the export only.
Things == 1 .. 4
Answers3 == <<0, 1, 2, 0>>
PostOf == <<0, 1, 1, 0>>
Listings == <<"saved", "own">>
Voted == [saved |-> <<4, 3>>, own |-> <<3, 2>>]
Exported == [saved |-> <<2>>, own |-> <<2, 3>>]

R == INSTANCE RedditArchive WITH Parent <- Answers3, Submission <- PostOf, Categories <- Listings,
       Votes <- Voted, Export <- Exported, Fragile <- Second, Cap <- 2, Batch <- 1, MaxDepth <- 3,
       MaxFaults <- 1, None <- 0

ASSUME R!RedditAssumption

B == INSTANCE Sidecar WITH MaxClicks <- 3, MaxExits <- 3

\* A conversation longer than the window, whose two videos do not fit one call and
\* whose last post comes later, and a post without media.
Conversation == <<1, 1, 1, 4>>
Media == <<1, 1, 2, 0>>
Clips == {1, 2}
CaptionKinds == {"thread", "post"}
RunLimits == {2, 5}

K == INSTANCE CaptionCalls WITH Root <- Conversation, Files <- Media, Late <- {3}, Videos <- Clips, Kinds <- CaptionKinds,
       MaxFiles <- 2, MaxVideos <- 1, Window <- 2, Concurrency <- 1, Batch <- 1, MaxAttempts <- 2,
       Limits <- RunLimits, MaxFaults <- 1, run <- session, faults <- mishaps

feeds == <<category, listed, cols, held, saved, cursor, fetch, due, cuts>>
reddit == <<voted, gone, items, filed, run, faults>>
bridge == <<device, requested, qr, child, loop, built, waiting, asked, clicks, exits>>
captions == <<kind, archived, caption, attempts, session, mishaps>>
all == <<part, vars, feeds, reddit, bridge, captions>>

\* A part that does not move begins in one of its states.
FetchersInit ==
  /\ part \in {"client", "feeds", "reddit", "bridge", "captions"}
  /\ Init /\ F!Init /\ R!Init /\ B!Init /\ K!Init
  /\ part # "client" => walk.op = "batch" /\ ~walk.digits /\ index = [p \in Pair |-> {}]
  /\ part # "feeds" => category = "likes"
  /\ part # "bridge" => ~device /\ ~built
  /\ part # "captions" => kind = "thread"

Client(action) == part = "client" /\ action /\ UNCHANGED <<part, feeds, reddit, bridge, captions>>
Feeds(action) == part = "feeds" /\ action /\ UNCHANGED <<part, vars, reddit, bridge, captions>>
Reddit(action) == part = "reddit" /\ action /\ UNCHANGED <<part, vars, feeds, bridge, captions>>
Bridge(action) == part = "bridge" /\ action /\ UNCHANGED <<part, vars, feeds, reddit, captions>>
Captions(action) == part = "captions" /\ action /\ UNCHANGED <<part, vars, feeds, reddit, bridge>>

FetchersNext == Client(Next) \/ Feeds(F!Next) \/ Reddit(R!Next) \/ Bridge(B!Next) \/ Captions(K!Next)

\* The fairness of the part that moves: of a walk, a run, the supervisor's loop, or
\* the captioning runs that follow one another.
Fair == Client(Next) \/ Feeds(F!Job) \/ Reddit(R!Job) \/ Bridge(B!Run) \/ Captions(K!Job \/ K!Starts)

FetchersSpec == FetchersInit /\ [][FetchersNext]_all /\ WF_all(Fair)

-----------------------------------------------------------------------------

\* What the variables of the parts range over.
TypesOK == F!TypeOK /\ R!TypeOK /\ B!TypeOK /\ K!TypeOK

\* A full walk of a feed that ends has what was there when it began, and a category
\* of Reddit walked to its end is recorded with the things it hangs on; a run that
\* captions has every post whole in one call, and no call that is too large.
RunsAreWhole == F!FullWalkIsWhole /\ R!CategoryIsWhole /\ [][K!CallsFit']_captions

\* There is no bridge the supervisor does not wait for.
BridgeIsSupervised == B!BridgeIsSupervised

\* What is under way, by the part that moves, and what it comes to.
Pending ==
  \/ part = "client" /\ walk.at # "over"
  \/ part = "feeds" /\ F!Walking
  \/ part = "reddit" /\ R!Running
  \/ part = "bridge" /\ B!Wanted
  \/ part = "captions" /\ K!Backlog

Settled ==
  \/ part = "client" /\ walk.at = "over"
  \/ part = "feeds" /\ (~F!Walking \/ F!PastTheEnd)
  \/ part = "reddit" /\ ~R!Running
  \/ part = "bridge" /\ B!Served
  \/ part = "captions" /\ ~K!Backlog

\* A walk ends, whatever requests its server refuses and whether or not it names a
\* page after its last (client.py:485, page.py:18-21); but for a thread of Instagram,
\* which is asked for as long as pages are named that hold nothing (shared.py:58-59).
\* Every chunk of an export shrinks what is left of it (reddit/archiver.py:117-118);
\* a device is synced again after whatever ended its bridge, a request answered,
\* the one made while another pairing failed too (sidecar.py:74-76); no post waits
\* for its caption for ever, one that a limit or the window left out (caption.py:180-182).
EverythingEnds == Pending ~> Settled
=============================================================================
