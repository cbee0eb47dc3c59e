---------------------------- MODULE TweetExpander ----------------------------
(***************************************************************************)
(* Everything connected to a set of seed tweets                            *)
(* (platforms/twitter/expander.py): references resolved in batches, the    *)
(* author's own thread found by searching the conversation, and a detail   *)
(* request where search cannot see it, in rounds until nothing is new.     *)
(*                                                                         *)
(* What X would answer is the world: who wrote which tweet, what it        *)
(* answers and quotes, which tweets X no longer serves, and which ones its *)
(* search index misses.  It does not change while a run looks at it.  A    *)
(* step is one call of the API client with what is done to its answer.     *)
(***************************************************************************)
EXTENDS Integers, FiniteSets

CONSTANTS
  Tweet,      \* tweet ids: a later tweet has a higher id
  Author,
  Worlds,     \* the worlds looked at
  MaxRounds,  \* MAX_ITERATIONS
  Faults,     \* whether a request may fail
  None

ASSUME ExpanderAssumption ==
  /\ Tweet \subseteq Nat /\ IsFiniteSet(Tweet) /\ None \notin Tweet
  /\ MaxRounds \in Nat \ {0} /\ Faults \in BOOLEAN

VARIABLES
  world,  \* what X holds; constant
  x       \* the expander's fields, and where its expand() is

-----------------------------------------------------------------------------
(* X                                                                       *)

World == [author : [Tweet -> Author],
          parent : [Tweet -> Tweet \cup {None}],  \* in_reply_to_status_id
          ref : [Tweet -> Tweet \cup {None}],     \* the tweet it quotes, retweets or links to
          card : SUBSET Tweet,        \* those whose payload embeds the quoted tweet
          gone : SUBSET Tweet,        \* not served any more, except embedded
          unlisted : SUBSET Tweet,    \* missed by the search index
          closed : SUBSET Author]     \* protected: invisible to search

\* What a theorem needs of the worlds: a tweet answers an older one.
WorldsAssumption ==
  Worlds \subseteq World /\ \A w \in Worlds, t \in Tweet : w.parent[t] = None \/ w.parent[t] < t

\* conversation_id: the tweet that started it.
Conv(t) ==
  LET root[u \in Tweet] == IF world.parent[u] = None THEN u ELSE root[world.parent[u]]
  IN  root[t]

Served == Tweet \ world.gone

\* reply_count > 0
Answered(t) == \E u \in Tweet : world.parent[u] = t

Pair(t) == <<world.author[t], Conv(t)>>

Listed(pair) == {t \in Served \ world.unlisted : Pair(t) = pair /\ world.author[t] \notin world.closed}

Tree(conv) == {t \in Tweet : Conv(t) = conv}

-----------------------------------------------------------------------------
(* What the expander knows                                                 *)

\* bare: a like of the export, an id and a text.  stub: a quote card, whose own
\* quote is not in the payload.
Knowledge == {"none", "bare", "stub", "full"}

Phase == {"idle", "resolve", "discover", "adopt", "climb", "done", "failed"}

Fresh == [phase |-> "idle", round |-> 0, progress |-> FALSE, partial |-> FALSE,
          known |-> [t \in Tweet |-> "none"], archived |-> {}, seeds |-> {}, tombstones |-> {},
          probes |-> {}, unresolvable |-> {}, searched |-> {}, walked |-> {}, detail |-> {},
          found |-> {}, seen |-> {}, core |-> {}, loose |-> {}, bystanders |-> {}]

Known(y) == {t \in Tweet : y.known[t] # "none"}

Better(old, new) == IF old = "none" \/ (old # "full" /\ new = "full") THEN new ELSE old

\* _ingest: the tweets of an answer, with the cards embedded in them.
Ingest(known, tweets) ==
  LET cards == {world.ref[t] : t \in tweets \cap world.card}
  IN  [t \in Tweet |-> IF t \in tweets THEN Better(known[t], "full")
                       ELSE IF t \in cards THEN Better(known[t], "stub") ELSE known[t]]

\* The references an expander can read off what it holds of t.
RefsOf(y, t) ==
  (CASE y.known[t] = "full" -> {world.parent[t], world.ref[t]}
     [] y.known[t] = "stub" -> {world.parent[t]} \cup (IF t \in world.card THEN {} ELSE {world.ref[t]})
     [] OTHER -> {}) \ {None}

Done(y) == {t \in Tweet : y.known[t] = "full"} \cup y.tombstones \cup y.unresolvable

PendingRefs(y) ==
  {t \in y.archived : y.known[t] \in {"bare", "stub"} /\ t \notin y.unresolvable}
    \cup ((UNION {RefsOf(y, t) : t \in y.archived}) \ Done(y))

PendingProbes(y) == (y.probes \ Done(y)) \ PendingRefs(y)

ToFetch(y) == PendingRefs(y) \cup PendingProbes(y)

\* mutant: what was fetched for a reference is not archived with it.
ResolvedOnly(y) ==
  LET missing == ToFetch(y) \cap world.gone
      known == Ingest(y.known, ToFetch(y) \cap Served)
  IN  [y EXCEPT !.known = known, !.unresolvable = @ \cup missing,
                !.tombstones = @ \cup {t \in missing \cap PendingRefs(y) : known[t] = "none"}]

\* get_tweets_by_ids and what becomes of its answer.
Resolved(y) ==
  LET refs == PendingRefs(y)
      missing == ToFetch(y) \cap world.gone
      known == Ingest(y.known, ToFetch(y) \cap Served)
  IN  [y EXCEPT !.known = known, !.unresolvable = @ \cup missing,
                !.tombstones = @ \cup {t \in missing \cap refs : known[t] = "none"},
                !.archived = @ \cup refs]

\* Archived tweets that have answers, and whose author is known.
Threads(y) == {t \in y.archived : y.known[t] \in {"stub", "full"} /\ Answered(t)}

PendingPairs(y) == {Pair(t) : t \in {u \in Threads(y) : world.author[u] \notin world.closed}} \ y.searched

ProtectedConvs(y) == {Conv(t) : t \in {u \in Threads(y) : world.author[u] \in world.closed}} \ y.detail

\* mutant: an empty search is taken at its word.
MissedNone(y, walked) == {}

\* Conversations that were searched and did not even return the tweet that led there.
Missed(y, walked) ==
  {p[2] : p \in {q \in walked : /\ Listed(q) = {}
                                /\ \E t \in y.archived : y.known[t] \in {"stub", "full"} /\ Pair(t) = q}} \ y.detail

\* _archive_thread_chains: an archived author's tweets that hang on the
\* archived ones, or on a tweet that is gone.
Candidates(y) ==
  {t \in Tweet : /\ y.known[t] \in {"stub", "full"}
                 /\ \E u \in y.archived : y.known[u] \in {"stub", "full"} /\ Pair(u) = Pair(t)}

Gone(y, t) == t \in y.tombstones \/ (t \in y.unresolvable /\ y.known[t] = "none")

Chained(y) ==
  LET chain[n \in 0 .. Cardinality(Tweet)] ==
        IF n = 0 THEN Candidates(y) \cap y.archived
        ELSE LET c == chain[n - 1] IN
             c \cup {t \in Candidates(y) : \/ \E p \in c : p = world.parent[t] /\ world.author[p] = world.author[t]
                                           \/ Gone(y, world.parent[t])}
  IN  chain[Cardinality(Tweet)]

Unknowns(y) ==
  {world.parent[t] : t \in {u \in Candidates(y) \ y.archived :
     world.parent[u] # None /\ ~Gone(y, world.parent[u]) /\ y.known[world.parent[u]] = "none"}}

WithChains(y) == [y EXCEPT !.archived = @ \cup Chained(y), !.probes = @ \cup Unknowns(y)]

Thread(y, convs) ==  \* get_thread, for conversations that answered
  LET trees == UNION {Tree(c) : c \in convs}
  IN  [y EXCEPT !.known = Ingest(y.known, trees \cap Served), !.seen = @ \cup (trees \cap Served),
                !.tombstones = @ \cup (trees \cap world.gone)]

\* mutant: a conversation whose detail was asked for is asked for again.
DiscoveredAgain(y, walked, convs, answered) ==
  LET found == UNION {Listed(p) : p \in walked}
      searched == [y EXCEPT !.searched = @ \cup PendingPairs(y), !.walked = @ \cup walked,
                            !.known = Ingest(y.known, found), !.found = @ \cup found]
  IN  WithChains(Thread(searched, answered))

\* get_conversation_author_tweets for the pairs of a round, of which some were
\* walked, then the fallback for the conversations in convs, of which some answered.
Discovered(y, walked, convs, answered) ==
  LET found == UNION {Listed(p) : p \in walked}
      searched == [y EXCEPT !.searched = @ \cup PendingPairs(y), !.walked = @ \cup walked,
                            !.known = Ingest(y.known, found), !.found = @ \cup found,
                            !.detail = @ \cup convs]
  IN  WithChains(Thread(searched, answered))

\* _adopt_ancestors: what is known above the adopted tweets.
Above(y) ==
  LET up[n \in 0 .. Cardinality(Tweet)] ==
        IF n = 0 THEN y.loose \cup y.bystanders
        ELSE LET below == up[n - 1] IN
             below \cup ({world.parent[t] : t \in {u \in below : y.known[u] \in {"stub", "full"}}} \cap Known(y))
  IN  up[Cardinality(Tweet)]

-----------------------------------------------------------------------------
(* expand()                                                                *)

Seeded(seeds, kind, skip) ==
  LET y == [Fresh EXCEPT !.seeds = seeds, !.archived = seeds, !.searched = skip, !.phase = "resolve"]
  IN  IF kind = "full" THEN [y EXCEPT !.known = Ingest(y.known, seeds)]
      ELSE [y EXCEPT !.known = [t \in Tweet |-> IF t \in seeds THEN "bare" ELSE "none"]]

Resolve ==
  /\ x.phase = "resolve"
  /\ x' = IF ToFetch(x) = {} THEN [x EXCEPT !.phase = "discover", !.progress = FALSE]
          ELSE [Resolved(x) EXCEPT !.phase = "discover", !.progress = TRUE]
  /\ UNCHANGED world

EndOfRound(y, progress) ==
  [y EXCEPT !.round = @ + 1, !.progress = progress,
            !.phase = IF progress /\ y.round + 1 < MaxRounds THEN "resolve" ELSE "adopt"]

Discover ==
  /\ x.phase = "discover"
  /\ \E walked \in SUBSET PendingPairs(x) :
       /\ PendingPairs(x) # {} => walked # {}  \* nothing walked at all is raised
       /\ Faults \/ walked = PendingPairs(x)
       /\ LET convs == ProtectedConvs(x) \cup Missed(x, walked) IN
          \E answered \in SUBSET convs :
            /\ Faults \/ answered = convs
            /\ LET y == Discovered(x, walked, convs, answered) IN
               x' = EndOfRound([y EXCEPT !.partial = @ \/ walked # PendingPairs(x) \/ answered # convs],
                               \/ x.progress \/ PendingPairs(x) # {} \/ convs # {}
                               \/ y.archived # x.archived \/ y.probes # x.probes)
  /\ UNCHANGED world

Adopt ==
  /\ x.phase = "adopt"
  /\ LET loose == x.found \ x.archived
         bystanders == (x.seen \ x.archived) \ loose IN
     x' = [x EXCEPT !.core = x.archived, !.loose = loose, !.bystanders = bystanders,
                    !.archived = @ \cup loose \cup bystanders, !.round = 0,
                    !.phase = IF loose \cup bystanders = {} THEN "done" ELSE "climb"]
  /\ UNCHANGED world

Climb ==
  /\ x.phase = "climb"
  /\ LET y == [x EXCEPT !.archived = @ \cup Above(x), !.round = @ + 1] IN
     x' = IF ToFetch(y) = {} THEN [y EXCEPT !.phase = "done"]
          ELSE [Resolved(y) EXCEPT !.phase = IF y.round < MaxRounds THEN "climb" ELSE "done"]
  /\ UNCHANGED world

\* A request failed in a way the expander does not survive; what it held is dropped.
Raise ==
  /\ Faults /\ \/ x.phase \in {"resolve", "climb"} /\ ToFetch(x) # {}
               \/ x.phase = "discover" /\ (PendingPairs(x) # {} \/ ProtectedConvs(x) # {})
  /\ x' = [Fresh EXCEPT !.phase = "failed"]
  /\ UNCHANGED world

Expand == Resolve \/ Discover \/ Adopt \/ Climb \/ Raise

-----------------------------------------------------------------------------
(* What expand() returns                                                   *)

\* _determine_origin, of a tweet that is not a seed.
Origin(y, t) ==
  LET holds(u) == y.known[u] = "full"
      citing == {u \in y.archived : world.ref[u] = t /\ (holds(u) \/ (y.known[u] = "stub" /\ u \notin world.card))}
      answers == {u \in y.archived : /\ y.known[u] \in {"stub", "full"} /\ world.parent[u] = t
                                     /\ (y.known[t] = "none" \/ world.author[u] # world.author[t])}
  IN  IF t \in y.seeds THEN "seed"
      ELSE IF citing # {} THEN "cited"
      ELSE IF answers # {} THEN "parent"
      ELSE IF t \in y.loose THEN "reply"
      ELSE IF t \in y.bystanders THEN "conversation" ELSE "thread"

Tombstoned(y) == {t \in y.archived : y.known[t] = "none"}

-----------------------------------------------------------------------------

ExpandInit ==
  /\ world \in Worlds
  /\ \E t \in Tweet, kind \in {"full", "bare"} :
       /\ kind = "full" => t \notin world.gone
       /\ x = Seeded({t}, kind, {})

Ended == x.phase \in {"done", "failed"} /\ UNCHANGED <<world, x>>

ExpandSpec == ExpandInit /\ [][Expand \/ Ended]_<<world, x>>

-----------------------------------------------------------------------------
(* Properties                                                              *)

ExpanderTypeOK ==
  /\ world \in World
  /\ x.phase \in Phase /\ x.round \in 0 .. MaxRounds /\ x.known \in [Tweet -> Knowledge]
  /\ x.archived \cup x.core \cup x.seeds \cup x.tombstones \cup x.probes \cup x.unresolvable
       \cup x.found \cup x.seen \cup x.loose \cup x.bystanders \subseteq Tweet

\* The rounds end because nothing is left, and not at MAX_ITERATIONS
\* (expander.py:34-39).
EndsOnItsOwn == x.phase = "adopt" => ~x.progress

\* When a run is done, whatever searches failed in it, every tweet X serves that an
\* archived tweet answers, quotes, retweets or links to is archived with it,
\* probes excepted: one fetched to decide about a chain is passed over by
\* _pending_ref_ids if it turns out to be cited as well (expander.py:161, :203).
CitedIsKept ==
  x.phase = "done" =>
    \A t \in x.archived : RefsOf(x, t) \cap Served \subseteq x.archived \cup x.probes

\* "archives everything connected: ... parent chains to the conversation root,
\* quoted tweets, ..." (expander.py:3-5)
EverythingConnected ==
  x.phase = "done" =>
    \A t \in x.archived : RefsOf(x, t) \cap Served \subseteq x.archived

\* The thread of a tweet: its author's tweets around it that answer each other,
\* as far as X serves them.
Chain(t) ==
  LET link(u, v) == world.parent[u] = v /\ world.author[u] = world.author[v]
      c[n \in 0 .. Cardinality(Tweet)] ==
        IF n = 0 THEN {t}
        ELSE LET near == c[n - 1] IN near \cup {u \in Served : \E v \in near : link(u, v) \/ link(v, u)}
  IN  c[Cardinality(Tweet)]

\* When a run that no search failed is done, the whole thread of every tweet
\* that the rounds archived is archived too, where X's index has all of the
\* author's tweets in the conversation or none of them (expander.py:4, :294),
\* and the rounds passed over no part of it as a probe, one archived in the end as an
\* ancestor of a reply (expander.py:162-177) too: its author is never searched.
ThreadsAreWhole ==
  x.phase = "done" /\ ~x.partial =>
    \A t \in x.core \cap Served :
      \/ Chain(t) \subseteq x.archived
      \/ {} # Listed(Pair(t)) /\ Chain(t) \cap world.unlisted # {}
      \/ Chain(t) \cap (x.probes \ x.core) # {}
=============================================================================
