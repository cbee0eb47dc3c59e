-------------------------- MODULE TweetArchiveProofs --------------------------
(***************************************************************************)
(* What TweetArchive never loses: rows gain and do not lose, and what a    *)
(* search returned has its row before the search is taken for made; what   *)
(* an expansion (TweetExpander) brings home: its rounds end by themselves, *)
(* and nothing that is cited, and no thread, is left behind; and, from     *)
(* both, that a walk of the whole timeline makes good what earlier walks   *)
(* left out.                                                               *)
(***************************************************************************)
EXTENDS TweetArchive, FiniteSetTheorems, WellFoundedInduction, TLAPS

\* The expander and the job have the fields they begin with.
Shaped == DOMAIN x = DOMAIN Fresh /\ DOMAIN job = DOMAIN Idle

RowsOK ==
  /\ items \in [Tweet -> [origin : Origins, kind : Kinds]]
  /\ \A t \in Tweet : items[t].origin = "none" => items[t].kind = "row"

\* From the last phases on, what the searches returned is part of the result.
Adopted(y) == y.phase \in {"climb", "done"} => y.found \subseteq y.archived

KeptInv ==
  /\ Shaped /\ RowsOK /\ Adopted(x)
  /\ job.step \in {"insert", "mark"} => x.phase = "done"
  /\ job.step = "mark" => x.archived \subseteq Held
  /\ SearchedIsKept

-----------------------------------------------------------------------------
(* The expander                                                            *)

\* What was found is found, whatever a step of the expander learns beside it.
LEMMA ResolvedFields ==
  ASSUME NEW y, DOMAIN y = DOMAIN Fresh
  PROVE  /\ DOMAIN Resolved(y) = DOMAIN Fresh /\ Resolved(y).found = y.found
         /\ y.archived \subseteq Resolved(y).archived
  BY DEF Resolved, Fresh

LEMMA DiscoveredFields ==
  ASSUME NEW y, DOMAIN y = DOMAIN Fresh, NEW walked, NEW convs, NEW answered
  PROVE  DOMAIN Discovered(y, walked, convs, answered) = DOMAIN Fresh
  BY DEF Discovered, Thread, WithChains, Fresh

\* _adopt_unchained: a run that ends archives what its searches returned.
LEMMA ExpandAdopts ==
  ASSUME Shaped, Adopted(x), Expand
  PROVE  DOMAIN x' = DOMAIN Fresh /\ Adopted(x')
  <1>1. CASE Resolve
    <2>1. CASE ToFetch(x) = {}
      BY <1>1, <2>1 DEF Resolve, Shaped, Adopted, Fresh
    <2>2. CASE ToFetch(x) # {}
      <3>1. x' = [Resolved(x) EXCEPT !.phase = "discover", !.progress = TRUE]
        BY <1>1, <2>2 DEF Resolve
      <3>2. DOMAIN Resolved(x) = DOMAIN Fresh
        BY ResolvedFields DEF Shaped
      <3>3. QED
        BY <3>1, <3>2 DEF Adopted, Fresh
    <2>3. QED
      BY <2>1, <2>2
  <1>2. CASE Discover
    <2> DEFINE Convs(walked) == ProtectedConvs(x) \cup Missed(x, walked)
               Y(walked, answered) == Discovered(x, walked, Convs(walked), answered)
               Left(walked, answered) == \/ Y(walked, answered).partial
                                         \/ walked # PendingPairs(x) \/ answered # Convs(walked)
               More(walked, answered) == \/ x.progress \/ PendingPairs(x) # {} \/ Convs(walked) # {}
                                         \/ Y(walked, answered).archived # x.archived
                                         \/ Y(walked, answered).probes # x.probes
    <2>1. \E walked, answered :
            x' = EndOfRound([Y(walked, answered) EXCEPT !.partial = Left(walked, answered)], More(walked, answered))
      BY <1>2, Zenon DEF Discover
    <2> HIDE DEF Left, More, Convs
    <2>2. PICK walked, answered :
            x' = EndOfRound([Y(walked, answered) EXCEPT !.partial = Left(walked, answered)], More(walked, answered))
      BY <2>1
    <2>3. DOMAIN Y(walked, answered) = DOMAIN Fresh
      BY DiscoveredFields DEF Shaped
    <2> HIDE DEF Y
    <2>4. DOMAIN x' = DOMAIN Fresh /\ x'.phase \in {"resolve", "adopt"}
      BY <2>2, <2>3 DEF EndOfRound, Fresh
    <2>5. QED
      BY <2>4 DEF Adopted
  <1>3. CASE Adopt
    BY <1>3 DEF Adopt, Shaped, Adopted, Fresh
  <1>4. CASE Climb
    <2> DEFINE y == [x EXCEPT !.archived = @ \cup Above(x), !.round = @ + 1]
    <2>1. /\ DOMAIN y = DOMAIN Fresh /\ y.found = x.found /\ x.archived \subseteq y.archived
          /\ x.found \subseteq x.archived
      BY <1>4 DEF Climb, Shaped, Adopted, Fresh
    <2>2. CASE ToFetch(y) = {}
      <3>1. x' = [y EXCEPT !.phase = "done"]
        BY <1>4, <2>2 DEF Climb
      <3>2. QED
        BY <2>1, <3>1 DEF Adopted, Fresh
    <2>3. CASE ToFetch(y) # {}
      <3>1. PICK phase : x' = [Resolved(y) EXCEPT !.phase = phase]
        BY <1>4, <2>3 DEF Climb
      <3>2. /\ DOMAIN Resolved(y) = DOMAIN Fresh /\ Resolved(y).found = y.found
            /\ y.archived \subseteq Resolved(y).archived
        BY <2>1, ResolvedFields
      <3>3. QED
        BY <2>1, <3>1, <3>2 DEF Adopted, Fresh
    <2>4. QED
      BY <2>2, <2>3
  <1>5. CASE Raise
    BY <1>5 DEF Raise, Adopted, Fresh
  <1>6. QED
    BY <1>1, <1>2, <1>3, <1>4, <1>5 DEF Expand

-----------------------------------------------------------------------------
(* The table                                                               *)

\* What a step may do to the rows.
RowsGain ==
  /\ items' \in [Tweet -> [origin : Origins, kind : Kinds]]
  /\ \A t \in Tweet : /\ items'[t].origin = "none" => items[t].origin = "none" /\ items'[t].kind = "row"
                      /\ items[t].origin = "liked" => items'[t].origin = "liked"
                      /\ t \in Held \ Placeholders => items'[t].kind = "row"
                      /\ items[t].kind = "named" => items'[t].kind # "unnamed"

LEMMA EveryStepGains ==
  ASSUME RowsOK, [Next]_vars
  PROVE  RowsGain
  <1>1. CASE UNCHANGED items
    BY <1>1 DEF RowsGain, RowsOK, Held, Placeholders
  <1>2. CASE ResolveTombstones
    <2>1. SUFFICES ASSUME NEW t \in Tweet, t \in Placeholders, items' = [items EXCEPT ![t].kind = "row"]
          PROVE  RowsGain
      BY <1>1, <1>2 DEF ResolveTombstones, Placeholders
    <2>2. items[t] = [origin |-> items[t].origin, kind |-> items[t].kind]
      BY DEF RowsOK
    <2>3. QED
      BY <2>1, <2>2 DEF RowsGain, RowsOK, Held, Placeholders, Kinds
  <1>3. CASE NameRefusals
    <2>1. PICK told \in SUBSET {t \in Placeholders : items[t].kind = "unnamed"},
               named \in SUBSET Placeholders :
            /\ named \subseteq Placeholders
            /\ items' = [t \in Tweet |-> IF t \in told \cup named THEN [items[t] EXCEPT !.kind = "named"] ELSE items[t]]
      BY <1>3 DEF NameRefusals
    <2>2. \A t \in Tweet : /\ items[t] = [origin |-> items[t].origin, kind |-> items[t].kind]
                           /\ t \in told \cup named => items[t].kind # "row"
      BY <2>1 DEF RowsOK, Placeholders
    <2>3. \A t \in Tweet : /\ items'[t].origin = items[t].origin
                           /\ items'[t].kind = IF t \in told \cup named THEN "named" ELSE items[t].kind
                           /\ items'[t] \in [origin : Origins, kind : Kinds]
      BY <2>1, <2>2 DEF RowsOK, Kinds
    <2>4. QED
      BY <2>1, <2>2, <2>3 DEF RowsGain, RowsOK, Held, Placeholders
  <1>4. CASE Upgrade
    <2>1. SUFFICES ASSUME items' = [t \in Tweet |-> IF t \in x.seeds \cap Held THEN [items[t] EXCEPT !.origin = "liked"]
                                                  ELSE items[t]]
          PROVE  RowsGain
      BY <1>1, <1>4 DEF Upgrade
    <2>2. \A t \in Tweet : items[t] = [origin |-> items[t].origin, kind |-> items[t].kind]
      BY DEF RowsOK
    <2>3. \A t \in Tweet : /\ items'[t].origin = IF t \in x.seeds \cap Held THEN "liked" ELSE items[t].origin
                           /\ items'[t].kind = items[t].kind
                           /\ items'[t] \in [origin : Origins, kind : Kinds]
      BY <2>1, <2>2 DEF RowsOK, Origins
    <2>4. QED
      BY <2>1, <2>3 DEF RowsGain, RowsOK, Held, Placeholders
  <1>5. CASE Insert
    <2>1. SUFFICES ASSUME NEW t \in Missing, NEW kind \in Kinds,
                          items' = [items EXCEPT ![t] = [origin |-> IF t \in x.seeds THEN "liked" ELSE "found", kind |-> kind]]
          PROVE  RowsGain
      BY <1>1, <1>5 DEF Insert, Kinds
    <2>2. t \in Tweet => items[t].origin = "none" /\ items[t].kind = "row"
      BY DEF Missing, Held, RowsOK
    <2>3. QED
      BY <2>1, <2>2 DEF RowsGain, RowsOK, Held, Placeholders, Origins
  <1>6. QED
    BY <1>1, <1>2, <1>3, <1>4, <1>5
       DEF Next, vars, store, Like, Age, Crash, Return, Start, Backfill, Fetch, NextChunk, Expanding, GiveUp, MarkSearched

\* What changes of the job and of the expander, beside Expand.
LEMMA ShapeStays ==
  ASSUME Shaped, Adopted(x), [Next]_vars
  PROVE  Shaped' /\ Adopted(x')
  <1>0. DOMAIN Fresh = DOMAIN Fresh /\ Adopted(Fresh) /\ Fresh.phase = "idle"
    BY DEF Fresh, Adopted
  <1>1. CASE UNCHANGED <<x, job>>
    BY <1>1 DEF Shaped, Adopted
  <1>2. CASE Expanding
    BY <1>2, ExpandAdopts DEF Expanding, Shaped
  <1>3. ASSUME NEW seeds, NEW kind, NEW skip, x' = Seeded(seeds, kind, skip)
        PROVE  DOMAIN x' = DOMAIN Fresh /\ Adopted(x')
    BY <1>3 DEF Seeded, Adopted, Fresh
  <1>4. DOMAIN x' = DOMAIN Fresh /\ Adopted(x')
    <2>1. \/ x' = x \/ x' = Fresh \/ Expanding \/ \E seeds, kind, skip : x' = Seeded(seeds, kind, skip)
      <3>1. Like \/ Age \/ ResolveTombstones \/ Fetch \/ Upgrade \/ Insert => x' = x
        BY DEF Like, Age, ResolveTombstones, Fetch, Upgrade, Insert
      <3>2. (\E t \in Tweet : Return(t)) \/ (\E full, retry \in BOOLEAN : Start(full, retry)) => x' = x
        BY DEF Return, Start
      <3>3. Crash \/ GiveUp \/ MarkSearched => x' = Fresh
        BY DEF Crash, GiveUp, MarkSearched
      <3>4. NameRefusals \/ Backfill \/ NextChunk => x' = x \/ \E seeds, source : Begin(seeds, source)
        <4>1. NameRefusals => x' = x \/ Begin(job.recovered, "recovered")
          BY DEF NameRefusals
        <4>2. Backfill \/ NextChunk => x' = x \/ \E seeds, source : Begin(seeds, source)
          BY DEF Backfill, NextChunk
        <4>3. QED
          BY <4>1, <4>2
      <3>5. ASSUME NEW seeds, NEW source, Begin(seeds, source)
            PROVE  \E s, kind, skip : x' = Seeded(s, kind, skip)
        BY <3>5 DEF Begin
      <3>6. x' = x \/ Next
        BY DEF vars
      <3>7. QED
        BY <3>1, <3>2, <3>3, <3>4, <3>5, <3>6 DEF Next
    <2>2. QED
      BY <1>0, <1>2, <1>3, <2>1 DEF Shaped
  <1>5. DOMAIN job' = DOMAIN Idle
    BY DEF Shaped, Idle, Next, vars, store, Like, Age, Crash, Return, Start, ResolveTombstones, NameRefusals, Backfill, Fetch,
           NextChunk, Expanding, GiveUp, Upgrade, Insert, MarkSearched
  <1>6. QED
    BY <1>4, <1>5 DEF Shaped

\* Where the job goes, and what it has behind it there.
LEMMA StepsStay ==
  ASSUME KeptInv, [Next]_vars, Held \subseteq Held'
  PROVE  /\ job'.step \in {"insert", "mark"} => x'.phase = "done"
         /\ job'.step = "mark" => x'.archived \subseteq Held'
         /\ SearchedIsKept'
  <1>1. DOMAIN job = DOMAIN Idle
    BY DEF KeptInv, Shaped
  <1>2. CASE UNCHANGED <<x, job, shown>>
    BY <1>2 DEF KeptInv, SearchedIsKept
  <1>3. CASE \/ Crash \/ ResolveTombstones \/ NameRefusals \/ Backfill \/ Fetch \/ NextChunk \/ GiveUp
             \/ \E full, retry \in BOOLEAN : Start(full, retry)
    <2>1. shown' = shown
      <3>1. NameRefusals \/ ResolveTombstones => shown' = shown
        BY DEF NameRefusals, ResolveTombstones
      <3>2. Crash \/ Backfill \/ Fetch \/ NextChunk \/ GiveUp => shown' = shown
        BY DEF Crash, Backfill, Fetch, NextChunk, GiveUp, store
      <3>3. (\E full, retry \in BOOLEAN : Start(full, retry)) => shown' = shown
        BY DEF Start, store
      <3>4. QED
        BY <1>3, <3>1, <3>2, <3>3
    <2>2. Crash \/ GiveUp => job'.step \notin {"insert", "mark"}
      <3>1. ASSUME NEW queue, job' = [job EXCEPT !.step = "export", !.queue = queue]
            PROVE  job'.step = "export"
        BY <1>1, <3>1 DEF Idle
      <3>2. Crash \/ GiveUp => job' = Idle \/ \E queue : job' = [job EXCEPT !.step = "export", !.queue = queue]
        BY DEF Crash, GiveUp
      <3>3. Idle.step = "idle"
        BY DEF Idle
      <3>4. QED
        BY <3>1, <3>2, <3>3
    <2>3. Backfill \/ NextChunk => job'.step \notin {"insert", "mark"}
      <3>1. Backfill => job'.step \in {"fetch", "expand"}
        BY <1>1 DEF Backfill, Idle
      <3>2. ASSUME NEW queue, \/ job' = [job EXCEPT !.step = "idle"]
                              \/ job' = [job EXCEPT !.step = "expand", !.queue = queue]
            PROVE  job'.step \in {"idle", "expand"}
        BY <1>1, <3>2 DEF Idle
      <3>3. NextChunk => \E queue : \/ job' = [job EXCEPT !.step = "idle"]
                                    \/ job' = [job EXCEPT !.step = "expand", !.queue = queue]
        BY DEF NextChunk
      <3>4. QED
        BY <3>1, <3>2, <3>3
    <2>4. Fetch => job'.step \notin {"insert", "mark"}
      <3>1. ASSUME NEW seeds, NEW clean, job' = [job EXCEPT !.queue = seeds, !.step = "chunk", !.source = "full", !.clean = clean]
            PROVE  job'.step = "chunk"
        BY <1>1, <3>1 DEF Idle
      <3>2. Fetch => \E seeds, clean : job' = [job EXCEPT !.queue = seeds, !.step = "chunk", !.source = "full", !.clean = clean]
        BY DEF Fetch
      <3>3. QED
        BY <3>1, <3>2
    <2>5. ResolveTombstones => job'.step \notin {"insert", "mark"}
      BY <1>1 DEF ResolveTombstones, Idle
    <2>6. NameRefusals => job'.step \notin {"insert", "mark"}
      BY <1>1 DEF NameRefusals, Idle
    <2>7. (\E full, retry \in BOOLEAN : Start(full, retry)) => job'.step \notin {"insert", "mark"}
      BY DEF Start, Idle
    <2>8. QED
      BY <1>3, <2>1, <2>2, <2>3, <2>4, <2>5, <2>6, <2>7 DEF KeptInv, SearchedIsKept
  <1>4. CASE Expanding
    BY <1>4 DEF Expanding, KeptInv, SearchedIsKept, store
  <1>5. CASE Upgrade
    <2>1. job'.step = "insert" /\ x.phase = "done" /\ UNCHANGED <<x, shown>>
      BY <1>1, <1>5 DEF Upgrade, Idle
    <2>2. QED
      BY <2>1 DEF KeptInv, SearchedIsKept
  <1>6. CASE Insert
    <2>1. job.step = "insert" /\ UNCHANGED <<x, shown>>
      BY <1>6 DEF Insert
    <2>2. CASE Missing = {}
      <3>1. job'.step = "mark" /\ x.archived \subseteq Held
        BY <1>1, <1>6, <2>2 DEF Insert, Idle, Missing
      <3>2. QED
        BY <2>1, <3>1 DEF KeptInv, SearchedIsKept
    <2>3. CASE Missing # {}
      BY <1>6, <2>1, <2>3 DEF Insert, KeptInv, SearchedIsKept
    <2>4. QED
      BY <2>2, <2>3
  <1>7. CASE MarkSearched
    <2>1. /\ job.step = "mark" /\ job'.step \in {"chunk", "export"} /\ shown' = shown \cup x.found
      BY <1>1, <1>7 DEF MarkSearched, Idle
    <2>2. x.found \subseteq x.archived /\ x.archived \subseteq Held
      BY <2>1 DEF KeptInv, Adopted
    <2>3. QED
      BY <2>1, <2>2 DEF KeptInv, SearchedIsKept
  <1>8. CASE Like \/ Age \/ \E t \in Tweet : Return(t)
    BY <1>2, <1>8 DEF Like, Age, Return, store
  <1>9. QED
    BY <1>2, <1>3, <1>4, <1>5, <1>6, <1>7, <1>8 DEF Next, vars

LEMMA NextKeepsInv ==
  ASSUME KeptInv, [Next]_vars
  PROVE  KeptInv'
  <1>1. RowsGain /\ Shaped' /\ Adopted(x')
    BY EveryStepGains, ShapeStays DEF KeptInv
  <1>2. Held \subseteq Held'
    BY <1>1 DEF RowsGain, Held
  <1>3. RowsOK'
    BY <1>1 DEF RowsGain, RowsOK
  <1>4. QED
    BY <1>1, <1>2, <1>3, StepsStay DEF KeptInv, Adopted

LEMMA InitIsInv == Init => KeptInv
  <1> SUFFICES ASSUME Init PROVE KeptInv
    OBVIOUS
  <1>1. Shaped /\ RowsOK /\ SearchedIsKept /\ x.phase = "idle" /\ job.step = "idle"
    BY DEF Init, Shaped, Fresh, Idle, RowsOK, Absent, Origins, Kinds, SearchedIsKept
  <1>2. QED
    BY <1>1 DEF KeptInv, Adopted

\* "Call only after the tweets the search returned are committed" (mark_searched):
\* whatever crashes and failures cut a job short, and whatever tweets a search
\* returns, each has its row by the time its conversation is recorded as searched.
THEOREM SearchedKept == Spec => []SearchedIsKept
  <1>1. KeptInv => SearchedIsKept
    BY DEF KeptInv
  <1>2. QED
    BY <1>1, InitIsInv, NextKeepsInv, PTL DEF Spec

\* A walk that meets a row again leaves it a like, a row and named (OR IGNORE and
\* upgrade_origin), in any world, through retries, crashes and returned tweets.
THEOREM RowsKeptUp == Spec => NeverDemoted
  <1>1. ASSUME KeptInv, [Next]_vars
        PROVE  \A t \in Tweet : /\ items[t].origin = "liked" => items'[t].origin = "liked"
                                /\ t \in Held \ Placeholders => items'[t].kind = "row"
                                /\ items[t].kind = "named" => items'[t].kind # "unnamed"
    BY <1>1, EveryStepGains DEF KeptInv, RowsGain
  <1>2. QED
    BY <1>1, InitIsInv, NextKeepsInv, PTL DEF Spec, NeverDemoted

-----------------------------------------------------------------------------
(* Natural numbers                                                         *)

LEMMA LeastOne ==
  ASSUME NEW T, T \subseteq Nat, T # {}
  PROVE  \E least \in T : \A y \in T : least <= y
  <1> DEFINE R == {ss \in Nat \X Nat : ss[1] < ss[2]}
  <1>1. IsWellFoundedOn(R, Nat)
    BY NatLessThanWellFounded DEF OpToRel
  <1> HIDE DEF R
  <1>2. PICK least \in T : \A y \in T : ~ (<<y, least>> \in R)
    BY <1>1, WFMin
  <1>3. \A y \in T : least <= y
    <2> TAKE y \in T
    <2>1. <<y, least>> \in Nat \X Nat
      OBVIOUS
    <2>2. ~ (y < least)
      BY <1>2, <2>1 DEF R
    <2> QED BY <2>2
  <1> QED BY <1>3

LEMMA UpTo ==
  ASSUME NEW m \in Nat, NEW T, 0 \in T, \A k \in 1 .. m : k - 1 \in T => k \in T
  PROVE  \A k \in 0 .. m : k \in T
  <1> DEFINE U == {k \in 0 .. m : k \notin T}
  <1> SUFFICES ASSUME U # {} PROVE FALSE
    OBVIOUS
  <1>1. PICK k \in U : \A j \in U : k <= j
    <2>1. U \subseteq Nat
      OBVIOUS
    <2> HIDE DEF U
    <2> QED BY <2>1, LeastOne
  <1>2. k \in 1 .. m /\ k \notin T /\ k - 1 \notin T
    OBVIOUS
  <1>3. k - 1 \in U /\ ~ (k <= k - 1)
    BY <1>2
  <1> HIDE DEF U
  <1> QED BY <1>1, <1>3

-----------------------------------------------------------------------------
(* What the expander knows                                                 *)

\* X's tweets answer older ones.
WorldRight == world \in World /\ \A t \in Tweet : world.parent[t] = None \/ world.parent[t] < t

LEMMA WorldIs ==
  ASSUME WorldRight
  PROVE  /\ \A t \in Tweet : world.parent[t] \in Tweet \cup {None} /\ world.ref[t] \in Tweet \cup {None}
         /\ \A t \in Tweet : world.parent[t] \in Tweet => world.parent[t] < t
         /\ world.gone \subseteq Tweet /\ world.card \subseteq Tweet
  BY ExpanderAssumption DEF WorldRight, World

\* An answer makes of what is in it full knowledge, and takes none back.
LEMMA IngestIs ==
  ASSUME NEW known \in [Tweet -> Knowledge], NEW tweets
  PROVE  /\ Ingest(known, tweets) \in [Tweet -> Knowledge]
         /\ \A t \in Tweet : Ingest(known, tweets)[t] = "full" <=> t \in tweets \/ known[t] = "full"
         /\ \A t \in Tweet : known[t] # "none" => Ingest(known, tweets)[t] # "none"
         /\ tweets = {} => Ingest(known, tweets) = known
  <1> DEFINE new == Ingest(known, tweets)
             cards == {world.ref[t] : t \in tweets \cap world.card}
  <1>1. \A t \in Tweet : new[t] = IF t \in tweets THEN Better(known[t], "full")
                                  ELSE IF t \in cards THEN Better(known[t], "stub") ELSE known[t]
    BY DEF Ingest
  <1>2. DOMAIN new = Tweet /\ new = [t \in Tweet |-> new[t]]
    BY DEF Ingest
  <1>3. tweets = {} => cards = {}
    OBVIOUS
  <1> HIDE DEF new, cards
  <1>4. \A t \in Tweet : new[t] \in Knowledge /\ (new[t] = "full" <=> t \in tweets \/ known[t] = "full")
                         /\ (known[t] # "none" => new[t] # "none")
    BY <1>1 DEF Better, Knowledge
  <1>5. tweets = {} => new = known
    BY <1>1, <1>2, <1>3
  <1> QED BY <1>2, <1>4, <1>5 DEF new

LEMMA RefsTyped ==
  ASSUME WorldRight, NEW y, NEW t \in Tweet
  PROVE  RefsOf(y, t) \subseteq Tweet
  BY WorldIs DEF RefsOf

-----------------------------------------------------------------------------
(* What the rounds keep                                                    *)

Pairs == {Pair(t) : t \in Tweet}
Convs == {Conv(t) : t \in Tweet}

\* Types; whatever is full knowledge was asked for; what is archived is known, or gone.
Right(y) ==
  /\ DOMAIN y = DOMAIN Fresh /\ y.known \in [Tweet -> Knowledge]
  /\ y.archived \subseteq Tweet /\ y.probes \subseteq Tweet /\ y.found \subseteq Tweet /\ y.seen \subseteq Tweet
  /\ y.tombstones \subseteq world.gone /\ y.unresolvable \subseteq world.gone
  /\ y.searched \subseteq Pairs /\ y.detail \subseteq Convs
  /\ \A t \in Tweet : y.known[t] = "full" => t \in y.archived \cup y.found \cup y.seen \cup y.probes
  /\ \A t \in y.found \cup y.seen \cup (y.archived \cap Served) : y.known[t] # "none"

\* What a lookup has told of: in full, or that it is not there.
Told(y) == {t \in Tweet : y.known[t] = "full"} \cup y.unresolvable

LEMMA FetchTyped ==
  ASSUME WorldRight, NEW y, Right(y)
  PROVE  PendingRefs(y) \subseteq Tweet /\ ToFetch(y) \subseteq Tweet /\ ToFetch(y) \cap Told(y) = {}
  <1>1. \A t \in y.archived : RefsOf(y, t) \subseteq Tweet
    BY RefsTyped DEF Right
  <1>2. PendingRefs(y) \subseteq Tweet
    BY <1>1 DEF PendingRefs, Right
  <1>3. PendingProbes(y) \subseteq Tweet
    BY DEF PendingProbes, Right
  <1>4. PendingRefs(y) \cap Told(y) = {}
    BY DEF PendingRefs, Done, Told
  <1>5. PendingProbes(y) \cap Told(y) = {}
    BY DEF PendingProbes, Done, Told
  <1> QED BY <1>2, <1>3, <1>4, <1>5 DEF ToFetch

\* Where nothing is left to look up.
Quiet(y) ==
  /\ \A t \in y.archived : y.known[t] \in {"bare", "stub"} => t \in y.unresolvable
  /\ \A t \in y.archived : \A u \in RefsOf(y, t) : u \in Done(y)

LEMMA QuietIs ==
  ASSUME NEW y, ToFetch(y) = {}
  PROVE  Quiet(y)
  BY DEF ToFetch, PendingRefs, Quiet

\* A lookup tells of all it asks for.
LEMMA ResolvedRight ==
  ASSUME WorldRight, NEW y, Right(y)
  PROVE  LET z == Resolved(y) IN
         /\ Right(z) /\ Told(y) \cup ToFetch(y) \subseteq Told(z) /\ y.archived \subseteq z.archived
         /\ z.searched = y.searched /\ z.detail = y.detail /\ z.probes = y.probes /\ z.found = y.found /\ z.seen = y.seen
         /\ z.core = y.core /\ z.round = y.round /\ z.partial = y.partial /\ z.progress = y.progress
         /\ z.loose = y.loose /\ z.bystanders = y.bystanders /\ DOMAIN z = DOMAIN Fresh
  <1> DEFINE refs == PendingRefs(y)
             fetch == ToFetch(y)
             missing == fetch \cap world.gone
             known == Ingest(y.known, fetch \cap Served)
             z == Resolved(y)
  <1>1. /\ DOMAIN z = DOMAIN Fresh /\ z.known = known /\ z.unresolvable = y.unresolvable \cup missing
        /\ z.tombstones = y.tombstones \cup {t \in missing \cap refs : known[t] = "none"} /\ z.archived = y.archived \cup refs
        /\ z.searched = y.searched /\ z.detail = y.detail /\ z.probes = y.probes /\ z.found = y.found /\ z.seen = y.seen
        /\ z.core = y.core /\ z.round = y.round /\ z.partial = y.partial /\ z.progress = y.progress
        /\ z.loose = y.loose /\ z.bystanders = y.bystanders
    BY DEF Resolved, Right, Fresh
  <1>2. refs \subseteq Tweet /\ fetch \subseteq Tweet /\ refs \subseteq fetch /\ fetch \subseteq refs \cup y.probes
    BY FetchTyped DEF ToFetch, PendingProbes
  <1>3. /\ known \in [Tweet -> Knowledge]
        /\ \A t \in Tweet : known[t] = "full" <=> t \in fetch \cap Served \/ y.known[t] = "full"
        /\ \A t \in Tweet : y.known[t] # "none" => known[t] # "none"
    <2> HIDE DEF fetch
    <2> QED BY IngestIs DEF Right
  <1> HIDE DEF refs, fetch, known, z
  <1>4. Right(z)
    <2>1. \A t \in Tweet : z.known[t] = "full" => t \in z.archived \cup z.found \cup z.seen \cup z.probes
      BY <1>1, <1>2, <1>3 DEF Right
    <2>2. \A t \in z.found \cup z.seen \cup (z.archived \cap Served) : z.known[t] # "none"
      BY <1>1, <1>2, <1>3 DEF Right
    <2> QED BY <1>1, <1>2, <1>3, <2>1, <2>2 DEF Right
  <1>5. Told(y) \cup fetch \subseteq Told(z)
    BY <1>1, <1>2, <1>3 DEF Told, Served
  <1> QED BY <1>1, <1>4, <1>5 DEF z, fetch

-----------------------------------------------------------------------------
(* Chains and ancestors                                                    *)

\* A number of steps of a function, one after the other.
Iterated(g, m, A, F) == g = [n \in 0 .. m |-> IF n = 0 THEN A ELSE F[g[n - 1]]]

LEMMA Iterates ==
  ASSUME NEW m \in Nat, NEW D, NEW A \in D, NEW F \in [D -> D]
  PROVE  \E g \in [0 .. m -> D] : Iterated(g, m, A, F)
  <1> DEFINE Of(g, k) == g = [n \in 0 .. k |-> IF n = 0 THEN A ELSE F[g[n - 1]]]
             T == {k \in Nat : \E g \in [0 .. k -> D] : Of(g, k)}
  <1>1. 0 \in T
    <2> DEFINE g == [n \in 0 .. 0 |-> A]
    <2>1. Of(g, 0) /\ g \in [0 .. 0 -> D]
      OBVIOUS
    <2> QED BY <2>1
  <1>2. ASSUME NEW k \in 1 .. m, k - 1 \in T PROVE k \in T
    <2>1. PICK h \in [0 .. k - 1 -> D] : Of(h, k - 1)
      BY <1>2
    <2> DEFINE g == [n \in 0 .. k |-> IF n = k THEN F[h[k - 1]] ELSE h[n]]
    <2>2. \A n \in 0 .. k : g[n] = IF n = 0 THEN A ELSE F[g[n - 1]]
      BY <2>1
    <2>3. Of(g, k)
      <3>1. g = [n \in 0 .. k |-> g[n]]
        OBVIOUS
      <3> HIDE DEF g
      <3> QED BY <2>2, <3>1
    <2>4. h[k - 1] \in D
      OBVIOUS
    <2>5. g \in [0 .. k -> D]
      <3>1. \A n \in 0 .. k : n = k \/ n \in 0 .. k - 1
        OBVIOUS
      <3>2. \A n \in 0 .. k : (IF n = k THEN F[h[k - 1]] ELSE h[n]) \in D
        BY <2>4, <3>1
      <3> QED BY <3>2
    <2> HIDE DEF g
    <2> QED BY <2>3, <2>5
  <1>3. m \in T
    <2> HIDE DEF T
    <2> QED BY <1>1, <1>2, UpTo
  <1> QED BY <1>3 DEF Iterated

LEMMA Counted == Cardinality(Tweet) \in Nat
  BY ExpanderAssumption, FS_CardinalityType

\* What hangs on an archived thread is among the tweets of its author there.
LEMMA ChainedIs ==
  ASSUME NEW y
  PROVE  Chained(y) \subseteq Candidates(y)
  <1> DEFINE C == Candidates(y)
             D == SUBSET C
             A == C \cap y.archived
             Hung(c) == {t \in C : (\E p \in c : p = world.parent[t] /\ world.author[p] = world.author[t])
                                     \/ Gone(y, world.parent[t])}
             F == [c \in D |-> c \cup Hung(c)]
             m == Cardinality(Tweet)
             Of(g) == g = [n \in 0 .. m |-> IF n = 0 THEN A ELSE g[n - 1] \cup Hung(g[n - 1])]
             chain == CHOOSE f : Of(f)
  <1>1. m \in Nat /\ F \in [D -> D] /\ A \in D /\ \A c \in D : F[c] = c \cup Hung(c)
    <2>1. \A c \in D : c \cup Hung(c) \in D
      OBVIOUS
    <2>2. A \in D
      OBVIOUS
    <2> HIDE DEF Hung, D
    <2> QED BY <2>1, <2>2, Counted
  <1>2. Chained(y) = chain[m]
    BY DEF Chained
  <1>3. \A c : Hung(c) \subseteq C
    OBVIOUS
  <1>4. A \subseteq C /\ D = SUBSET C
    OBVIOUS
  <1> HIDE DEF F, C, D, m, A, Hung
  <1>5. PICK g \in [0 .. m -> D] : Iterated(g, m, A, F)
    <2>1. m \in Nat /\ A \in D /\ F \in [D -> D]
      BY <1>1
    <2> QED BY <2>1, Iterates
  <1>6. Of(g)
    <2>1. \A n \in 0 .. m : n # 0 => F[g[n - 1]] = g[n - 1] \cup Hung(g[n - 1])
      BY <1>1
    <2> QED BY <1>5, <2>1 DEF Iterated
  <1>7. Of(chain)
    <2> HIDE DEF Of
    <2> QED BY <1>6
  <1> HIDE DEF chain
  <1> DEFINE T == {n \in 0 .. m : chain[n] \subseteq C}
  <1>8. 0 \in T
    BY <1>1, <1>4, <1>7
  <1>9. \A k \in 1 .. m : k - 1 \in T => k \in T
    BY <1>1, <1>3, <1>7
  <1> HIDE DEF T
  <1>10. \A n \in 0 .. m : n \in T
    BY <1>1, <1>8, <1>9, UpTo
  <1> QED BY <1>1, <1>2, <1>10 DEF T, C

\* What is above the adopted tweets is adopted, or known.
LEMMA AboveIs ==
  ASSUME NEW y
  PROVE  Above(y) \subseteq y.loose \cup y.bystanders \cup Known(y)
  <1> DEFINE A == y.loose \cup y.bystanders
             C == A \cup Known(y)
             D == SUBSET C
             Up(c) == {world.parent[t] : t \in {u \in c : y.known[u] \in {"stub", "full"}}} \cap Known(y)
             F == [c \in D |-> c \cup Up(c)]
             m == Cardinality(Tweet)
             Of(g) == g = [n \in 0 .. m |-> IF n = 0 THEN A ELSE g[n - 1] \cup Up(g[n - 1])]
             up == CHOOSE f : Of(f)
  <1>1. m \in Nat /\ F \in [D -> D] /\ A \in D /\ \A c \in D : F[c] = c \cup Up(c)
    <2>1. \A c \in D : c \cup Up(c) \in D
      OBVIOUS
    <2>2. A \in D
      OBVIOUS
    <2> HIDE DEF Up, D
    <2> QED BY <2>1, <2>2, Counted
  <1>2. Above(y) = up[m]
    BY DEF Above
  <1>3. \A c : Up(c) \subseteq C
    OBVIOUS
  <1>4. A \subseteq C /\ D = SUBSET C
    OBVIOUS
  <1> HIDE DEF F, C, D, m, A, Up
  <1>5. PICK g \in [0 .. m -> D] : Iterated(g, m, A, F)
    <2>1. m \in Nat /\ A \in D /\ F \in [D -> D]
      BY <1>1
    <2> QED BY <2>1, Iterates
  <1>6. Of(g)
    <2>1. \A n \in 0 .. m : n # 0 => F[g[n - 1]] = g[n - 1] \cup Up(g[n - 1])
      BY <1>1
    <2> QED BY <1>5, <2>1 DEF Iterated
  <1>7. Of(up)
    <2> HIDE DEF Of
    <2> QED BY <1>6
  <1> HIDE DEF up
  <1> DEFINE T == {n \in 0 .. m : up[n] \subseteq C}
  <1>8. 0 \in T
    BY <1>1, <1>4, <1>7
  <1>9. \A k \in 1 .. m : k - 1 \in T => k \in T
    BY <1>1, <1>3, <1>7
  <1> HIDE DEF T
  <1>10. \A n \in 0 .. m : n \in T
    BY <1>1, <1>8, <1>9, UpTo
  <1> QED BY <1>1, <1>2, <1>10 DEF T, C, A

-----------------------------------------------------------------------------
(* What a round of searches does                                           *)

\* The conversations a round asks the detail of.
Asked(y, walked) == ProtectedConvs(y) \cup Missed(y, walked)

LEMMA ThreadsTyped ==
  ASSUME NEW y, Right(y), NEW walked \in SUBSET PendingPairs(y)
  PROVE  PendingPairs(y) \subseteq Pairs /\ Asked(y, walked) \subseteq Convs
  <1>1. Threads(y) \subseteq Tweet
    BY DEF Threads, Right
  <1>2. PendingPairs(y) \subseteq Pairs
    BY <1>1 DEF PendingPairs, Pairs
  <1>3. ProtectedConvs(y) \subseteq Convs
    BY <1>1 DEF ProtectedConvs, Convs
  <1>4. Missed(y, walked) \subseteq Convs
    <2> SUFFICES ASSUME NEW q \in walked PROVE q[2] \in Convs
      BY DEF Missed
    <2>1. PICK t \in Tweet : q = Pair(t)
      BY <1>2 DEF Pairs
    <2> QED BY <2>1 DEF Pair, Convs
  <1> QED BY <1>2, <1>3, <1>4 DEF Asked

\* What a round of searches finds, and what the detail of a conversation shows.
FoundBy(walked) == UNION {Listed(p) : p \in walked}
ShownBy(answered) == (UNION {Tree(c) : c \in answered}) \cap Served

LEMMA DiscoveredIs ==
  ASSUME WorldRight, NEW y, Right(y), NEW walked \in SUBSET PendingPairs(y), NEW convs, NEW answered,
         NEW w, w = Discovered(y, walked, convs, answered),
         NEW known, known = Ingest(Ingest(y.known, FoundBy(walked)), ShownBy(answered))
  PROVE  /\ DOMAIN w = DOMAIN Fresh /\ w.known = known
         /\ w.searched = y.searched \cup PendingPairs(y) /\ w.detail = y.detail \cup convs
         /\ w.walked = y.walked \cup walked
         /\ w.found = y.found \cup FoundBy(walked) /\ w.seen = y.seen \cup ShownBy(answered)
         /\ w.tombstones \subseteq y.tombstones \cup world.gone /\ y.tombstones \subseteq w.tombstones
         /\ (answered = {} => w.tombstones = y.tombstones)
         /\ y.archived \subseteq w.archived /\ \A t \in w.archived \ y.archived : t \in Tweet /\ known[t] \in {"stub", "full"}
         /\ y.probes \subseteq w.probes /\ w.probes \subseteq y.probes \cup Tweet
         /\ w.unresolvable = y.unresolvable /\ w.core = y.core /\ w.round = y.round /\ w.partial = y.partial
         /\ w.loose = y.loose /\ w.bystanders = y.bystanders /\ w.progress = y.progress /\ w.phase = y.phase
  <1> DEFINE found == FoundBy(walked)
             trees == UNION {Tree(c) : c \in answered}
             s == [y EXCEPT !.searched = @ \cup PendingPairs(y), !.walked = @ \cup walked,
                            !.known = Ingest(y.known, found), !.found = @ \cup found,
                            !.detail = @ \cup convs]
             u == [s EXCEPT !.known = Ingest(s.known, trees \cap Served), !.seen = @ \cup (trees \cap Served),
                            !.tombstones = @ \cup (trees \cap world.gone)]
             z == [u EXCEPT !.archived = @ \cup Chained(u), !.probes = @ \cup Unknowns(u)]
  <1>1. w = z
    BY DEF Discovered, Thread, WithChains, FoundBy
  <1>2. /\ DOMAIN s = DOMAIN Fresh /\ s.known = Ingest(y.known, found) /\ s.searched = y.searched \cup PendingPairs(y)
        /\ s.walked = y.walked \cup walked /\ s.found = y.found \cup found /\ s.detail = y.detail \cup convs
        /\ s.seen = y.seen /\ s.tombstones = y.tombstones /\ s.archived = y.archived /\ s.probes = y.probes
        /\ s.unresolvable = y.unresolvable /\ s.core = y.core /\ s.round = y.round /\ s.partial = y.partial
        /\ s.loose = y.loose /\ s.bystanders = y.bystanders /\ s.progress = y.progress /\ s.phase = y.phase
    <2> HIDE DEF found
    <2> QED BY DEF Right, Fresh
  <1> HIDE DEF found, trees, s
  <1>3. /\ DOMAIN u = DOMAIN Fresh /\ u.known = Ingest(s.known, trees \cap Served)
        /\ u.seen = s.seen \cup (trees \cap Served) /\ u.tombstones = s.tombstones \cup (trees \cap world.gone)
        /\ u.searched = s.searched /\ u.walked = s.walked /\ u.found = s.found /\ u.detail = s.detail
        /\ u.archived = s.archived /\ u.probes = s.probes
        /\ u.unresolvable = s.unresolvable /\ u.core = s.core /\ u.round = s.round /\ u.partial = s.partial
        /\ u.loose = s.loose /\ u.bystanders = s.bystanders /\ u.progress = s.progress /\ u.phase = s.phase
    BY <1>2 DEF Fresh
  <1> HIDE DEF u
  <1>4. /\ DOMAIN z = DOMAIN Fresh /\ z.archived = u.archived \cup Chained(u) /\ z.probes = u.probes \cup Unknowns(u)
        /\ z.known = u.known /\ z.seen = u.seen /\ z.tombstones = u.tombstones
        /\ z.searched = u.searched /\ z.walked = u.walked /\ z.found = u.found /\ z.detail = u.detail
        /\ z.unresolvable = u.unresolvable /\ z.core = u.core /\ z.round = u.round /\ z.partial = u.partial
        /\ z.loose = u.loose /\ z.bystanders = u.bystanders /\ z.progress = u.progress /\ z.phase = u.phase
    BY <1>3 DEF Fresh
  <1> HIDE DEF z
  <1>5. \A t \in Chained(u) : t \in Tweet /\ u.known[t] \in {"stub", "full"}
    BY ChainedIs DEF Candidates
  <1>6. Unknowns(u) \subseteq Tweet
    BY WorldIs DEF Unknowns, Candidates
  <1>7. trees \cap Served = ShownBy(answered) /\ (answered = {} => trees = {})
    BY DEF trees, ShownBy
  <1> QED
    <2>1. z.known = Ingest(Ingest(y.known, FoundBy(walked)), ShownBy(answered))
      BY <1>2, <1>3, <1>4, <1>7 DEF found
    <2>2. y.archived \subseteq z.archived /\ \A t \in z.archived \ y.archived : t \in Tweet /\ z.known[t] \in {"stub", "full"}
      BY <1>2, <1>3, <1>4, <1>5
    <2>3. y.probes \subseteq z.probes /\ z.probes \subseteq y.probes \cup Tweet
      BY <1>2, <1>3, <1>4, <1>6
    <2>4. /\ z.tombstones \subseteq y.tombstones \cup world.gone /\ y.tombstones \subseteq z.tombstones
          /\ (answered = {} => z.tombstones = y.tombstones)
      BY <1>2, <1>3, <1>4, <1>7
    <2>5. z.found = y.found \cup FoundBy(walked) /\ z.seen = y.seen \cup ShownBy(answered)
      BY <1>2, <1>3, <1>4, <1>7 DEF found
    <2> QED BY <1>1, <1>2, <1>3, <1>4, <2>1, <2>2, <2>3, <2>4, <2>5

LEMMA DiscoveredRight ==
  ASSUME WorldRight, NEW y, Right(y), NEW walked \in SUBSET PendingPairs(y),
         NEW answered \in SUBSET Asked(y, walked)
  PROVE  LET z == Discovered(y, walked, Asked(y, walked), answered) IN
         /\ Right(z) /\ Told(y) \subseteq Told(z) /\ y.archived \subseteq z.archived /\ y.probes \subseteq z.probes
         /\ PendingPairs(y) = {} /\ Asked(y, walked) = {} /\ z.archived = y.archived =>
              z.known = y.known /\ z.tombstones = y.tombstones /\ z.unresolvable = y.unresolvable
  <1> DEFINE z == Discovered(y, walked, Asked(y, walked), answered)
             found == FoundBy(walked)
             told == ShownBy(answered)
             mid == Ingest(y.known, found)
             known == Ingest(mid, told)
  <1>1. /\ DOMAIN z = DOMAIN Fresh /\ z.known = known
        /\ z.searched = y.searched \cup PendingPairs(y) /\ z.detail = y.detail \cup Asked(y, walked)
        /\ z.found = y.found \cup found /\ z.seen = y.seen \cup told
        /\ z.tombstones \subseteq y.tombstones \cup world.gone
        /\ (answered = {} => z.tombstones = y.tombstones)
        /\ y.archived \subseteq z.archived /\ \A t \in z.archived \ y.archived : t \in Tweet /\ known[t] \in {"stub", "full"}
        /\ y.probes \subseteq z.probes /\ z.probes \subseteq y.probes \cup Tweet
        /\ z.unresolvable = y.unresolvable
    <2> DEFINE convs == Asked(y, walked)
    <2> HIDE DEF convs, z, known
    <2>1. z = Discovered(y, walked, convs, answered) /\ known = Ingest(Ingest(y.known, FoundBy(walked)), ShownBy(answered))
      BY DEF convs, z, known
    <2> HIDE DEF found, told, mid
    <2>2. /\ DOMAIN z = DOMAIN Fresh /\ z.known = known
          /\ z.searched = y.searched \cup PendingPairs(y) /\ z.detail = y.detail \cup convs
          /\ z.found = y.found \cup FoundBy(walked) /\ z.seen = y.seen \cup ShownBy(answered)
          /\ z.tombstones \subseteq y.tombstones \cup world.gone
          /\ (answered = {} => z.tombstones = y.tombstones)
          /\ y.archived \subseteq z.archived /\ \A t \in z.archived \ y.archived : t \in Tweet /\ known[t] \in {"stub", "full"}
          /\ y.probes \subseteq z.probes /\ z.probes \subseteq y.probes \cup Tweet
          /\ z.unresolvable = y.unresolvable
      BY <2>1, DiscoveredIs
    <2> QED BY <2>2 DEF convs, found, told
  <1>2. found \subseteq Served /\ told \subseteq Served
    BY DEF FoundBy, ShownBy, Listed
  <1>3. /\ mid \in [Tweet -> Knowledge] /\ \A t \in Tweet : mid[t] = "full" <=> t \in found \/ y.known[t] = "full"
        /\ \A t \in Tweet : y.known[t] # "none" => mid[t] # "none"
        /\ (found = {} => mid = y.known)
    <2> HIDE DEF found
    <2> QED BY IngestIs DEF Right
  <1> HIDE DEF mid
  <1>4. /\ known \in [Tweet -> Knowledge] /\ \A t \in Tweet : known[t] = "full" <=> t \in told \/ mid[t] = "full"
        /\ \A t \in Tweet : mid[t] # "none" => known[t] # "none"
        /\ (told = {} => known = mid)
    <2> HIDE DEF told
    <2> QED BY IngestIs, <1>3
  <1>5. PendingPairs(y) \subseteq Pairs /\ Asked(y, walked) \subseteq Convs
    BY ThreadsTyped
  <1>6. walked = {} => found = {}
    BY DEF FoundBy
  <1>7. answered = {} => told = {}
    BY DEF ShownBy
  <1> HIDE DEF z, found, told, known
  <1>8. Right(z)
    <2>1. \A t \in Tweet : z.known[t] = "full" => t \in z.archived \cup z.found \cup z.seen \cup z.probes
      BY <1>1, <1>3, <1>4 DEF Right
    <2>2. \A t \in z.found \cup z.seen \cup (z.archived \cap Served) : z.known[t] # "none"
      BY <1>1, <1>2, <1>3, <1>4 DEF Right, Served
    <2>3. z.found \subseteq Tweet /\ z.seen \subseteq Tweet /\ z.archived \subseteq Tweet /\ z.probes \subseteq Tweet
      BY <1>1, <1>2 DEF Right, Served
    <2> QED BY <1>1, <1>4, <1>5, <2>1, <2>2, <2>3 DEF Right
  <1>9. Told(y) \subseteq Told(z)
    BY <1>1, <1>3, <1>4 DEF Told
  <1> QED BY <1>1, <1>3, <1>4, <1>6, <1>7, <1>8, <1>9 DEF z

-----------------------------------------------------------------------------
(* How long the rounds go on                                               *)

\* MAX_ITERATIONS is no bound on what there is to archive.
Enough == MaxRounds > 5 * Cardinality(Tweet)

LEMMA Sizes ==
  ASSUME NEW T, IsFiniteSet(T), NEW S \in SUBSET T
  PROVE  /\ IsFiniteSet(S) /\ Cardinality(S) \in Nat /\ Cardinality(T) \in Nat /\ Cardinality(S) <= Cardinality(T)
         /\ S # T => Cardinality(S) < Cardinality(T)
  <1>1. IsFiniteSet(S) /\ Cardinality(S) <= Cardinality(T) /\ (Cardinality(S) = Cardinality(T) => S = T)
    BY FS_Subset
  <1>2. Cardinality(S) \in Nat /\ Cardinality(T) \in Nat
    BY <1>1, FS_CardinalityType
  <1> QED BY <1>1, <1>2

LEMMA ImagesSmall ==
  ASSUME NEW f, NEW S, S = {f[t] : t \in Tweet}
  PROVE  IsFiniteSet(S) /\ Cardinality(S) <= Cardinality(Tweet)
  <1> DEFINE g == [t \in Tweet |-> f[t]]
  <1>1. g \in Surjection(Tweet, S)
    BY DEF Surjection
  <1> HIDE DEF g
  <1> QED BY <1>1, FS_Surjection, ExpanderAssumption

LEMMA PairsSmall ==
  /\ IsFiniteSet(Pairs) /\ Cardinality(Pairs) <= Cardinality(Tweet)
  /\ IsFiniteSet(Convs) /\ Cardinality(Convs) <= Cardinality(Tweet)
  <1> DEFINE f == [t \in Tweet |-> Pair(t)]
             g == [t \in Tweet |-> Conv(t)]
  <1>1. Pairs = {f[t] : t \in Tweet} /\ Convs = {g[t] : t \in Tweet}
    BY DEF Pairs, Convs
  <1> HIDE DEF f, g
  <1> QED BY <1>1, ImagesSmall

\* What the rounds have to show for themselves.
Spent(y) ==
  Cardinality(Told(y)) + Cardinality(y.searched) + Cardinality(y.detail)
    + Cardinality(y.archived) + Cardinality(y.probes)

LEMMA ToldTyped ==
  ASSUME WorldRight, NEW y, Right(y)
  PROVE  Told(y) \in SUBSET Tweet
  BY WorldIs DEF Right, Told

LEMMA SpentIs ==
  ASSUME WorldRight, NEW y, Right(y)
  PROVE  /\ Spent(y) \in Nat /\ Spent(y) <= 5 * Cardinality(Tweet)
         /\ Cardinality(Told(y)) \in Nat /\ Cardinality(Told(y)) <= Cardinality(Tweet)
  <1>1. /\ Cardinality(Told(y)) \in Nat /\ Cardinality(Told(y)) <= Cardinality(Tweet)
        /\ Cardinality(y.archived) \in Nat /\ Cardinality(y.archived) <= Cardinality(Tweet)
        /\ Cardinality(y.probes) \in Nat /\ Cardinality(y.probes) <= Cardinality(Tweet)
    <2>1. IsFiniteSet(Tweet) /\ y.archived \in SUBSET Tweet /\ y.probes \in SUBSET Tweet /\ Told(y) \in SUBSET Tweet
      BY ToldTyped, ExpanderAssumption DEF Right
    <2> QED BY <2>1, Sizes
  <1>2. /\ Cardinality(y.searched) \in Nat /\ Cardinality(y.searched) <= Cardinality(Pairs)
        /\ Cardinality(y.detail) \in Nat /\ Cardinality(y.detail) <= Cardinality(Convs)
        /\ Cardinality(Pairs) \in Nat /\ Cardinality(Convs) \in Nat
    <2>1. y.searched \in SUBSET Pairs /\ y.detail \in SUBSET Convs
      BY DEF Right
    <2> QED BY <2>1, PairsSmall, Sizes
  <1> QED BY <1>1, <1>2, PairsSmall, Counted DEF Spent

LEMMA SpentGrows ==
  ASSUME WorldRight, NEW y, Right(y), NEW z, Right(z), Told(y) \subseteq Told(z),
         y.searched \subseteq z.searched, y.detail \subseteq z.detail, y.archived \subseteq z.archived, y.probes \subseteq z.probes
  PROVE  /\ Spent(y) <= Spent(z) /\ Cardinality(Told(y)) <= Cardinality(Told(z))
         /\ Told(y) # Told(z) => Cardinality(Told(y)) < Cardinality(Told(z))
         /\ \/ Told(y) # Told(z) \/ y.searched # z.searched \/ y.detail # z.detail
            \/ y.archived # z.archived \/ y.probes # z.probes
            => Spent(y) < Spent(z)
  <1> DEFINE Grows(a, b) == /\ Cardinality(a) \in Nat /\ Cardinality(b) \in Nat /\ Cardinality(a) <= Cardinality(b)
                            /\ a # b => Cardinality(a) < Cardinality(b)
  <1>1. IsFiniteSet(Told(z)) /\ IsFiniteSet(z.archived) /\ IsFiniteSet(z.probes)
    <2>1. IsFiniteSet(Tweet) /\ z.archived \in SUBSET Tweet /\ z.probes \in SUBSET Tweet /\ Told(z) \in SUBSET Tweet
      BY ToldTyped, ExpanderAssumption DEF Right
    <2> QED BY <2>1, Sizes
  <1>2. IsFiniteSet(z.searched) /\ IsFiniteSet(z.detail)
    <2>1. z.searched \in SUBSET Pairs /\ z.detail \in SUBSET Convs
      BY DEF Right
    <2> QED BY <2>1, PairsSmall, Sizes
  <1>3. /\ Grows(Told(y), Told(z)) /\ Grows(y.searched, z.searched) /\ Grows(y.detail, z.detail)
        /\ Grows(y.archived, z.archived) /\ Grows(y.probes, z.probes)
    BY <1>1, <1>2, Sizes
  <1> QED BY <1>3 DEF Spent

\* What nothing but the bookkeeping tells apart.
Alike(y, z) ==
  /\ DOMAIN z = DOMAIN Fresh /\ z.known = y.known /\ z.archived = y.archived /\ z.probes = y.probes
  /\ z.found = y.found /\ z.seen = y.seen /\ z.tombstones = y.tombstones /\ z.unresolvable = y.unresolvable
  /\ z.searched = y.searched /\ z.detail = y.detail

LEMMA AlikeIs ==
  ASSUME NEW y, NEW z, Alike(y, z), Right(y)
  PROVE  Right(z) /\ Told(z) = Told(y) /\ Spent(z) = Spent(y) /\ (Quiet(y) => Quiet(z))
  <1>1. Right(z)
    BY DEF Alike, Right
  <1>2. Told(z) = Told(y)
    BY DEF Alike, Told
  <1>3. Spent(z) = Spent(y)
    BY <1>2 DEF Alike, Spent
  <1>4. Quiet(y) => Quiet(z)
    BY DEF Alike, Quiet, RefsOf, Done
  <1> QED BY <1>1, <1>2, <1>3, <1>4

\* Rounds without progress left nothing to look up, and so did an expansion that is done,
\* unless MAX_ITERATIONS cut it short.
RoundsOK(y) ==
  /\ Right(y) /\ y.round \in Nat /\ y.progress \in BOOLEAN /\ y.phase \in Phase
  /\ y.phase \in {"discover", "adopt"} /\ ~y.progress => Quiet(y)
  /\ y.phase \in {"climb", "done"} => y.found \cup y.seen \cup y.loose \cup y.bystanders \subseteq y.archived
  /\ y.phase = "done" /\ ~y.progress /\ y.round < MaxRounds => Quiet(y)

\* Every round with progress has something to show for itself, so that they are few.
RoundsFew(y) ==
  /\ y.phase = "resolve" => y.round <= Spent(y)
  /\ y.phase = "discover" => y.round <= Spent(y) /\ (y.progress => y.round < Spent(y))
  /\ y.phase \in {"adopt", "climb", "done"} => ~y.progress
  /\ y.phase = "climb" => y.round <= Cardinality(Told(y))
  /\ y.phase = "done" => y.round < MaxRounds

LEMMA ResolveOK ==
  ASSUME WorldRight, RoundsOK(x), Resolve
  PROVE  RoundsOK(x') /\ (RoundsFew(x) => RoundsFew(x'))
  <1>1. CASE ToFetch(x) = {}
    <2>1. x' = [x EXCEPT !.phase = "discover", !.progress = FALSE] /\ x.phase = "resolve"
      BY <1>1 DEF Resolve
    <2>2. Alike(x, x') /\ x'.phase = "discover" /\ x'.progress = FALSE /\ x'.round = x.round
      BY <2>1 DEF Alike, RoundsOK, Right, Fresh
    <2>3. Quiet(x)
      BY <1>1, QuietIs
    <2>4. Right(x') /\ Spent(x') = Spent(x) /\ Quiet(x')
      BY <2>2, <2>3, AlikeIs DEF RoundsOK
    <2> QED BY <2>1, <2>2, <2>4 DEF RoundsOK, RoundsFew, Phase
  <1>2. CASE ToFetch(x) # {}
    <2> DEFINE y == Resolved(x)
    <2>1. x' = [y EXCEPT !.phase = "discover", !.progress = TRUE] /\ x.phase = "resolve"
      BY <1>2 DEF Resolve
    <2>2. /\ Right(y) /\ Told(x) \cup ToFetch(x) \subseteq Told(y) /\ x.archived \subseteq y.archived
          /\ y.searched = x.searched /\ y.detail = x.detail /\ y.probes = x.probes /\ y.round = x.round
          /\ DOMAIN y = DOMAIN Fresh
      BY ResolvedRight DEF RoundsOK
    <2>3. Told(x) # Told(y)
      BY <1>2, <2>2, FetchTyped DEF RoundsOK
    <2> HIDE DEF y
    <2>4. Alike(y, x') /\ x'.phase = "discover" /\ x'.progress = TRUE /\ x'.round = x.round
      BY <2>1, <2>2 DEF Alike, Fresh
    <2>5. Spent(x) < Spent(y) /\ Spent(x) \in Nat /\ Spent(y) \in Nat
      BY <2>2, <2>3, SpentGrows, SpentIs DEF RoundsOK
    <2>6. Right(x') /\ Spent(x') = Spent(y)
      BY <2>2, <2>4, AlikeIs
    <2>7. x.round \in Nat /\ (RoundsFew(x) => x.round <= Spent(x))
      BY <2>1 DEF RoundsOK, RoundsFew
    <2>8. x'.round \in Nat /\ (RoundsFew(x) => x'.round < Spent(x'))
      BY <2>4, <2>5, <2>6, <2>7
    <2>9. Spent(x') \in Nat
      BY <2>5, <2>6
    <2>10. RoundsOK(x')
      BY <2>4, <2>6, <2>8 DEF RoundsOK, Phase
    <2>11. RoundsFew(x) => RoundsFew(x')
      BY <2>4, <2>8, <2>9 DEF RoundsFew
    <2> QED BY <2>10, <2>11
  <1> QED BY <1>1, <1>2

LEMMA DiscoverOK ==
  ASSUME WorldRight, RoundsOK(x), Discover
  PROVE  RoundsOK(x') /\ (Enough /\ RoundsFew(x) => RoundsFew(x'))
  <1>0. PICK walked \in SUBSET PendingPairs(x) :
          \E answered \in SUBSET Asked(x, walked) :
            LET y == Discovered(x, walked, Asked(x, walked), answered) IN
            x' = EndOfRound([y EXCEPT !.partial = @ \/ walked # PendingPairs(x) \/ answered # Asked(x, walked)],
                            \/ x.progress \/ PendingPairs(x) # {} \/ Asked(x, walked) # {}
                            \/ y.archived # x.archived \/ y.probes # x.probes)
    BY DEF Discover, Asked
  <1>1. PICK answered \in SUBSET Asked(x, walked) :
          LET y == Discovered(x, walked, Asked(x, walked), answered) IN
          x' = EndOfRound([y EXCEPT !.partial = @ \/ walked # PendingPairs(x) \/ answered # Asked(x, walked)],
                          \/ x.progress \/ PendingPairs(x) # {} \/ Asked(x, walked) # {}
                          \/ y.archived # x.archived \/ y.probes # x.probes)
    BY <1>0
  <1> DEFINE y == Discovered(x, walked, Asked(x, walked), answered)
             convs == Asked(x, walked)
             more == \/ x.progress \/ PendingPairs(x) # {} \/ convs # {}
                     \/ y.archived # x.archived \/ y.probes # x.probes
             part == y.partial \/ walked # PendingPairs(x) \/ answered # convs
  <1>2. /\ Right(y) /\ Told(x) \subseteq Told(y) /\ x.archived \subseteq y.archived /\ x.probes \subseteq y.probes
        /\ PendingPairs(x) = {} /\ convs = {} /\ y.archived = x.archived =>
             y.known = x.known /\ y.tombstones = x.tombstones /\ y.unresolvable = x.unresolvable
    <2>1. Right(x)
      BY DEF RoundsOK
    <2> QED BY <2>1, DiscoveredRight
  <1>3. /\ y.searched = x.searched \cup PendingPairs(x) /\ y.detail = x.detail \cup convs /\ y.round = x.round
    <2> DEFINE all == Ingest(Ingest(x.known, FoundBy(walked)), ShownBy(answered))
    <2>1. y = Discovered(x, walked, convs, answered) /\ Right(x)
          /\ all = Ingest(Ingest(x.known, FoundBy(walked)), ShownBy(answered))
      BY DEF RoundsOK
    <2> HIDE DEF y, all, convs
    <2> QED BY <2>1, DiscoveredIs
  <1>4. x' = EndOfRound([y EXCEPT !.partial = part], more)
    BY <1>1, <1>2 DEF Right, Fresh
  <1>5. PendingPairs(x) \cap x.searched = {} /\ convs \cap x.detail = {}
    BY DEF PendingPairs, Asked, ProtectedConvs, Missed
  <1>6. x.phase = "discover"
    BY DEF Discover
  <1>7. more \in BOOLEAN
    OBVIOUS
  <1>8. /\ x.progress \in BOOLEAN
        /\ ~more => ~x.progress /\ PendingPairs(x) = {} /\ convs = {} /\ y.archived = x.archived /\ y.probes = x.probes
        /\ more => \/ x.progress \/ x.searched # y.searched \/ x.detail # y.detail
                   \/ x.archived # y.archived \/ x.probes # y.probes
    BY <1>3, <1>5 DEF RoundsOK
  <1> HIDE DEF y, convs, more, part
  <1>9. /\ Alike(y, x') /\ x'.progress = more /\ x'.round = x.round + 1
        /\ x'.phase = IF more /\ x.round + 1 < MaxRounds THEN "resolve" ELSE "adopt"
    BY <1>2, <1>3, <1>4 DEF EndOfRound, Alike, Right, Fresh
  <1>10. Right(x') /\ Spent(x') = Spent(y) /\ (Quiet(y) => Quiet(x'))
    BY <1>2, <1>9, AlikeIs
  <1>11. /\ Spent(x) \in Nat /\ Spent(y) \in Nat /\ Spent(y) <= 5 * Cardinality(Tweet) /\ Spent(x) <= Spent(y)
         /\ (\/ x.searched # y.searched \/ x.detail # y.detail
             \/ x.archived # y.archived \/ x.probes # y.probes) => Spent(x) < Spent(y)
    <2>1. Right(x) /\ x.searched \subseteq y.searched /\ x.detail \subseteq y.detail
      BY <1>3 DEF RoundsOK
    <2> QED BY <1>2, <2>1, SpentIs, SpentGrows
  <1>12. /\ x.round \in Nat /\ (~x.progress => Quiet(x))
         /\ RoundsFew(x) => x.round <= Spent(x) /\ (x.progress => x.round < Spent(x))
    BY <1>6 DEF RoundsOK, RoundsFew
  <1>13. x'.round \in Nat /\ x'.progress \in BOOLEAN /\ x'.phase \in {"resolve", "adopt"}
    BY <1>7, <1>9, <1>12
  <1>14. ~more => Quiet(y)
    BY <1>2, <1>8, <1>12 DEF Quiet, RefsOf, Done
  <1>15. RoundsOK(x')
    BY <1>9, <1>10, <1>13, <1>14 DEF RoundsOK, Phase
  <1>16. ASSUME Enough, RoundsFew(x) PROVE RoundsFew(x')
    <2>1. CASE more
      <3>1. x.round < Spent(y)
        BY <1>8, <1>11, <1>12, <1>16, <2>1
      <3>2. x.round + 1 <= Spent(y) /\ x.round + 1 < MaxRounds
        BY <1>11, <1>12, <1>16, <3>1, Counted, ExpanderAssumption DEF Enough
      <3>3. x'.phase = "resolve" /\ x'.round <= Spent(x')
        BY <1>9, <1>10, <2>1, <3>2
      <3> QED BY <3>3 DEF RoundsFew
    <2>2. CASE ~more
      <3>1. x'.phase = "adopt" /\ ~x'.progress
        BY <1>9, <2>2
      <3> QED BY <3>1 DEF RoundsFew
    <2> QED BY <2>1, <2>2
  <1> QED BY <1>15, <1>16

LEMMA AdoptOK ==
  ASSUME WorldRight, RoundsOK(x), Adopt
  PROVE  RoundsOK(x') /\ (RoundsFew(x) => RoundsFew(x'))
  <1> DEFINE loose == x.found \ x.archived
             bystanders == (x.seen \ x.archived) \ loose
  <1>1. /\ x.phase = "adopt" /\ Right(x) /\ x.progress \in BOOLEAN /\ (~x.progress => Quiet(x))
        /\ x' = [x EXCEPT !.core = x.archived, !.loose = loose, !.bystanders = bystanders,
                          !.archived = @ \cup loose \cup bystanders, !.round = 0,
                          !.phase = IF loose \cup bystanders = {} THEN "done" ELSE "climb"]
    BY DEF Adopt, RoundsOK
  <1>2. loose \cup bystanders \subseteq x.found \cup x.seen /\ x.found \cup x.seen \subseteq x.archived \cup loose \cup bystanders
    OBVIOUS
  <1> HIDE DEF loose, bystanders
  <1>3. /\ DOMAIN x' = DOMAIN Fresh /\ x'.known = x.known /\ x'.archived = x.archived \cup loose \cup bystanders
        /\ x'.probes = x.probes /\ x'.found = x.found /\ x'.seen = x.seen /\ x'.tombstones = x.tombstones
        /\ x'.unresolvable = x.unresolvable /\ x'.searched = x.searched /\ x'.detail = x.detail
        /\ x'.loose = loose /\ x'.bystanders = bystanders /\ x'.round = 0 /\ x'.progress = x.progress
        /\ x'.phase = IF loose \cup bystanders = {} THEN "done" ELSE "climb"
    BY <1>1 DEF Right, Fresh
  <1>4. Right(x')
    BY <1>1, <1>2, <1>3 DEF Right
  <1>5. x'.found \cup x'.seen \cup x'.loose \cup x'.bystanders \subseteq x'.archived
    BY <1>2, <1>3
  <1>6. Cardinality(Told(x')) \in Nat
    BY <1>4, SpentIs
  <1>7. x'.phase = "done" /\ ~x'.progress => Quiet(x')
    <2>1. x'.phase = "done" => Alike(x, x')
      BY <1>3 DEF Alike
    <2> QED BY <1>1, <1>3, <2>1, AlikeIs
  <1>8. x'.phase \in {"climb", "done"}
    BY <1>3
  <1>9. x'.round \in Nat
    BY <1>3
  <1>10. x'.progress \in BOOLEAN /\ (RoundsFew(x) => ~x'.progress)
    BY <1>1, <1>3 DEF RoundsFew
  <1>11. x'.round <= Cardinality(Told(x')) /\ x'.round < MaxRounds
    BY <1>3, <1>6, ExpanderAssumption
  <1>12. RoundsOK(x')
    BY <1>4, <1>5, <1>7, <1>8, <1>9, <1>10 DEF RoundsOK, Phase
  <1> QED BY <1>8, <1>10, <1>11, <1>12 DEF RoundsFew

LEMMA ClimbOK ==
  ASSUME WorldRight, RoundsOK(x), Climb
  PROVE  RoundsOK(x') /\ (Tweet # {} /\ Enough /\ RoundsFew(x) => RoundsFew(x'))
  <1> DEFINE y == [x EXCEPT !.archived = @ \cup Above(x), !.round = @ + 1]
             z == Resolved(y)
  <1>1. /\ x.phase = "climb" /\ Right(x) /\ x.round \in Nat /\ x.progress \in BOOLEAN
        /\ RoundsFew(x) => x.round <= Cardinality(Told(x)) /\ ~x.progress
        /\ x.found \cup x.seen \cup x.loose \cup x.bystanders \subseteq x.archived
    BY DEF Climb, RoundsOK, RoundsFew
  <1>2. /\ ToFetch(y) = {} => x' = [y EXCEPT !.phase = "done"]
        /\ ToFetch(y) # {} => x' = [z EXCEPT !.phase = IF y.round < MaxRounds THEN "climb" ELSE "done"]
    BY DEF Climb
  <1>3. /\ DOMAIN y = DOMAIN Fresh /\ y.known = x.known /\ y.archived = x.archived \cup Above(x)
        /\ y.probes = x.probes /\ y.found = x.found /\ y.seen = x.seen /\ y.tombstones = x.tombstones
        /\ y.unresolvable = x.unresolvable /\ y.searched = x.searched /\ y.detail = x.detail
        /\ y.loose = x.loose /\ y.bystanders = x.bystanders /\ y.round = x.round + 1 /\ y.progress = x.progress
    BY <1>1 DEF Right, Fresh
  <1> HIDE DEF y
  <1>4. Above(x) \subseteq x.archived \cup Known(x)
    BY <1>1, AboveIs
  <1>5. Right(y)
    BY <1>1, <1>3, <1>4 DEF Right, Known
  <1>6. Told(y) = Told(x)
    BY <1>3 DEF Told
  <1>7. Cardinality(Told(y)) \in Nat /\ Cardinality(Told(y)) <= Cardinality(Tweet) /\ Cardinality(Tweet) \in Nat
        /\ (Tweet # {} => Cardinality(Tweet) # 0)
    BY <1>5, SpentIs, Counted, ExpanderAssumption, FS_EmptySet
  <1>8. CASE ToFetch(y) = {}
    <2>1. Alike(y, x') /\ x'.phase = "done" /\ x'.round = y.round /\ x'.progress = y.progress
          /\ x'.loose = y.loose /\ x'.bystanders = y.bystanders
      BY <1>2, <1>3, <1>8 DEF Alike, Fresh
    <2>2. Quiet(y)
      BY <1>8, QuietIs
    <2>3. Right(x') /\ Quiet(x')
      BY <1>5, <2>1, <2>2, AlikeIs
    <2>4. x'.found \cup x'.seen \cup x'.loose \cup x'.bystanders \subseteq x'.archived
      BY <1>1, <1>3, <2>1 DEF Alike
    <2>5. RoundsOK(x')
      BY <1>1, <1>3, <2>1, <2>3, <2>4 DEF RoundsOK, Phase
    <2>6. ASSUME Tweet # {}, Enough, RoundsFew(x) PROVE x'.round < MaxRounds /\ ~x'.progress
      BY <1>1, <1>3, <1>6, <1>7, <2>1, <2>6, ExpanderAssumption DEF Enough
    <2> QED BY <2>1, <2>5, <2>6 DEF RoundsFew
  <1>9. CASE ToFetch(y) # {}
    <2>1. /\ Right(z) /\ Told(y) \cup ToFetch(y) \subseteq Told(z) /\ y.archived \subseteq z.archived
          /\ z.searched = y.searched /\ z.detail = y.detail /\ z.probes = y.probes /\ z.found = y.found /\ z.seen = y.seen
          /\ z.round = y.round /\ z.progress = y.progress
          /\ z.loose = y.loose /\ z.bystanders = y.bystanders /\ DOMAIN z = DOMAIN Fresh
      BY <1>5, ResolvedRight
    <2>2. Told(y) # Told(z)
      BY <1>5, <1>9, <2>1, FetchTyped
    <2> HIDE DEF z
    <2>3. /\ Cardinality(Told(y)) < Cardinality(Told(z)) /\ Cardinality(Told(z)) <= Cardinality(Tweet)
          /\ Cardinality(Told(z)) \in Nat
      BY <1>5, <2>1, <2>2, SpentGrows, SpentIs
    <2>4. Alike(z, x') /\ x'.round = y.round /\ x'.progress = y.progress
          /\ x'.phase = (IF y.round < MaxRounds THEN "climb" ELSE "done")
          /\ x'.loose = y.loose /\ x'.bystanders = y.bystanders
      BY <1>2, <1>9, <2>1 DEF Alike, Fresh
    <2>5. Right(x') /\ Told(x') = Told(z)
      BY <2>1, <2>4, AlikeIs
    <2>6. x'.found \cup x'.seen \cup x'.loose \cup x'.bystanders \subseteq x'.archived
      BY <1>1, <1>3, <2>1, <2>4 DEF Alike
    <2>7. x'.phase \in {"climb", "done"} /\ (x'.phase = "done" => ~ (x'.round < MaxRounds)) /\ x'.round \in Nat
      BY <1>1, <1>3, <2>4
    <2>8. RoundsOK(x')
      BY <1>1, <1>3, <2>4, <2>5, <2>6, <2>7 DEF RoundsOK, Phase
    <2>9. ASSUME Tweet # {}, Enough, RoundsFew(x) PROVE RoundsFew(x')
      <3>1. y.round \in Nat /\ y.round <= Cardinality(Told(z)) /\ y.round < MaxRounds
        BY <1>1, <1>3, <1>6, <1>7, <2>3, <2>9, ExpanderAssumption DEF Enough
      <3>2. x'.phase = "climb" /\ x'.round <= Cardinality(Told(x')) /\ ~x'.progress
        BY <1>1, <1>3, <2>4, <2>5, <2>9, <3>1
      <3> QED BY <3>2 DEF RoundsFew
    <2> QED BY <2>8, <2>9
  <1> QED BY <1>8, <1>9

LEMMA RaiseOK ==
  ASSUME Raise
  PROVE  RoundsOK(x') /\ RoundsFew(x')
  <1>1. x' = [Fresh EXCEPT !.phase = "failed"]
    BY DEF Raise
  <1> QED BY <1>1 DEF RoundsOK, RoundsFew, Right, Fresh, Phase, Knowledge

LEMMA SeededKnown ==
  ASSUME NEW seeds \in SUBSET Tweet, NEW kind \in {"full", "bare"}, NEW skip
  PROVE  LET y == Seeded(seeds, kind, skip) IN
         /\ y.known \in [Tweet -> Knowledge]
         /\ \A u \in Tweet : (y.known[u] = "full" => u \in seeds) /\ (u \in seeds => y.known[u] # "none")
  <1> DEFINE none == [u \in Tweet |-> "none"]
             y == Seeded(seeds, kind, skip)
  <1>1. /\ none \in [Tweet -> Knowledge] /\ \A u \in Tweet : none[u] = "none"
    BY DEF Knowledge
  <1> HIDE DEF none
  <1>2. /\ Ingest(none, seeds) \in [Tweet -> Knowledge]
        /\ \A u \in Tweet : Ingest(none, seeds)[u] = "full" <=> u \in seeds \/ none[u] = "full"
    BY <1>1, IngestIs
  <1>3. y.known = IF kind = "full" THEN Ingest(none, seeds) ELSE [u \in Tweet |-> IF u \in seeds THEN "bare" ELSE "none"]
    BY DEF Seeded, Fresh, none
  <1> HIDE DEF y
  <1>4. CASE kind = "full"
    BY <1>1, <1>2, <1>3, <1>4 DEF y
  <1>5. CASE kind = "bare"
    BY <1>3, <1>5 DEF Knowledge, y
  <1> QED BY <1>4, <1>5

LEMMA SeededOK ==
  ASSUME NEW seeds \in SUBSET Tweet, NEW kind \in {"full", "bare"}, NEW skip \in SUBSET Pairs
  PROVE  RoundsOK(Seeded(seeds, kind, skip)) /\ RoundsFew(Seeded(seeds, kind, skip))
  <1> DEFINE y == Seeded(seeds, kind, skip)
  <1>1. /\ DOMAIN y = DOMAIN Fresh /\ y.archived = seeds /\ y.probes = {} /\ y.found = {} /\ y.seen = {}
        /\ y.tombstones = {} /\ y.unresolvable = {} /\ y.searched = skip /\ y.detail = {}
        /\ y.phase = "resolve" /\ y.round = 0 /\ y.progress = FALSE
    BY DEF Seeded, Fresh
  <1>2. y.known \in [Tweet -> Knowledge]
    BY SeededKnown
  <1>3. \A u \in Tweet : y.known[u] = "full" => u \in seeds
    BY SeededKnown
  <1>4. \A u \in Tweet : u \in seeds => y.known[u] # "none"
    BY SeededKnown
  <1>5. /\ y.known \in [Tweet -> Knowledge]
        /\ \A u \in Tweet : (y.known[u] = "full" => u \in seeds) /\ (u \in seeds => y.known[u] # "none")
    BY <1>2, <1>3, <1>4
  <1> HIDE DEF y
  <1>6. Right(y)
    BY <1>5, <1>1 DEF Right
  <1>7. Spent(y) \in Nat
    <2>1. /\ Cardinality(y.archived) \in Nat /\ Cardinality(y.searched) \in Nat /\ Cardinality({}) = 0
      <3>1. seeds \in SUBSET Tweet /\ skip \in SUBSET Pairs
        OBVIOUS
      <3> QED BY <1>1, <3>1, PairsSmall, Sizes, ExpanderAssumption, FS_EmptySet
    <2>2. Cardinality(Told(y)) \in Nat
      <3>1. Told(y) \in SUBSET Tweet
        BY <1>5, <1>1 DEF Told
      <3> QED BY <3>1, ExpanderAssumption, Sizes
    <2> QED BY <1>1, <2>1, <2>2 DEF Spent
  <1>8. RoundsOK(y) /\ RoundsFew(y)
    <2>1. y.round \in Nat /\ y.round <= Spent(y)
      BY <1>1, <1>7
    <2>2. y.phase = "resolve"
      BY <1>1
    <2>3. y.progress \in BOOLEAN
      BY <1>1, Zenon
    <2> QED BY <1>6, <2>1, <2>2, <2>3 DEF RoundsOK, RoundsFew, Phase
  <1> QED BY <1>8 DEF y

-----------------------------------------------------------------------------
(* The world stays                                                         *)

\* The tweet that started the conversation of each, in a world of these answers.
RootOf(parent) ==
  LET root[u \in Tweet] == IF parent[u] = None THEN u ELSE root[parent[u]]
  IN  root

LEMMA ConvIs == \A t : Conv(t) = RootOf(world.parent)[t]
  BY DEF Conv, RootOf

LEMMA PairsStay ==
  ASSUME UNCHANGED world
  PROVE  Pairs' = Pairs /\ Convs' = Convs /\ \A t \in Tweet : Pair(t)' = Pair(t) /\ Conv(t)' = Conv(t)
  <1>1. \A t \in Tweet : Conv(t)' = Conv(t)
    BY DEF Conv
  <1>2. \A t \in Tweet : Pair(t)' = Pair(t)
    BY <1>1 DEF Pair
  <1> QED BY <1>1, <1>2 DEF Pairs, Convs

LEMMA RoundsStay ==
  ASSUME UNCHANGED world
  PROVE  (RoundsOK(x') => RoundsOK(x)') /\ (RoundsFew(x') => RoundsFew(x)')
  <1>1. Right(x') => Right(x)'
    BY PairsStay DEF Right, Served
  <1>2. Told(x)' = Told(x')
    BY DEF Told
  <1>3. Spent(x)' = Spent(x')
    BY <1>2 DEF Spent
  <1>4. Quiet(x') => Quiet(x)'
    BY DEF Quiet, RefsOf, Done
  <1>5. RoundsOK(x') => RoundsOK(x)'
    BY <1>1, <1>4 DEF RoundsOK
  <1>6. RoundsFew(x') => RoundsFew(x)'
    BY <1>2, <1>3 DEF RoundsFew
  <1> QED BY <1>5, <1>6

ExpandInv == Tweet # {} /\ WorldRight /\ RoundsOK(x)

LEMMA ExpandKeepsInv ==
  ASSUME ExpandInv, Expand \/ Ended
  PROVE  /\ UNCHANGED world /\ RoundsOK(x') /\ ExpandInv'
         /\ Enough /\ RoundsFew(x) => RoundsFew(x)'
  <1>1. UNCHANGED world
    BY DEF Expand, Resolve, Discover, Adopt, Climb, Raise, Ended
  <1>2. RoundsOK(x') /\ (Enough /\ RoundsFew(x) => RoundsFew(x'))
    <2>1. CASE Ended
      BY <2>1 DEF Ended, ExpandInv
    <2>2. CASE Expand
      BY <2>2, ResolveOK, DiscoverOK, AdoptOK, ClimbOK, RaiseOK DEF Expand, ExpandInv
    <2> QED BY <2>1, <2>2
  <1> QED BY <1>1, <1>2, RoundsStay DEF ExpandInv, WorldRight

LEMMA ExpandInitIsInv ==
  ASSUME WorldsAssumption
  PROVE  ExpandInit => ExpandInv /\ RoundsFew(x)
  <1> SUFFICES ASSUME NEW t \in Tweet, NEW kind \in {"full", "bare"}, x = Seeded({t}, kind, {}), world \in Worlds
               PROVE  ExpandInv /\ RoundsFew(x)
    BY DEF ExpandInit
  <1>1. RoundsOK(x) /\ RoundsFew(x)
    BY SeededOK
  <1> QED BY <1>1 DEF ExpandInv, WorldRight, WorldsAssumption

LEMMA ExpandIdles ==
  ASSUME ExpandInv, UNCHANGED <<world, x>>
  PROVE  /\ UNCHANGED world /\ RoundsOK(x') /\ ExpandInv'
         /\ RoundsFew(x) => RoundsFew(x)'
  <1>1. UNCHANGED world /\ RoundsOK(x') /\ (RoundsFew(x) => RoundsFew(x'))
    BY DEF ExpandInv
  <1> QED BY <1>1, RoundsStay DEF ExpandInv, WorldRight

LEMMA ExpandIsInv ==
  ASSUME WorldsAssumption
  PROVE  ExpandSpec => []ExpandInv
  <1>1. ExpandInv /\ [Expand \/ Ended]_<<world, x>> => ExpandInv'
    BY ExpandKeepsInv, ExpandIdles
  <1> QED BY <1>1, ExpandInitIsInv, PTL DEF ExpandSpec

\* MAX_ITERATIONS ended an expansion that may have had more to do.
CutShort == x.phase = "done" /\ (x.progress \/ x.round >= MaxRounds)

\* However many tweets X holds, and whatever fails: no more than five rounds a tweet are
\* needed, so that with that many to spare (MAX_ITERATIONS, expander.py:34-39) the rounds
\* end because one of them found nothing left to do, and so does the climb to the ancestors.
THEOREM RoundsEndThemselves ==
  ASSUME WorldsAssumption, Enough
  PROVE  ExpandSpec => []EndsOnItsOwn /\ []~CutShort
  <1>1. ExpandInv /\ RoundsFew(x) /\ [Expand \/ Ended]_<<world, x>> => (ExpandInv /\ RoundsFew(x))'
    BY ExpandKeepsInv, ExpandIdles
  <1>2. RoundsFew(x) => EndsOnItsOwn
    BY DEF RoundsFew, EndsOnItsOwn
  <1>3. ExpandInv /\ RoundsFew(x) => ~CutShort
    BY ExpanderAssumption DEF RoundsFew, CutShort, ExpandInv, RoundsOK
  <1> QED BY <1>1, <1>2, <1>3, ExpandInitIsInv, PTL DEF ExpandSpec

\* Whatever MAX_ITERATIONS is: when an expansion that it did not cut short is done, every
\* tweet X serves that an archived tweet answers, quotes, retweets or links to is archived
\* with it, probes excepted (expander.py:161, :203); and where it is enough, none is cut short.
THEOREM CitedKept ==
  ASSUME WorldsAssumption
  PROVE  /\ ExpandSpec => [](CutShort \/ CitedIsKept)
         /\ Enough => (ExpandSpec => []CitedIsKept)
  <1>1. ASSUME ExpandInv, ~CutShort PROVE CitedIsKept
    <2> SUFFICES ASSUME x.phase = "done", NEW t \in x.archived, NEW u \in RefsOf(x, t) \cap Served
                 PROVE  u \in x.archived \cup x.probes
      BY DEF CitedIsKept
    <2>0. ~x.progress /\ x.round < MaxRounds
      BY <1>1, ExpanderAssumption DEF CutShort, ExpandInv, RoundsOK
    <2>1. Right(x) /\ Quiet(x) /\ x.found \cup x.seen \subseteq x.archived
      BY <1>1, <2>0 DEF ExpandInv, RoundsOK
    <2>2. u \in Done(x)
      BY <2>1 DEF Quiet
    <2>3. u \in Tweet /\ u \notin x.tombstones /\ u \notin x.unresolvable
      BY <2>1 DEF Right, Served
    <2>4. x.known[u] = "full"
      BY <2>2, <2>3 DEF Done
    <2> QED BY <2>1, <2>3, <2>4 DEF Right
  <1>2. ExpandSpec => [](CutShort \/ CitedIsKept)
    BY <1>1, ExpandIsInv, PTL
  <1>3. ASSUME Enough PROVE ExpandSpec => []CitedIsKept
    <2>1. ExpandSpec => []~CutShort
      BY <1>3, RoundsEndThemselves, PTL
    <2> QED BY <1>2, <2>1, PTL
  <1> QED BY <1>2, <1>3

-----------------------------------------------------------------------------
(* Conversations and threads                                               *)

LEMMA TweetsBounded == \E m \in Nat : \A t \in Tweet : t < m
  <1> DEFINE n == Cardinality(Tweet)
  <1>1. n \in Nat /\ ExistsBijection(1 .. n, Tweet)
    BY ExpanderAssumption, FS_CardinalityType
  <1>2. PICK f \in [1 .. n -> Tweet] : \A t \in Tweet : \E i \in 1 .. n : f[i] = t
    BY <1>1 DEF ExistsBijection, Bijection, Surjection
  <1> HIDE DEF n
  <1> DEFINE T == {k \in 0 .. n : \E m \in Nat : \A i \in 1 .. k : f[i] < m}
  <1>3. 0 \in T
    BY <1>1
  <1>4. ASSUME NEW k \in 1 .. n, k - 1 \in T PROVE k \in T
    <2>1. PICK m \in Nat : \A i \in 1 .. k - 1 : f[i] < m
      BY <1>4
    <2>2. f[k] \in Nat /\ \A i \in 1 .. n : f[i] \in Nat
      BY <1>2, ExpanderAssumption
    <2>3. m + f[k] + 1 \in Nat /\ \A i \in 1 .. k : f[i] < m + f[k] + 1
      <3>1. m + f[k] + 1 \in Nat /\ f[k] < m + f[k] + 1
        BY <2>2
      <3>2. \A i \in 1 .. k : i = k \/ i \in 1 .. k - 1
        BY <1>1
      <3>3. \A i \in 1 .. k - 1 : f[i] \in Nat /\ f[i] < m + f[k] + 1
        BY <1>1, <2>1, <2>2
      <3> QED BY <3>1, <3>2, <3>3
    <2>4. k \in 0 .. n
      BY <1>1
    <2> QED BY <2>3, <2>4
  <1> HIDE DEF T
  <1>5. n \in T
    BY <1>1, <1>3, <1>4, UpTo
  <1> QED BY <1>1, <1>2, <1>5 DEF T

\* A conversation is that of the tweet answered.
LEMMA RootIs ==
  ASSUME NEW parent, \A t \in Tweet : parent[t] = None \/ (parent[t] \in Tweet /\ parent[t] < t)
  PROVE  \A t \in Tweet : RootOf(parent)[t] = IF parent[t] = None THEN t ELSE RootOf(parent)[parent[t]]
  <1> DEFINE Below(n) == {t \in Tweet : t < n}
             Of(g, n) == g = [t \in Below(n) |-> IF parent[t] = None THEN t ELSE g[parent[t]]]
             Root(g) == g = [t \in Tweet |-> IF parent[t] = None THEN t ELSE g[parent[t]]]
             T == {n \in Nat : \E g : Of(g, n)}
  <1>1. PICK m \in Nat : \A t \in Tweet : t < m
    BY TweetsBounded
  <1>10. \A t \in Tweet : t \in Nat
    BY ExpanderAssumption
  <1>2. 0 \in T
    <2>1. \A t \in Below(0) : FALSE
      BY <1>10
    <2> DEFINE g == [t \in Below(0) |-> t]
    <2>2. Of(g, 0)
      BY <2>1
    <2> QED BY <2>2
  <1>3. ASSUME NEW n \in 1 .. m, n - 1 \in T PROVE n \in T
    <2>1. PICK h : Of(h, n - 1)
      BY <1>3
    <2> DEFINE g == [t \in Below(n) |-> IF parent[t] = None THEN t ELSE h[parent[t]]]
    <2>2. \A t \in Below(n) : parent[t] # None => parent[t] \in Below(n - 1) /\ parent[t] \in Below(n)
      <3> SUFFICES ASSUME NEW t \in Below(n), parent[t] # None PROVE parent[t] \in Below(n - 1) /\ parent[t] \in Below(n)
        OBVIOUS
      <3>1. t \in Nat /\ t < n /\ parent[t] \in Tweet /\ parent[t] \in Nat /\ parent[t] < t /\ n \in Nat
        BY <1>10
      <3>2. parent[t] < n - 1 /\ parent[t] < n
        BY <3>1
      <3> QED BY <3>1, <3>2
    <2>3. \A t \in Below(n - 1) : t \in Below(n) /\ h[t] = g[t]
      <3>1. \A t \in Below(n - 1) : t \in Below(n)
        BY <1>10
      <3>2. \A t \in Below(n - 1) : h[t] = IF parent[t] = None THEN t ELSE h[parent[t]]
        <4> HIDE DEF Below
        <4> QED BY <2>1
      <3> HIDE DEF Below
      <3> QED BY <3>1, <3>2
    <2>4. \A t \in Below(n) : g[t] = IF parent[t] = None THEN t ELSE g[parent[t]]
      <3> HIDE DEF Below
      <3> QED BY <2>2, <2>3
    <2>5. Of(g, n)
      <3>1. g = [t \in Below(n) |-> g[t]]
        OBVIOUS
      <3> HIDE DEF g, Below
      <3> QED BY <2>4, <3>1
    <2> HIDE DEF g, Of
    <2> QED BY <2>5
  <1>4. m \in T
    <2> HIDE DEF T
    <2> QED BY <1>2, <1>3, UpTo
  <1>5. Below(m) = Tweet
    BY <1>1
  <1>6. \E g : Root(g)
    <2> HIDE DEF Below
    <2> QED BY <1>4, <1>5
  <1>7. RootOf(parent) = CHOOSE g : Root(g)
    BY DEF RootOf
  <1>8. Root(RootOf(parent))
    <2> HIDE DEF Root
    <2> QED BY <1>6, <1>7
  <1> QED BY <1>8

LEMMA ConvOfParent ==
  ASSUME WorldRight, NEW u \in Tweet, NEW v \in Tweet, world.parent[u] = v
  PROVE  Conv(u) = Conv(v)
  <1>1. \A t \in Tweet : world.parent[t] = None \/ (world.parent[t] \in Tweet /\ world.parent[t] < t)
    BY WorldIs
  <1>2. v # None
    BY ExpanderAssumption
  <1> QED BY <1>1, <1>2, RootIs, ConvIs

\* Next to each other in a thread; what is next to some tweets, as far as X serves it.
Link(u, v) == world.parent[u] = v /\ world.author[u] = world.author[v]
Near(tweets) == {u \in Served : \E v \in tweets : Link(u, v) \/ Link(v, u)}

LEMMA ChainIs ==
  ASSUME NEW t \in Tweet
  PROVE  \E c : /\ Chain(t) = c[Cardinality(Tweet)] /\ c[0] = {t}
                /\ \A k \in 1 .. Cardinality(Tweet) : c[k] = c[k - 1] \cup Near(c[k - 1])
  <1> DEFINE A == {t}
             D == SUBSET Tweet
             F == [c \in D |-> c \cup Near(c)]
             m == Cardinality(Tweet)
             Of(g) == g = [n \in 0 .. m |-> IF n = 0 THEN A ELSE g[n - 1] \cup Near(g[n - 1])]
             chain == CHOOSE f : Of(f)
  <1>1. m \in Nat /\ F \in [D -> D] /\ A \in D /\ \A c \in D : F[c] = c \cup Near(c)
    <2>1. \A c \in D : c \cup Near(c) \in D
      BY DEF Near, Served
    <2> QED BY <2>1, Counted
  <1>2. Chain(t) = chain[m]
    BY DEF Chain, Near, Link
  <1> HIDE DEF F, D, m, A
  <1>3. PICK g \in [0 .. m -> D] : Iterated(g, m, A, F)
    <2>1. m \in Nat /\ A \in D /\ F \in [D -> D]
      BY <1>1
    <2> QED BY <2>1, Iterates
  <1>4. Of(g)
    <2>1. \A n \in 0 .. m : n # 0 => F[g[n - 1]] = g[n - 1] \cup Near(g[n - 1])
      BY <1>1
    <2> QED BY <1>3, <2>1 DEF Iterated
  <1>5. Of(chain)
    <2> HIDE DEF Of
    <2> QED BY <1>4
  <1> HIDE DEF chain
  <1>6. chain[0] = {t} /\ \A k \in 1 .. m : chain[k] = chain[k - 1] \cup Near(chain[k - 1])
    <2>1. 0 \in 0 .. m /\ \A k \in 1 .. m : k \in 0 .. m /\ k # 0
      BY <1>1
    <2> QED BY <1>5, <2>1 DEF A
  <1> QED BY <1>2, <1>6 DEF m

\* The author's own, in the same conversation, and served.
Kin(t) == {u \in Served : Pair(u) = Pair(t)}

LEMMA ChainIsKin ==
  ASSUME WorldRight, NEW t \in Served
  PROVE  Chain(t) \subseteq Kin(t)
  <1> DEFINE m == Cardinality(Tweet)
  <1>0. t \in Tweet /\ Served \subseteq Tweet /\ m \in Nat
    BY Counted DEF Served
  <1>1. PICK c : /\ Chain(t) = c[m] /\ c[0] = {t} /\ \A k \in 1 .. m : c[k] = c[k - 1] \cup Near(c[k - 1])
    BY <1>0, ChainIs
  <1>2. \A u, v \in Tweet : Link(u, v) => Pair(u) = Pair(v)
    BY ConvOfParent DEF Link, Pair
  <1>3. \A s : s \subseteq Kin(t) => Near(s) \subseteq Kin(t)
    BY <1>0, <1>2 DEF Near, Kin
  <1> HIDE DEF m
  <1> DEFINE T == {k \in 0 .. m : c[k] \subseteq Kin(t)}
  <1>4. 0 \in T
    BY <1>0, <1>1 DEF Kin
  <1>5. \A k \in 1 .. m : k - 1 \in T => k \in T
    BY <1>0, <1>1, <1>3
  <1> HIDE DEF T
  <1>6. m \in T
    BY <1>0, <1>4, <1>5, UpTo
  <1> QED BY <1>1, <1>6 DEF T

LEMMA ChainHasNear ==
  ASSUME NEW t \in Tweet, NEW p \in Near({t})
  PROVE  p \in Chain(t)
  <1> DEFINE m == Cardinality(Tweet)
  <1>0. m \in Nat \ {0}
    BY Counted, ExpanderAssumption, FS_EmptySet
  <1>1. PICK c : /\ Chain(t) = c[m] /\ c[0] = {t} /\ \A k \in 1 .. m : c[k] = c[k - 1] \cup Near(c[k - 1])
    BY ChainIs
  <1> HIDE DEF m
  <1> DEFINE T == {k \in 0 .. m : k # 0 => p \in c[k]}
  <1>2. 0 \in T
    BY <1>0
  <1>3. ASSUME NEW k \in 1 .. m, k - 1 \in T PROVE k \in T
    <2>1. CASE k = 1
      <3>1. k - 1 = 0 /\ k \in 0 .. m
        BY <1>0, <2>1
      <3> QED BY <1>1, <3>1
    <2>2. CASE k # 1
      BY <1>0, <1>1, <1>3, <2>2
    <2> QED BY <2>1, <2>2
  <1> HIDE DEF T
  <1>4. m \in T
    BY <1>0, <1>2, <1>3, UpTo
  <1> QED BY <1>0, <1>1, <1>4 DEF T

LEMMA ChainAlone ==
  ASSUME NEW t \in Tweet, Near({t}) \subseteq {t}
  PROVE  Chain(t) = {t}
  <1> DEFINE m == Cardinality(Tweet)
  <1>0. m \in Nat
    BY Counted
  <1>1. PICK c : /\ Chain(t) = c[m] /\ c[0] = {t} /\ \A k \in 1 .. m : c[k] = c[k - 1] \cup Near(c[k - 1])
    BY ChainIs
  <1> HIDE DEF m
  <1> DEFINE T == {k \in 0 .. m : c[k] = {t}}
  <1>2. 0 \in T
    BY <1>0, <1>1
  <1>3. \A k \in 1 .. m : k - 1 \in T => k \in T
    <2> SUFFICES ASSUME NEW k \in 1 .. m, k - 1 \in T PROVE k \in T
      OBVIOUS
    <2>1. c[k - 1] = {t} /\ k \in 0 .. m
      BY <1>0
    <2>2. c[k] = c[k - 1] \cup Near(c[k - 1])
      BY <1>1
    <2>3. c[k] = {t} \cup Near({t})
      BY <2>1, <2>2, Zenon
    <2> QED BY <2>1, <2>3
  <1> HIDE DEF T
  <1>4. m \in T
    BY <1>0, <1>2, <1>3, UpTo
  <1> QED BY <1>1, <1>4 DEF T

-----------------------------------------------------------------------------
(* What the searches leave found                                           *)

\* What was found was searched for, what was seen was asked for; where nothing failed,
\* a search leaves its list found, or its conversation asked for, and a detail all of
\* the conversation that X serves seen.
SearchOK(y, skip) ==
  /\ y.partial \in BOOLEAN
  /\ \A t \in y.found : Pair(t) \in y.searched
  /\ \A t \in y.seen : Conv(t) \in y.detail
  /\ ~y.partial => /\ \A p \in y.searched \ skip : Listed(p) \subseteq y.found /\ (Listed(p) = {} => p[2] \in y.detail)
                   /\ \A c \in y.detail : Tree(c) \cap Served \subseteq y.seen

\* Looked for where it is.
Sought(y, t) == Pair(t) \in y.searched \/ Conv(t) \in y.detail

\* Every archived tweet with answers was looked for.
Settled(y) == \A t \in y.archived : y.known[t] \in {"stub", "full"} /\ Answered(t) => Sought(y, t)

\* What the rounds archived was looked for, is alone, or has a probe next to it.
ThreadsSought(y) ==
  \A t \in y.core \cap Served : Sought(y, t) \/ Chain(t) = {t} \/ Chain(t) \cap (y.probes \ y.core) # {}

ThreadsOK(y, skip) ==
  /\ SearchOK(y, skip)
  /\ y.phase = "adopt" /\ ~y.progress => Settled(y)
  /\ y.phase \in {"climb", "done"} => y.core \subseteq y.archived /\ (~y.progress => ThreadsSought(y))

\* What they say nothing but this of.
SameSearches(y, z) ==
  /\ z.searched = y.searched /\ z.detail = y.detail /\ z.found = y.found /\ z.seen = y.seen
  /\ z.partial = y.partial

LEMMA SameSearchesIs ==
  ASSUME NEW y, NEW z, NEW skip, SameSearches(y, z), SearchOK(y, skip)
  PROVE  SearchOK(z, skip) /\ \A t : Sought(z, t) <=> Sought(y, t)
  BY DEF SameSearches, SearchOK, Sought

LEMMA ResolveSought ==
  ASSUME NEW skip, WorldRight, RoundsOK(x), ThreadsOK(x, skip), Resolve
  PROVE  ThreadsOK(x', skip)
  <1>1. SameSearches(x, x') /\ x'.phase = "discover"
    <2>1. CASE ToFetch(x) = {}
      <3>1. x' = [x EXCEPT !.phase = "discover", !.progress = FALSE]
        BY <2>1 DEF Resolve
      <3> QED BY <3>1 DEF SameSearches, RoundsOK, Right, Fresh
    <2>2. CASE ToFetch(x) # {}
      <3> DEFINE y == Resolved(x)
      <3>1. x' = [y EXCEPT !.phase = "discover", !.progress = TRUE]
        BY <2>2 DEF Resolve
      <3>2. /\ y.searched = x.searched /\ y.detail = x.detail /\ y.found = x.found /\ y.seen = x.seen
            /\ y.partial = x.partial /\ DOMAIN y = DOMAIN Fresh
        BY ResolvedRight DEF RoundsOK
      <3> HIDE DEF y
      <3> QED BY <3>1, <3>2 DEF SameSearches, Fresh
    <2> QED BY <2>1, <2>2
  <1> QED BY <1>1, SameSearchesIs DEF ThreadsOK

LEMMA DiscoverSought ==
  ASSUME NEW skip, WorldRight, RoundsOK(x), ThreadsOK(x, skip), Discover
  PROVE  ThreadsOK(x', skip)
  <1>0. PICK walked \in SUBSET PendingPairs(x) :
          \E answered \in SUBSET Asked(x, walked) :
            LET y == Discovered(x, walked, Asked(x, walked), answered) IN
            x' = EndOfRound([y EXCEPT !.partial = @ \/ walked # PendingPairs(x) \/ answered # Asked(x, walked)],
                            \/ x.progress \/ PendingPairs(x) # {} \/ Asked(x, walked) # {}
                            \/ y.archived # x.archived \/ y.probes # x.probes)
    BY DEF Discover, Asked
  <1>1. PICK answered \in SUBSET Asked(x, walked) :
          LET y == Discovered(x, walked, Asked(x, walked), answered) IN
          x' = EndOfRound([y EXCEPT !.partial = @ \/ walked # PendingPairs(x) \/ answered # Asked(x, walked)],
                          \/ x.progress \/ PendingPairs(x) # {} \/ Asked(x, walked) # {}
                          \/ y.archived # x.archived \/ y.probes # x.probes)
    BY <1>0
  <1> DEFINE convs == Asked(x, walked)
             y == Discovered(x, walked, convs, answered)
             all == Ingest(Ingest(x.known, FoundBy(walked)), ShownBy(answered))
             part == y.partial \/ walked # PendingPairs(x) \/ answered # convs
             more == \/ x.progress \/ PendingPairs(x) # {} \/ convs # {}
                     \/ y.archived # x.archived \/ y.probes # x.probes
  <1>2. /\ Right(x) /\ y = Discovered(x, walked, convs, answered)
        /\ all = Ingest(Ingest(x.known, FoundBy(walked)), ShownBy(answered))
    BY DEF RoundsOK
  <1>3. x' = EndOfRound([y EXCEPT !.partial = part], more)
    <2>1. DOMAIN y = DOMAIN Fresh
      <3> HIDE DEF y, all, convs
      <3> QED BY <1>2, DiscoveredIs
    <2> QED BY <1>1, <2>1 DEF Fresh
  <1>4. PendingPairs(x) = {} /\ convs = {} /\ y.archived = x.archived => y.known = x.known
    BY <1>2, DiscoveredRight
  <1>5. /\ part \in BOOLEAN /\ (~part => ~y.partial /\ walked = PendingPairs(x) /\ answered = convs)
        /\ more \in BOOLEAN /\ (~more => PendingPairs(x) = {} /\ convs = {} /\ y.archived = x.archived)
    OBVIOUS
  <1>6. convs = ProtectedConvs(x) \cup Missed(x, walked) /\ answered \subseteq convs
    BY DEF Asked
  <1> HIDE DEF y, all, convs
  <1>7. /\ DOMAIN y = DOMAIN Fresh /\ y.searched = x.searched \cup PendingPairs(x) /\ y.detail = x.detail \cup convs
        /\ y.found = x.found \cup FoundBy(walked) /\ y.seen = x.seen \cup ShownBy(answered) /\ y.partial = x.partial
    BY <1>2, DiscoveredIs
  <1> HIDE DEF part, more
  <1>8. /\ x'.searched = x.searched \cup PendingPairs(x) /\ x'.detail = x.detail \cup convs
        /\ x'.found = x.found \cup FoundBy(walked) /\ x'.seen = x.seen \cup ShownBy(answered)
        /\ x'.partial = part /\ x'.progress = more /\ x'.archived = y.archived /\ x'.known = y.known
        /\ x'.phase = (IF more /\ y.round + 1 < MaxRounds THEN "resolve" ELSE "adopt")
    BY <1>3, <1>7 DEF EndOfRound, Fresh
  <1>9. SearchOK(x', skip)
    <2>1. \A t \in x'.found : Pair(t) \in x'.searched
      BY <1>8 DEF FoundBy, Listed, ThreadsOK, SearchOK
    <2>2. \A t \in x'.seen : Conv(t) \in x'.detail
      BY <1>6, <1>8 DEF ShownBy, Tree, ThreadsOK, SearchOK
    <2>3. ASSUME ~part
          PROVE  /\ \A p \in x'.searched \ skip : Listed(p) \subseteq x'.found /\ (Listed(p) = {} => p[2] \in x'.detail)
                 /\ \A c \in x'.detail : Tree(c) \cap Served \subseteq x'.seen
      <3>1. ~x.partial /\ walked = PendingPairs(x) /\ answered = convs
        BY <1>5, <1>7, <2>3
      <3>2. \A p \in x.searched \ skip : Listed(p) \subseteq x.found /\ (Listed(p) = {} => p[2] \in x.detail)
        BY <3>1 DEF ThreadsOK, SearchOK
      <3>3. \A c \in x.detail : Tree(c) \cap Served \subseteq x.seen
        BY <3>1 DEF ThreadsOK, SearchOK
      <3>4. ASSUME NEW p \in PendingPairs(x) PROVE Listed(p) \subseteq FoundBy(walked) /\ (Listed(p) = {} => p[2] \in x'.detail)
        <4>1. Listed(p) \subseteq FoundBy(walked)
          BY <3>1 DEF FoundBy
        <4>2. \E t \in x.archived : x.known[t] \in {"stub", "full"} /\ Pair(t) = p
          BY DEF PendingPairs, Threads
        <4>3. Listed(p) = {} => p[2] \in Missed(x, walked) \cup x.detail
          BY <3>1, <4>2 DEF Missed
        <4> QED BY <1>6, <1>8, <4>1, <4>3
      <3>5. \A c \in convs : Tree(c) \cap Served \subseteq ShownBy(answered)
        BY <3>1 DEF ShownBy
      <3> QED BY <1>8, <3>2, <3>3, <3>4, <3>5
    <2> QED BY <1>5, <1>8, <2>1, <2>2, <2>3 DEF SearchOK
  <1>10. ASSUME ~x'.progress PROVE Settled(x')
    <2>1. ~more
      BY <1>8, <1>10
    <2>2. PendingPairs(x) = {} /\ ProtectedConvs(x) = {} /\ x'.archived = x.archived /\ x'.known = x.known
      BY <1>4, <1>5, <1>6, <1>8, <2>1
    <2> SUFFICES ASSUME NEW t \in x.archived, x.known[t] \in {"stub", "full"}, Answered(t)
                 PROVE  Pair(t) \in x.searched \/ Conv(t) \in x.detail
      BY <1>8, <2>2 DEF Settled, Sought
    <2>3. t \in Threads(x)
      BY DEF Threads
    <2>4. CASE world.author[t] \in world.closed
      BY <2>2, <2>3, <2>4 DEF ProtectedConvs
    <2>5. CASE world.author[t] \notin world.closed
      BY <2>2, <2>3, <2>5 DEF PendingPairs
    <2> QED BY <2>4, <2>5
  <1>11. x'.phase \in {"resolve", "adopt"}
    BY <1>8
  <1> QED BY <1>9, <1>10, <1>11 DEF ThreadsOK

LEMMA AdoptSought ==
  ASSUME NEW skip, WorldRight, RoundsOK(x), ThreadsOK(x, skip), Adopt
  PROVE  ThreadsOK(x', skip)
  <1>1. /\ x.phase = "adopt" /\ Right(x) /\ (~x.progress => Quiet(x) /\ Settled(x)) /\ SearchOK(x, skip)
    BY DEF Adopt, RoundsOK, ThreadsOK
  <1>2. /\ SameSearches(x, x') /\ x'.core = x.archived /\ x'.probes = x.probes /\ x'.phase \in {"climb", "done"}
        /\ x.archived \subseteq x'.archived /\ x'.progress = x.progress
    <2> DEFINE loose == x.found \ x.archived
               bystanders == (x.seen \ x.archived) \ loose
    <2>1. x' = [x EXCEPT !.core = x.archived, !.loose = loose, !.bystanders = bystanders,
                         !.archived = @ \cup loose \cup bystanders, !.round = 0,
                         !.phase = IF loose \cup bystanders = {} THEN "done" ELSE "climb"]
      BY DEF Adopt
    <2> HIDE DEF loose, bystanders
    <2> QED BY <1>1, <2>1 DEF SameSearches, Right, Fresh
  <1>3. ASSUME ~x.progress, NEW t \in x.archived \cap Served
        PROVE  Sought(x, t) \/ Chain(t) = {t} \/ Chain(t) \cap (x.probes \ x.archived) # {}
    <2>1. t \in Tweet /\ x.known[t] = "full"
      BY <1>1, <1>3 DEF Right, Quiet, Served, Knowledge
    <2>2. CASE Answered(t)
      BY <1>1, <1>3, <2>1, <2>2 DEF Settled
    <2>3. ASSUME ~Answered(t), NEW p \in Near({t}), p # t
          PROVE  Sought(x, t) \/ Chain(t) \cap (x.probes \ x.archived) # {}
      <3>1. p \in Tweet /\ p \in Served /\ Link(t, p)
        BY <2>1, <2>3 DEF Near, Served, Link, Answered
      <3>2. p \in RefsOf(x, t)
        BY <2>1, <3>1, ExpanderAssumption DEF RefsOf, Link
      <3>3. x.known[p] = "full"
        BY <1>1, <1>3, <3>1, <3>2 DEF Quiet, Done, Right, Served
      <3>4. Conv(t) = Conv(p) /\ Pair(t) = Pair(p)
        BY <2>1, <3>1, ConvOfParent DEF Link, Pair
      <3>5. Answered(p)
        BY <2>1, <3>1 DEF Answered, Link
      <3>6. CASE p \in x.archived
        BY <1>1, <1>3, <3>3, <3>4, <3>5, <3>6 DEF Settled, Sought
      <3>7. CASE p \in x.found \cup x.seen
        BY <1>1, <3>4, <3>7 DEF SearchOK, Sought
      <3>8. CASE p \in x.probes \ x.archived
        BY <2>1, <2>3, <3>8, ChainHasNear
      <3> QED BY <1>1, <3>1, <3>3, <3>6, <3>7, <3>8 DEF Right
    <2>4. CASE Near({t}) \subseteq {t}
      BY <2>1, <2>4, ChainAlone
    <2> QED BY <2>2, <2>3, <2>4
  <1>4. SearchOK(x', skip) /\ \A t : Sought(x', t) <=> Sought(x, t)
    BY <1>1, <1>2, SameSearchesIs
  <1>5. ~x'.progress => ThreadsSought(x')
    BY <1>2, <1>3, <1>4 DEF ThreadsSought
  <1> QED BY <1>2, <1>4, <1>5 DEF ThreadsOK

LEMMA ClimbSought ==
  ASSUME NEW skip, WorldRight, RoundsOK(x), ThreadsOK(x, skip), Climb
  PROVE  ThreadsOK(x', skip)
  <1> DEFINE y == [x EXCEPT !.archived = @ \cup Above(x), !.round = @ + 1]
             z == Resolved(y)
  <1>1. /\ x.phase = "climb" /\ Right(x) /\ SearchOK(x, skip) /\ (~x.progress => ThreadsSought(x)) /\ x.core \subseteq x.archived
        /\ x.loose \cup x.bystanders \subseteq x.archived
    BY DEF Climb, RoundsOK, ThreadsOK
  <1>2. /\ ToFetch(y) = {} => x' = [y EXCEPT !.phase = "done"]
        /\ ToFetch(y) # {} => x' = [z EXCEPT !.phase = IF y.round < MaxRounds THEN "climb" ELSE "done"]
    BY DEF Climb
  <1>3. /\ DOMAIN y = DOMAIN Fresh /\ y.known = x.known /\ y.archived = x.archived \cup Above(x)
        /\ y.probes = x.probes /\ y.found = x.found /\ y.seen = x.seen /\ y.tombstones = x.tombstones
        /\ y.unresolvable = x.unresolvable /\ y.searched = x.searched /\ y.detail = x.detail
        /\ y.core = x.core /\ y.partial = x.partial /\ y.progress = x.progress
    BY <1>1 DEF Right, Fresh
  <1> HIDE DEF y
  <1>4. Right(y)
    BY <1>1, <1>3, AboveIs DEF Right, Known
  <1>5. /\ y.archived \subseteq z.archived
        /\ z.searched = y.searched /\ z.detail = y.detail /\ z.probes = y.probes /\ z.found = y.found /\ z.seen = y.seen
        /\ z.core = y.core /\ z.partial = y.partial /\ z.progress = y.progress /\ DOMAIN z = DOMAIN Fresh
    BY <1>4, ResolvedRight
  <1> HIDE DEF z
  <1>6. /\ SameSearches(x, x') /\ x'.core = x.core /\ x'.probes = x.probes /\ x'.phase \in {"climb", "done"}
        /\ x.archived \subseteq x'.archived /\ x'.progress = x.progress
    <2>1. CASE ToFetch(y) = {}
      BY <1>2, <1>3, <2>1 DEF SameSearches, Fresh
    <2>2. CASE ToFetch(y) # {}
      BY <1>2, <1>3, <1>5, <2>2 DEF SameSearches, Fresh
    <2> QED BY <2>1, <2>2
  <1>7. SearchOK(x', skip) /\ \A t : Sought(x', t) <=> Sought(x, t)
    BY <1>1, <1>6, SameSearchesIs
  <1>8. ~x'.progress => ThreadsSought(x')
    BY <1>1, <1>6, <1>7 DEF ThreadsSought
  <1> QED BY <1>1, <1>6, <1>7, <1>8 DEF ThreadsOK

LEMMA RaiseSought ==
  ASSUME NEW skip, Raise
  PROVE  ThreadsOK(x', skip)
  <1>1. x' = [Fresh EXCEPT !.phase = "failed"]
    BY DEF Raise
  <1>2. /\ x'.phase = "failed" /\ x'.found = {} /\ x'.seen = {} /\ x'.searched = {} /\ x'.detail = {} /\ x'.partial = FALSE
    BY <1>1 DEF Fresh
  <1> QED BY <1>2 DEF ThreadsOK, SearchOK

LEMMA SeededSought ==
  ASSUME NEW seeds \in SUBSET Tweet, NEW kind \in {"full", "bare"}, NEW skip
  PROVE  ThreadsOK(Seeded(seeds, kind, skip), skip)
  <1> DEFINE y == Seeded(seeds, kind, skip)
  <1>1. /\ y.phase = "resolve" /\ y.found = {} /\ y.seen = {} /\ y.searched = skip /\ y.detail = {} /\ y.partial = FALSE
    BY DEF Seeded, Fresh
  <1> HIDE DEF y
  <1>2. ThreadsOK(y, skip)
    BY <1>1 DEF ThreadsOK, SearchOK
  <1> QED BY <1>2 DEF y

LEMMA WorldStays ==
  ASSUME UNCHANGED world
  PROVE  /\ Served' = Served /\ \A t : Answered(t)' = Answered(t) /\ Chain(t)' = Chain(t)
         /\ \A t \in Tweet : Pair(t)' = Pair(t) /\ Conv(t)' = Conv(t)
         /\ \A p : Listed(p)' = Listed(p) /\ \A c : Tree(c)' = Tree(c)
  <1>1. Served' = Served /\ \A t : Answered(t)' = Answered(t)
    BY DEF Served, Answered
  <1>2. \A t \in Tweet : Pair(t)' = Pair(t) /\ Conv(t)' = Conv(t)
    BY PairsStay
  <1>3. \A p : Listed(p)' = Listed(p)
    BY <1>1, <1>2 DEF Listed, Served
  <1>4. \A c : Tree(c)' = Tree(c)
    BY <1>2 DEF Tree
  <1>5. \A t : Chain(t)' = Chain(t)
    BY <1>1 DEF Chain
  <1> QED BY <1>1, <1>2, <1>3, <1>4, <1>5

LEMMA ThreadsStay ==
  ASSUME UNCHANGED world, RoundsOK(x'), ThreadsOK(x', {})
  PROVE  ThreadsOK(x, {})'
  <1>0. /\ x'.found \subseteq Tweet /\ x'.seen \subseteq Tweet /\ x'.archived \subseteq Tweet
    BY DEF RoundsOK, Right
  <1>1. SearchOK(x, {})'
    BY <1>0, WorldStays DEF ThreadsOK, SearchOK
  <1>2. \A t \in Tweet : Sought(x, t)' = Sought(x', t)
    BY WorldStays DEF Sought
  <1>3. x'.phase = "adopt" /\ ~x'.progress => Settled(x)'
    BY <1>0, <1>2, WorldStays DEF ThreadsOK, Settled
  <1>4. x'.phase \in {"climb", "done"} /\ ~x'.progress => ThreadsSought(x)'
    BY <1>2, WorldStays DEF ThreadsOK, ThreadsSought, Served
  <1> QED BY <1>1, <1>3, <1>4 DEF ThreadsOK

ThreadInv == ExpandInv /\ ThreadsOK(x, {})

LEMMA ExpandKeepsThreads ==
  ASSUME ThreadInv, [Expand \/ Ended]_<<world, x>>
  PROVE  ThreadInv'
  <1>1. UNCHANGED world /\ RoundsOK(x') /\ ExpandInv'
    BY ExpandKeepsInv, ExpandIdles DEF ThreadInv
  <1>2. ThreadsOK(x', {})
    <2>1. CASE UNCHANGED x
      BY <2>1 DEF ThreadInv
    <2>2. CASE Expand
      BY <2>2, ResolveSought, DiscoverSought, AdoptSought, ClimbSought, RaiseSought DEF Expand, ExpandInv, ThreadInv
    <2> QED BY <2>1, <2>2 DEF Ended
  <1> QED BY <1>1, <1>2, ThreadsStay DEF ThreadInv

LEMMA ThreadsAreThere ==
  ASSUME ThreadInv, ~CutShort
  PROVE  ThreadsAreWhole
  <1> SUFFICES ASSUME x.phase = "done", ~x.partial, NEW t \in x.core \cap Served,
                      Listed(Pair(t)) = {} \/ Chain(t) \cap world.unlisted = {}, Chain(t) \cap (x.probes \ x.core) = {}
               PROVE  Chain(t) \subseteq x.archived
    BY DEF ThreadsAreWhole
  <1>1. /\ WorldRight /\ x.found \cup x.seen \subseteq x.archived /\ x.core \subseteq x.archived
        /\ SearchOK(x, {}) /\ ThreadsSought(x)
    BY DEF ThreadInv, ExpandInv, RoundsOK, ThreadsOK, CutShort
  <1>2. Chain(t) \subseteq Kin(t) /\ \A u \in Kin(t) : world.author[u] = world.author[t] /\ Conv(u) = Conv(t)
    BY <1>1, ChainIsKin DEF Kin, Pair
  <1>3. Sought(x, t) \/ Chain(t) = {t}
    BY <1>1 DEF ThreadsSought
  <1>4. CASE Chain(t) = {t}
    BY <1>1, <1>4
  <1>5. CASE Conv(t) \in x.detail
    <2>1. Kin(t) \subseteq Tree(Conv(t)) \cap Served
      BY <1>2 DEF Kin, Tree, Served
    <2> QED BY <1>1, <1>2, <1>5, <2>1 DEF SearchOK
  <1>6. CASE Pair(t) \in x.searched /\ Listed(Pair(t)) = {}
    <2>1. Pair(t)[2] \in x.detail
      BY <1>1, <1>6 DEF SearchOK
    <2> QED BY <1>5, <2>1 DEF Pair
  <1>7. CASE Pair(t) \in x.searched /\ Listed(Pair(t)) # {}
    <2>1. PICK u \in Listed(Pair(t)) : TRUE
      BY <1>7
    <2>2. world.author[t] \notin world.closed
      BY <2>1 DEF Listed, Pair
    <2>3. Chain(t) \subseteq Listed(Pair(t))
      BY <1>2, <1>7, <2>2 DEF Listed, Kin
    <2> QED BY <1>1, <1>7, <2>3 DEF SearchOK
  <1> QED BY <1>3, <1>4, <1>5, <1>6, <1>7 DEF Sought

\* Likewise, when an expansion that was not cut short, and of which no search failed, is
\* done, the whole thread of every tweet its rounds archived is archived, save what X's
\* index has in part, and what a probe left open.
THEOREM ThreadsKept ==
  ASSUME WorldsAssumption
  PROVE  /\ ExpandSpec => [](CutShort \/ ThreadsAreWhole)
         /\ Enough => (ExpandSpec => []ThreadsAreWhole)
  <1>1. ExpandInit => ThreadInv
    BY ExpandInitIsInv, SeededSought DEF ExpandInit, ThreadInv
  <1>2. ThreadInv /\ [Expand \/ Ended]_<<world, x>> => ThreadInv'
    BY ExpandKeepsThreads
  <1>3. ThreadInv /\ ~CutShort => ThreadsAreWhole
    BY ThreadsAreThere
  <1>4. ExpandSpec => [](CutShort \/ ThreadsAreWhole)
    BY <1>1, <1>2, <1>3, PTL DEF ExpandSpec
  <1>5. ASSUME Enough PROVE ExpandSpec => []ThreadsAreWhole
    <2>1. ExpandSpec => []~CutShort
      BY <1>5, RoundsEndThemselves, PTL
    <2> QED BY <1>4, <2>1, PTL
  <1> QED BY <1>4, <1>5

-----------------------------------------------------------------------------
(* The seeds of an expansion                                               *)

\* A pair that was walked has its list found, whatever failed beside it.
WalkedOK(y) ==
  \A p \in y.walked : p \in Pairs /\ p[1] \notin world.closed /\ Listed(p) \subseteq y.found

\* A seed was looked for, or is alone.
SeedsSought(y) == \A t \in y.seeds \cap Served : Sought(y, t) \/ Chain(t) = {t}

\* Seeds that came with their payload: the first lookup brings what they answer, and
\* no probe comes before it.
SeedsOK(y) ==
  /\ y.phase \notin {"idle", "failed"} => y.seeds \subseteq y.archived /\ \A t \in y.seeds : y.known[t] = "full"
  /\ y.phase = "resolve" /\ y.round = 0 => Done(y) \subseteq y.archived
  /\ y.phase \in {"discover", "adopt"} \/ (y.phase = "resolve" /\ y.round # 0)
       => \A t \in y.seeds : world.parent[t] \in Served => world.parent[t] \in y.archived
  /\ y.phase \in {"climb", "done"} /\ ~y.progress => SeedsSought(y)

LEMMA ResolvedSeeds ==
  ASSUME NEW y, Right(y)
  PROVE  LET z == Resolved(y) IN
         /\ z.seeds = y.seeds /\ z.walked = y.walked /\ z.round = y.round /\ z.archived = y.archived \cup PendingRefs(y)
         /\ \A t \in Tweet : y.known[t] = "full" => z.known[t] = "full"
  <1> DEFINE fetched == ToFetch(y) \cap Served
             z == Resolved(y)
  <1>1. /\ z.seeds = y.seeds /\ z.walked = y.walked /\ z.round = y.round /\ z.archived = y.archived \cup PendingRefs(y)
        /\ z.known = Ingest(y.known, fetched)
    BY DEF Resolved, Right, Fresh
  <1> HIDE DEF fetched
  <1>2. \A t \in Tweet : y.known[t] = "full" => Ingest(y.known, fetched)[t] = "full"
    BY IngestIs DEF Right
  <1> QED BY <1>1, <1>2

LEMMA DiscoveredSeeds ==
  ASSUME NEW y, Right(y), NEW walked, NEW convs, NEW answered
  PROVE  Discovered(y, walked, convs, answered).seeds = y.seeds
  BY DEF Discovered, Thread, WithChains, Right, Fresh

LEMMA ResolveSeeds ==
  ASSUME WorldRight, RoundsOK(x), WalkedOK(x), Resolve
  PROVE  x'.seeds = x.seeds /\ WalkedOK(x') /\ (SeedsOK(x) => SeedsOK(x'))
  <1>1. x.phase = "resolve" /\ Right(x)
    BY DEF Resolve, RoundsOK
  <1> DEFINE Brought == /\ x.seeds \subseteq x.archived /\ x.seeds \subseteq Tweet
                        /\ \A t \in x.seeds : x.known[t] = "full"
                        /\ \A t \in x.seeds : world.parent[t] \in Served => world.parent[t] \in x.archived \cup PendingRefs(x)
  <1>2. ASSUME SeedsOK(x) PROVE Brought
    <2>1. x.seeds \subseteq x.archived /\ x.seeds \subseteq Tweet /\ \A t \in x.seeds : x.known[t] = "full"
      BY <1>1, <1>2 DEF SeedsOK, Right
    <2>2. ASSUME NEW t \in x.seeds, world.parent[t] \in Served
          PROVE  world.parent[t] \in x.archived \cup PendingRefs(x)
      <3>1. CASE x.round = 0
        <4>1. world.parent[t] \in RefsOf(x, t)
          BY <2>1, <2>2, ExpanderAssumption DEF RefsOf, Served
        <4>2. world.parent[t] \in Done(x) \/ world.parent[t] \in PendingRefs(x)
          BY <2>1, <4>1 DEF PendingRefs
        <4> QED BY <1>1, <1>2, <3>1, <4>2 DEF SeedsOK
      <3> QED BY <1>1, <1>2, <2>2, <3>1 DEF SeedsOK
    <2> QED BY <2>1, <2>2
  <1>3. CASE ToFetch(x) = {}
    <2>1. x' = [x EXCEPT !.phase = "discover", !.progress = FALSE]
      BY <1>3 DEF Resolve
    <2>2. /\ x'.phase = "discover" /\ x'.seeds = x.seeds /\ x'.archived = x.archived /\ x'.known = x.known
          /\ x'.walked = x.walked /\ x'.found = x.found
      BY <1>1, <2>1 DEF Right, Fresh
    <2>3. PendingRefs(x) = {}
      BY <1>3 DEF ToFetch
    <2>4. Brought => SeedsOK(x')
      BY <2>2, <2>3 DEF SeedsOK
    <2> QED BY <1>2, <2>2, <2>4 DEF WalkedOK
  <1>4. CASE ToFetch(x) # {}
    <2> DEFINE y == Resolved(x)
    <2>1. x' = [y EXCEPT !.phase = "discover", !.progress = TRUE]
      BY <1>4 DEF Resolve
    <2>2. DOMAIN y = DOMAIN Fresh /\ y.found = x.found
      BY <1>1, ResolvedRight
    <2>3. /\ y.seeds = x.seeds /\ y.walked = x.walked /\ y.archived = x.archived \cup PendingRefs(x)
          /\ \A t \in Tweet : x.known[t] = "full" => y.known[t] = "full"
      BY <1>1, ResolvedSeeds
    <2> HIDE DEF y
    <2>4. /\ x'.phase = "discover" /\ x'.seeds = y.seeds /\ x'.archived = y.archived /\ x'.known = y.known
          /\ x'.walked = y.walked /\ x'.found = y.found
      BY <2>1, <2>2 DEF Fresh
    <2>5. Brought => SeedsOK(x')
      BY <2>3, <2>4 DEF SeedsOK
    <2> QED BY <1>2, <2>2, <2>3, <2>4, <2>5 DEF WalkedOK
  <1> QED BY <1>3, <1>4

LEMMA DiscoverSeeds ==
  ASSUME WorldRight, RoundsOK(x), WalkedOK(x), Discover
  PROVE  x'.seeds = x.seeds /\ WalkedOK(x') /\ (SeedsOK(x) => SeedsOK(x'))
  <1>0. x.phase = "discover" /\ Right(x) /\ x.round \in Nat
    BY DEF Discover, RoundsOK
  <1>a. PICK walked \in SUBSET PendingPairs(x) : \E answered, part, more :
          x' = EndOfRound([Discovered(x, walked, Asked(x, walked), answered) EXCEPT !.partial = part], more)
    BY DEF Discover, Asked
  <1>1. PICK answered, part, more :
          x' = EndOfRound([Discovered(x, walked, Asked(x, walked), answered) EXCEPT !.partial = part], more)
    BY <1>a
  <1> DEFINE convs == Asked(x, walked)
             y == Discovered(x, walked, convs, answered)
             all == Ingest(Ingest(x.known, FoundBy(walked)), ShownBy(answered))
  <1>2. y.seeds = x.seeds
    BY <1>0, DiscoveredSeeds
  <1>3. x' = EndOfRound([y EXCEPT !.partial = part], more)
    BY <1>1
  <1>4. y = Discovered(x, walked, convs, answered) /\ all = Ingest(Ingest(x.known, FoundBy(walked)), ShownBy(answered))
    OBVIOUS
  <1>5. \A t \in Tweet : x.known[t] = "full" => all[t] = "full"
    <2> DEFINE found == FoundBy(walked)
               told == ShownBy(answered)
               mid == Ingest(x.known, found)
    <2>1. all = Ingest(mid, told)
      OBVIOUS
    <2> HIDE DEF found, told, all
    <2>2. mid \in [Tweet -> Knowledge] /\ \A t \in Tweet : x.known[t] = "full" => mid[t] = "full"
      BY <1>0, IngestIs DEF Right
    <2> HIDE DEF mid
    <2>3. \A t \in Tweet : mid[t] = "full" => Ingest(mid, told)[t] = "full"
      BY <2>2, IngestIs
    <2> QED BY <2>1, <2>2, <2>3
  <1> HIDE DEF y, all, convs
  <1>6. /\ DOMAIN y = DOMAIN Fresh /\ y.walked = x.walked \cup walked /\ y.known = all /\ x.archived \subseteq y.archived
        /\ y.found = x.found \cup FoundBy(walked) /\ y.round = x.round
    BY <1>0, <1>4, DiscoveredIs
  <1>7. /\ x'.walked = x.walked \cup walked /\ x'.found = x.found \cup FoundBy(walked) /\ x'.known = all
        /\ x'.archived = y.archived /\ x'.seeds = x.seeds /\ x'.round = x.round + 1 /\ x'.phase \in {"resolve", "adopt"}
    BY <1>2, <1>3, <1>6 DEF EndOfRound, Fresh
  <1>8. x'.round # 0
    BY <1>0, <1>7
  <1>9. ASSUME SeedsOK(x) PROVE SeedsOK(x')
    <2>1. /\ x.seeds \subseteq x.archived /\ x.seeds \subseteq Tweet
          /\ \A t \in x.seeds : x.known[t] = "full" /\ (world.parent[t] \in Served => world.parent[t] \in x.archived)
      BY <1>0, <1>9 DEF SeedsOK, Right
    <2> QED BY <2>1, <1>5, <1>6, <1>7, <1>8 DEF SeedsOK
  <1>10. ASSUME NEW p \in walked PROVE p \in Pairs /\ p[1] \notin world.closed /\ Listed(p) \subseteq FoundBy(walked)
    <2>1. PICK t \in x.archived : p = Pair(t) /\ world.author[t] \notin world.closed
      BY DEF PendingPairs, Threads
    <2>2. t \in Tweet /\ p[1] = world.author[t]
      BY <1>0, <2>1 DEF Right, Pair
    <2> QED BY <2>1, <2>2 DEF Pairs, FoundBy
  <1>11. WalkedOK(x')
    BY <1>7, <1>10 DEF WalkedOK
  <1> QED BY <1>7, <1>9, <1>11

LEMMA AdoptSeeds ==
  ASSUME NEW skip, WorldRight, RoundsOK(x), ThreadsOK(x, skip), WalkedOK(x), Adopt
  PROVE  x'.seeds = x.seeds /\ WalkedOK(x') /\ (SeedsOK(x) => SeedsOK(x'))
  <1>1. x.phase = "adopt" /\ Right(x) /\ (~x.progress => Quiet(x) /\ Settled(x))
    BY DEF Adopt, RoundsOK, ThreadsOK
  <1>2. /\ x'.searched = x.searched /\ x'.detail = x.detail /\ x'.found = x.found /\ x'.walked = x.walked
        /\ x'.seeds = x.seeds /\ x'.known = x.known /\ x.archived \subseteq x'.archived /\ x'.progress = x.progress
        /\ x'.phase \in {"climb", "done"}
    <2> DEFINE loose == x.found \ x.archived
               bystanders == (x.seen \ x.archived) \ loose
    <2>1. x' = [x EXCEPT !.core = x.archived, !.loose = loose, !.bystanders = bystanders,
                         !.archived = @ \cup loose \cup bystanders, !.round = 0,
                         !.phase = IF loose \cup bystanders = {} THEN "done" ELSE "climb"]
      BY DEF Adopt
    <2> HIDE DEF loose, bystanders
    <2> QED BY <1>1, <2>1 DEF Right, Fresh
  <1>3. ASSUME SeedsOK(x) PROVE SeedsOK(x')
    <2>1. /\ x.seeds \subseteq x.archived /\ x.seeds \subseteq Tweet
          /\ \A t \in x.seeds : x.known[t] = "full" /\ (world.parent[t] \in Served => world.parent[t] \in x.archived)
      BY <1>1, <1>3 DEF SeedsOK, Right
    <2>2. ASSUME ~x.progress, NEW t \in x.seeds \cap Served
          PROVE  Sought(x, t) \/ Chain(t) = {t}
      <3>1. t \in Tweet /\ x.known[t] = "full" /\ t \in x.archived
        BY <2>1
      <3>2. CASE Answered(t)
        BY <1>1, <2>2, <3>1, <3>2 DEF Settled
      <3>3. ASSUME ~Answered(t), NEW p \in Near({t}), p # t
            PROVE  Sought(x, t)
        <4>1. p \in Tweet /\ p \in Served /\ Link(t, p)
          BY <3>1, <3>3 DEF Near, Served, Link, Answered
        <4>2. p \in x.archived
          BY <2>1, <4>1 DEF Link
        <4>3. x.known[p] \in {"stub", "full"}
          BY <1>1, <2>2, <4>1, <4>2 DEF Quiet, Right, Served, Knowledge
        <4>4. Conv(t) = Conv(p) /\ Pair(t) = Pair(p)
          BY <3>1, <4>1, ConvOfParent DEF Link, Pair
        <4>5. Answered(p)
          BY <3>1, <4>1 DEF Answered, Link
        <4> QED BY <1>1, <2>2, <4>2, <4>3, <4>4, <4>5 DEF Settled, Sought
      <3>4. CASE Near({t}) \subseteq {t}
        BY <3>1, <3>4, ChainAlone
      <3> QED BY <3>2, <3>3, <3>4
    <2>3. ~x'.progress => SeedsSought(x')
      BY <1>2, <2>2 DEF SeedsSought, Sought
    <2> QED BY <1>2, <2>1, <2>3 DEF SeedsOK
  <1> QED BY <1>2, <1>3 DEF WalkedOK

LEMMA ClimbSeeds ==
  ASSUME WorldRight, RoundsOK(x), WalkedOK(x), Climb
  PROVE  x'.seeds = x.seeds /\ WalkedOK(x') /\ (SeedsOK(x) => SeedsOK(x'))
  <1> DEFINE y == [x EXCEPT !.archived = @ \cup Above(x), !.round = @ + 1]
             z == Resolved(y)
  <1>1. x.phase = "climb" /\ Right(x) /\ x.loose \cup x.bystanders \subseteq x.archived
    BY DEF Climb, RoundsOK
  <1>2. /\ ToFetch(y) = {} => x' = [y EXCEPT !.phase = "done"]
        /\ ToFetch(y) # {} => x' = [z EXCEPT !.phase = IF y.round < MaxRounds THEN "climb" ELSE "done"]
    BY DEF Climb
  <1>3. /\ DOMAIN y = DOMAIN Fresh /\ y.known = x.known /\ y.archived = x.archived \cup Above(x) /\ y.seeds = x.seeds
        /\ y.probes = x.probes /\ y.found = x.found /\ y.seen = x.seen /\ y.tombstones = x.tombstones
        /\ y.unresolvable = x.unresolvable /\ y.searched = x.searched /\ y.walked = x.walked /\ y.detail = x.detail
        /\ y.progress = x.progress
    BY <1>1 DEF Right, Fresh
  <1> HIDE DEF y
  <1>4. Right(y)
    BY <1>1, <1>3, AboveIs DEF Right, Known
  <1>5. /\ z.searched = y.searched /\ z.detail = y.detail /\ z.found = y.found /\ z.progress = y.progress
        /\ DOMAIN z = DOMAIN Fresh
    BY <1>4, ResolvedRight
  <1>6. /\ z.seeds = y.seeds /\ z.walked = y.walked /\ z.archived = y.archived \cup PendingRefs(y)
        /\ \A t \in Tweet : y.known[t] = "full" => z.known[t] = "full"
    BY <1>4, ResolvedSeeds
  <1> HIDE DEF z
  <1>7. /\ x'.searched = x.searched /\ x'.detail = x.detail /\ x'.found = x.found /\ x'.walked = x.walked
        /\ x'.seeds = x.seeds /\ x.archived \subseteq x'.archived /\ x'.progress = x.progress
        /\ x'.phase \in {"climb", "done"} /\ \A t \in Tweet : x.known[t] = "full" => x'.known[t] = "full"
    <2>1. CASE ToFetch(y) = {}
      BY <1>2, <1>3, <2>1 DEF Fresh
    <2>2. CASE ToFetch(y) # {}
      BY <1>2, <1>3, <1>5, <1>6, <2>2 DEF Fresh
    <2> QED BY <2>1, <2>2
  <1>8. ASSUME SeedsOK(x) PROVE SeedsOK(x')
    <2>1. /\ x.seeds \subseteq x.archived /\ x.seeds \subseteq Tweet /\ \A t \in x.seeds : x.known[t] = "full"
          /\ (~x.progress => SeedsSought(x))
      BY <1>1, <1>8 DEF SeedsOK, Right
    <2>2. ~x'.progress => SeedsSought(x')
      BY <1>7, <2>1 DEF SeedsSought, Sought
    <2> QED BY <1>7, <2>1, <2>2 DEF SeedsOK
  <1> QED BY <1>7, <1>8 DEF WalkedOK

LEMMA RaiseSeeds ==
  ASSUME Raise
  PROVE  SeedsOK(x') /\ WalkedOK(x')
  <1>1. x'.phase = "failed" /\ x'.walked = {}
    BY DEF Raise, Fresh
  <1> QED BY <1>1 DEF SeedsOK, WalkedOK

LEMMA SeededFull ==
  ASSUME NEW seeds \in SUBSET Tweet, NEW skip, NEW u \in seeds
  PROVE  Seeded(seeds, "full", skip).known[u] = "full"
  <1> DEFINE none == [t \in Tweet |-> "none"]
  <1>1. none \in [Tweet -> Knowledge]
    BY DEF Knowledge
  <1>2. Seeded(seeds, "full", skip).known = Ingest(none, seeds)
    BY DEF Seeded, Fresh
  <1> HIDE DEF none
  <1> QED BY <1>1, <1>2, IngestIs

LEMMA SeededSeeds ==
  ASSUME NEW seeds \in SUBSET Tweet, NEW kind \in {"full", "bare"}, NEW skip \in SUBSET Pairs
  PROVE  WalkedOK(Seeded(seeds, kind, skip)) /\ (kind = "full" => SeedsOK(Seeded(seeds, kind, skip)))
  <1> DEFINE y == Seeded(seeds, kind, skip)
  <1>1. /\ y.phase = "resolve" /\ y.round = 0 /\ y.seeds = seeds /\ y.archived = seeds /\ y.walked = {}
        /\ y.tombstones = {} /\ y.unresolvable = {}
    BY DEF Seeded, Fresh
  <1>2. \A u \in Tweet : y.known[u] = "full" => u \in seeds
    BY SeededKnown
  <1>3. kind = "full" => \A u \in seeds : y.known[u] = "full"
    <2> SUFFICES ASSUME kind = "full", NEW u \in seeds PROVE y.known[u] = "full"
      OBVIOUS
    <2>1. y = Seeded(seeds, "full", skip)
      OBVIOUS
    <2> QED BY <2>1, SeededFull
  <1> HIDE DEF y
  <1>4. Done(y) \subseteq y.archived
    BY <1>1, <1>2 DEF Done
  <1>5. WalkedOK(y)
    BY <1>1 DEF WalkedOK
  <1>6. kind = "full" => SeedsOK(y)
    BY <1>1, <1>3, <1>4 DEF SeedsOK
  <1> QED BY <1>5, <1>6 DEF y

-----------------------------------------------------------------------------
(* Expansions that skip what is recorded as searched                       *)

\* What an expansion holds that takes the conversations of skip for searched.
ExpansionOK(y, skip) == RoundsOK(y) /\ (Enough => RoundsFew(y)) /\ ThreadsOK(y, skip) /\ WalkedOK(y)

LEMMA FreshIs == x = Fresh => ExpansionOK(x, searched)
  <1> SUFFICES ASSUME x = Fresh PROVE ExpansionOK(x, searched)
    OBVIOUS
  <1>1. RoundsOK(x) /\ RoundsFew(x)
    BY DEF RoundsOK, RoundsFew, Right, Fresh, Phase, Knowledge
  <1>2. /\ x.phase = "idle" /\ x.found = {} /\ x.seen = {} /\ x.searched = {} /\ x.detail = {} /\ x.partial = FALSE
        /\ x.walked = {}
    BY DEF Fresh
  <1> QED BY <1>1, <1>2 DEF ExpansionOK, ThreadsOK, SearchOK, WalkedOK

\* In the next state too.
LEMMA FreshOK == (x = Fresh => ExpansionOK(x, searched))'
  BY FreshIs, PTL

LEMMA ExpandKeeps ==
  ASSUME NEW skip, WorldRight, Tweet # {}, ExpansionOK(x, skip), Expand
  PROVE  /\ ExpansionOK(x', skip) /\ (SeedsOK(x) => SeedsOK(x'))
         /\ x'.seeds = x.seeds \/ x'.phase = "failed"
  <1>1. RoundsOK(x) /\ (Enough => RoundsFew(x)) /\ ThreadsOK(x, skip) /\ WalkedOK(x)
    BY DEF ExpansionOK
  <1>2. RoundsOK(x') /\ (Enough => RoundsFew(x'))
    BY <1>1, ResolveOK, DiscoverOK, AdoptOK, ClimbOK, RaiseOK DEF Expand
  <1>3. ThreadsOK(x', skip)
    BY <1>1, ResolveSought, DiscoverSought, AdoptSought, ClimbSought, RaiseSought DEF Expand
  <1>4. WalkedOK(x') /\ (SeedsOK(x) => SeedsOK(x')) /\ (x'.seeds = x.seeds \/ Raise)
    BY <1>1, ResolveSeeds, DiscoverSeeds, AdoptSeeds, ClimbSeeds, RaiseSeeds DEF Expand
  <1>5. Raise => x'.phase = "failed"
    BY DEF Raise, Fresh
  <1> QED BY <1>2, <1>3, <1>4, <1>5 DEF ExpansionOK

LEMMA SeedsBegin ==
  ASSUME NEW seeds \in SUBSET Tweet, NEW kind \in {"full", "bare"}, NEW skip \in SUBSET Pairs
  PROVE  /\ ExpansionOK(Seeded(seeds, kind, skip), skip)
         /\ kind = "full" => SeedsOK(Seeded(seeds, kind, skip))
  <1>1. RoundsOK(Seeded(seeds, kind, skip)) /\ RoundsFew(Seeded(seeds, kind, skip))
    BY SeededOK
  <1>2. ThreadsOK(Seeded(seeds, kind, skip), skip)
    BY SeededSought
  <1>3. WalkedOK(Seeded(seeds, kind, skip)) /\ (kind = "full" => SeedsOK(Seeded(seeds, kind, skip)))
    BY SeededSeeds
  <1> QED BY <1>1, <1>2, <1>3 DEF ExpansionOK

LEMMA ExpansionStays ==
  ASSUME UNCHANGED <<world, searched>>, ExpansionOK(x', searched)
  PROVE  ExpansionOK(x, searched)' /\ (SeedsOK(x') => SeedsOK(x)')
  <1>1. /\ RoundsOK(x') /\ (Enough => RoundsFew(x')) /\ ThreadsOK(x', searched) /\ WalkedOK(x') /\ Right(x')
        /\ x'.found \subseteq Tweet /\ x'.seen \subseteq Tweet /\ x'.archived \subseteq Tweet
    BY DEF ExpansionOK, RoundsOK, Right
  <1>2. RoundsOK(x)' /\ (Enough => RoundsFew(x)')
    BY <1>1, RoundsStay
  <1>3. SearchOK(x, searched)'
    BY <1>1, WorldStays DEF ThreadsOK, SearchOK
  <1>4. \A t \in Tweet : Sought(x, t)' = Sought(x', t)
    BY WorldStays DEF Sought
  <1>5. x'.phase = "adopt" /\ ~x'.progress => Settled(x)'
    BY <1>1, <1>4, WorldStays DEF ThreadsOK, Settled
  <1>6. x'.phase \in {"climb", "done"} /\ ~x'.progress => ThreadsSought(x)'
    BY <1>1, <1>4, WorldStays DEF ThreadsOK, ThreadsSought, Served
  <1>7. ThreadsOK(x, searched)'
    BY <1>1, <1>3, <1>5, <1>6 DEF ThreadsOK
  <1>8. WalkedOK(x)'
    BY <1>1, WorldStays, PairsStay DEF WalkedOK
  <1>9. SeedsSought(x') => SeedsSought(x)'
    BY <1>4, WorldStays DEF SeedsSought, Served
  <1>10. SeedsOK(x') => SeedsOK(x)'
    BY <1>9, WorldStays DEF SeedsOK, Done
  <1> QED BY <1>2, <1>7, <1>8, <1>10 DEF ExpansionOK

\* A pair recorded as searched had shown all of its list, save what X served again since.
SkipOK ==
  \A p \in searched : p \in Pairs /\ p[1] \notin world.closed /\ Listed(p) \ faults.returned \subseteq shown

\* A like that a search can find, of which nothing was withheld, is recorded with its thread.
Heals(t) == Findable(t) => Recorded(t)

\* What an expansion that no search failed brought home of a seed, beside what was shown before.
LEMMA SeedsAreHome ==
  ASSUME WorldRight, ExpansionOK(x, searched), SeedsOK(x), SkipOK, x.phase = "done", ~CutShort, ~x.partial,
         NEW t \in x.seeds \cap Served, Findable(t)
  PROVE  t \in x.archived /\ Chain(t) \subseteq x.archived \cup shown
  <1>1. /\ x.found \cup x.seen \subseteq x.archived /\ SearchOK(x, searched) /\ ~x.progress
        /\ x.seeds \subseteq x.archived
    BY DEF ExpansionOK, RoundsOK, CutShort, ThreadsOK, SeedsOK
  <1>2. Chain(t) \subseteq Kin(t) /\ \A u \in Kin(t) : world.author[u] = world.author[t] /\ Conv(u) = Conv(t)
    BY ChainIsKin DEF Kin, Pair
  <1>3. Sought(x, t) \/ Chain(t) = {t}
    BY <1>1 DEF SeedsOK, SeedsSought
  <1>4. CASE Chain(t) = {t}
    BY <1>1, <1>4
  <1>5. CASE Conv(t) \in x.detail
    <2>1. Kin(t) \subseteq Tree(Conv(t)) \cap Served
      BY <1>2 DEF Kin, Tree, Served
    <2> QED BY <1>1, <1>2, <1>5, <2>1 DEF SearchOK
  <1>6. world.author[t] \notin world.closed => Chain(t) \subseteq Listed(Pair(t))
    BY <1>2 DEF Listed, Kin, Findable, Served
  <1>7. CASE Pair(t) \in x.searched /\ Pair(t) \notin searched
    <2>1. CASE world.author[t] \in world.closed
      <3>1. Listed(Pair(t)) = {}
        BY <2>1 DEF Listed, Pair
      <3>2. Pair(t)[2] \in x.detail
        BY <1>1, <1>7, <3>1 DEF SearchOK
      <3> QED BY <1>1, <1>5, <3>2 DEF Pair
    <2>2. CASE world.author[t] \notin world.closed
      BY <1>1, <1>6, <1>7, <2>2 DEF SearchOK
    <2> QED BY <2>1, <2>2
  <1>8. CASE Pair(t) \in searched
    <2>1. world.author[t] \notin world.closed /\ Listed(Pair(t)) \ faults.returned \subseteq shown
      BY <1>8 DEF SkipOK, Pair
    <2>2. Chain(t) \cap faults.returned = {}
      BY DEF Findable
    <2> QED BY <1>1, <1>6, <2>1, <2>2
  <1> QED BY <1>1, <1>3, <1>4, <1>5, <1>7, <1>8 DEF Sought

\* The world after a tweet is served again.
LEMMA ReturnIs ==
  ASSUME WorldRight, NEW t \in Tweet, world' = [world EXCEPT !.gone = @ \ {t}]
  PROVE  /\ WorldRight' /\ Pairs' = Pairs /\ world'.closed = world.closed
         /\ \A p : Listed(p)' \subseteq Listed(p) \cup {t}
  <1>1. /\ world'.author = world.author /\ world'.parent = world.parent /\ world'.ref = world.ref /\ world'.card = world.card
        /\ world'.gone = world.gone \ {t} /\ world'.unlisted = world.unlisted /\ world'.closed = world.closed
        /\ world' \in World
    BY DEF WorldRight, World
  <1>2. WorldRight'
    BY <1>1 DEF WorldRight
  <1>3. \A u \in Tweet : Conv(u)' = Conv(u)
    <2>1. \A u : Conv(u)' = RootOf(world'.parent)[u]
      BY DEF Conv, RootOf
    <2> QED BY <1>1, <2>1, ConvIs
  <1>4. \A u \in Tweet : Pair(u)' = Pair(u)
    BY <1>1, <1>3 DEF Pair
  <1>5. Pairs' = Pairs
    BY <1>4 DEF Pairs
  <1>6. \A p : Listed(p)' \subseteq Listed(p) \cup {t}
    BY <1>1, <1>4 DEF Listed, Served
  <1> QED BY <1>1, <1>2, <1>5, <1>6

\* What the job works on: the world, what went wrong, and seeds.
ScopeOK ==
  /\ WorldRight /\ DOMAIN faults = {"crashes", "returned"} /\ liked \in Nat
  /\ job.recovered \subseteq Tweet /\ Range(job.queue) \subseteq Tweet

LEMMA SkipStays ==
  ASSUME ScopeOK, SkipOK, ExpansionOK(x, searched), [Next]_vars
  PROVE  SkipOK' /\ WorldRight' /\ DOMAIN faults' = {"crashes", "returned"} /\ liked' \in Nat
  <1>0. WorldRight /\ DOMAIN faults = {"crashes", "returned"} /\ liked \in Nat
    BY DEF ScopeOK
  <1> DEFINE Goal == SkipOK' /\ WorldRight' /\ DOMAIN faults' = {"crashes", "returned"} /\ liked' \in Nat
  <1>1. ASSUME UNCHANGED <<world, searched, shown>>, liked' \in {liked, liked + 1},
               faults' = faults \/ faults' = [faults EXCEPT !.crashes = @ + 1]
        PROVE  Goal
    <2>1. DOMAIN faults' = {"crashes", "returned"} /\ faults'.returned = faults.returned /\ liked' \in Nat
      BY <1>0, <1>1
    <2> QED BY <1>0, <1>1, <2>1, WorldStays, PairsStay DEF SkipOK, WorldRight
  <1>2. CASE Age
    BY <1>0, <1>2 DEF Age, SkipOK, WorldRight
  <1>3. ASSUME NEW t \in Tweet, Return(t) PROVE Goal
    <2>1. world' = [world EXCEPT !.gone = @ \ {t}] /\ UNCHANGED <<searched, shown, liked>>
          /\ faults' = [faults EXCEPT !.returned = @ \cup {t}]
      BY <1>3 DEF Return, store
    <2>2. faults'.returned = faults.returned \cup {t} /\ DOMAIN faults' = {"crashes", "returned"}
      BY <1>0, <2>1
    <2>3. WorldRight' /\ SkipOK'
      BY <1>0, <2>1, <2>2, ReturnIs DEF SkipOK
    <2> QED BY <1>0, <2>1, <2>2, <2>3
  <1>4. CASE MarkSearched
    <2>1. /\ searched' = searched \cup x.walked /\ shown' = shown \cup x.found /\ UNCHANGED <<world, faults, liked>>
      BY <1>4 DEF MarkSearched
    <2>2. \A p \in x.walked : p \in Pairs /\ p[1] \notin world.closed /\ Listed(p) \subseteq x.found
      BY DEF ExpansionOK, WalkedOK
    <2> QED BY <1>0, <2>1, <2>2, WorldStays, PairsStay DEF SkipOK, WorldRight
  <1>5. CASE Like \/ Crash
    BY <1>1, <1>5 DEF Like, Crash, store
  <1>6. CASE \/ \E full, retry \in BOOLEAN : Start(full, retry)
             \/ ResolveTombstones \/ Backfill \/ Fetch \/ NextChunk \/ GiveUp
    <2>1. UNCHANGED <<world, searched, shown, liked, faults>>
      BY <1>6 DEF Start, ResolveTombstones, Backfill, Fetch, NextChunk, GiveUp, store
    <2> QED BY <1>1, <2>1
  <1>7. CASE NameRefusals \/ Upgrade \/ Insert \/ UNCHANGED vars
    <2>1. UNCHANGED <<world, searched, shown, liked, faults>>
      BY <1>7 DEF NameRefusals, Upgrade, Insert, vars, store
    <2> QED BY <1>1, <2>1
  <1>8. CASE Expanding
    <2>1. UNCHANGED <<world, searched, shown, liked, faults>>
      BY <1>8 DEF Expanding, Expand, Resolve, Discover, Adopt, Climb, Raise, store
    <2> QED BY <1>1, <2>1
  <1> QED BY <1>2, <1>3, <1>4, <1>5, <1>6, <1>7, <1>8 DEF Next

LEMMA TimelineIs ==
  /\ Range(Timeline) \subseteq Served /\ Served \subseteq Tweet
  /\ DOMAIN Timeline \subseteq 1 .. liked
  BY DEF Timeline, Range, Restrict, Served

LEMMA RestrictIs ==
  ASSUME NEW f, NEW S \in SUBSET DOMAIN f
  PROVE  Range(Restrict(f, S)) = {f[i] : i \in S}
  BY DEF Range, Restrict

LEMMA CollectedIs ==
  ASSUME NEW tweets, NEW known
  PROVE  Range(Collected(tweets, known)) \subseteq Range(tweets)
  BY DEF Collected, Range, Restrict

\* Where no tweet is known, the walk takes them all.
LEMMA CollectsAll ==
  ASSUME NEW tweets, DOMAIN tweets \subseteq Nat, tweets = [i \in DOMAIN tweets |-> tweets[i]]
  PROVE  Collected(tweets, {}) = tweets
  <1> DEFINE knownUpTo(i) == {j \in DOMAIN tweets : j <= i /\ \A k \in DOMAIN tweets \cap (j .. i) : tweets[k] \in {}}
  <1>1. ASSUME NEW i \in DOMAIN tweets PROVE knownUpTo(i) = {}
    <2> SUFFICES ASSUME NEW j \in DOMAIN tweets, j <= i, \A k \in DOMAIN tweets \cap (j .. i) : FALSE PROVE FALSE
      OBVIOUS
    <2>1. j \in j .. i
      OBVIOUS
    <2> QED BY <2>1
  <1>2. KnownHits \in Nat \ {0} /\ Cardinality({}) = 0
    BY ArchiveAssumption, FS_EmptySet
  <1> HIDE DEF knownUpTo
  <1>3. \A j \in DOMAIN tweets : ~ (Cardinality(knownUpTo(j)) >= KnownHits)
    BY <1>1, <1>2
  <1> DEFINE reached == {i \in DOMAIN tweets : \A j \in DOMAIN tweets : Cardinality(knownUpTo(j)) >= KnownHits => i <= j}
  <1>4. reached = DOMAIN tweets
    BY <1>3
  <1>5. Collected(tweets, {}) = [i \in {k \in reached : tweets[k] \notin {}} |-> tweets[i]]
    BY DEF Collected, Restrict, knownUpTo
  <1> QED BY <1>4, <1>5

\* A chunk is taken from the queue, and the rest is left there.
LEMMA ChunkIs ==
  ASSUME NEW queue, NEW n, NEW chunk, chunk = Leading(n, DOMAIN queue)
  PROVE  /\ {queue[i] : i \in chunk} \subseteq Range(queue)
         /\ Range(Restrict(queue, DOMAIN queue \ chunk)) \subseteq Range(queue)
         /\ Range(queue) \subseteq {queue[i] : i \in chunk} \cup Range(Restrict(queue, DOMAIN queue \ chunk))
  <1>1. chunk \subseteq DOMAIN queue
    BY DEF Leading
  <1> QED BY <1>1 DEF Range, Restrict

-----------------------------------------------------------------------------
(* The seeds the job has in hand                                           *)

\* What a walk of the timeline leaves the job with.
LEMMA FetchIs ==
  ASSUME DOMAIN job = DOMAIN Idle, Fetch
  PROVE  \E pages : /\ Range(pages) \subseteq Range(Timeline)
                    /\ job'.queue = Collected(pages, IF job.full THEN {} ELSE KnownLikes)
                    /\ job'.step = "chunk" /\ job'.source = "full" /\ job'.full = job.full
                    /\ job'.recovered = job.recovered /\ (job'.clean => job.clean /\ pages = Timeline)
  <1> DEFINE known == IF job.full THEN {} ELSE KnownLikes
             Pages(last) == Restrict(Timeline, {i \in DOMAIN Timeline : i <= last})
  <1>1. PICK last \in 0 .. liked :
          job' = [job EXCEPT !.queue = Collected(Pages(last), known), !.step = "chunk", !.source = "full",
                             !.clean = @ /\ Pages(last) = Timeline]
    BY DEF Fetch
  <1>2. Range(Pages(last)) \subseteq Range(Timeline)
    BY DEF Range, Restrict
  <1> HIDE DEF Pages
  <1>3. /\ job'.queue = Collected(Pages(last), known) /\ job'.step = "chunk" /\ job'.source = "full" /\ job'.full = job.full
        /\ job'.recovered = job.recovered /\ job'.clean = (job.clean /\ Pages(last) = Timeline)
    BY <1>1 DEF Idle
  <1> QED BY <1>2, <1>3

LEMMA SeedsTyped ==
  ASSUME Shaped, ScopeOK, [Next]_vars
  PROVE  job'.recovered \subseteq Tweet /\ Range(job'.queue) \subseteq Tweet
  <1>0. DOMAIN job = DOMAIN Idle /\ job.recovered \subseteq Tweet /\ Range(job.queue) \subseteq Tweet
    BY DEF Shaped, ScopeOK
  <1> DEFINE Goal == job'.recovered \subseteq Tweet /\ Range(job'.queue) \subseteq Tweet
  <1>1. \A queue : queue = <<>> => Range(queue) = {}
    BY DEF Range
  <1>2. CASE Like \/ Age \/ Upgrade \/ Expanding \/ MarkSearched \/ UNCHANGED vars
    <2>1. job'.recovered = job.recovered /\ job'.queue = job.queue
      <3>1. CASE MarkSearched
        <4>1. PICK step, clean : job' = [job EXCEPT !.step = step, !.source = "full", !.clean = clean]
          BY <3>1 DEF MarkSearched
        <4> QED BY <1>0, <4>1 DEF Idle
      <3>2. CASE Upgrade
        BY <1>0, <3>2 DEF Upgrade, Idle
      <3> QED BY <1>2, <3>1, <3>2 DEF Like, Age, Expanding, vars
    <2> QED BY <1>0, <2>1
  <1>3. CASE Insert
    <2>1. job' = job \/ job' = [job EXCEPT !.step = "mark"]
      BY <1>3 DEF Insert
    <2> QED BY <1>0, <2>1 DEF Idle
  <1>4. ASSUME NEW t \in Tweet, Return(t) PROVE Goal
    BY <1>0, <1>4 DEF Return
  <1>5. CASE Crash \/ GiveUp \/ \E full, retry \in BOOLEAN : Start(full, retry)
    <2>1. Idle.recovered = {} /\ Range(Idle.queue) = {}
      BY <1>1 DEF Idle
    <2>2. CASE \E full, retry \in BOOLEAN : Start(full, retry)
      <3>1. ASSUME NEW full \in BOOLEAN, NEW retry \in BOOLEAN, Start(full, retry) PROVE job'.recovered = {} /\ job'.queue = <<>>
        BY <3>1 DEF Start, Idle
      <3> QED BY <1>1, <2>2, <3>1
    <2>3. CASE Crash \/ GiveUp
      <3>1. job' = Idle \/ job' = [job EXCEPT !.step = "export", !.queue = <<>>]
        BY <2>3 DEF Crash, GiveUp
      <3>2. ASSUME job' = [job EXCEPT !.step = "export", !.queue = <<>>] PROVE Goal
        BY <1>0, <1>1, <3>2 DEF Idle
      <3> QED BY <2>1, <3>1, <3>2
    <2> QED BY <1>5, <2>2, <2>3
  <1>6. CASE ResolveTombstones
    <2>1. job' = [job EXCEPT !.step = "name"] \/ \E t \in Placeholders : job' = [job EXCEPT !.recovered = @ \cup {t}]
      BY <1>6 DEF ResolveTombstones
    <2> QED BY <1>0, <2>1 DEF Idle, Placeholders
  <1>7. CASE NameRefusals
    <2>1. job' = [job EXCEPT !.step = "export"] \/ job' = [job EXCEPT !.step = "expand", !.source = "recovered", !.recovered = {}]
      BY <1>7 DEF NameRefusals
    <2> QED BY <1>0, <2>1 DEF Idle
  <1>8. CASE Backfill
    <2>1. job' = [job EXCEPT !.step = "fetch"] \/ job' = [job EXCEPT !.step = "expand", !.source = "bare"]
      BY <1>8 DEF Backfill
    <2> QED BY <1>0, <2>1 DEF Idle
  <1>9. CASE Fetch
    <2>1. PICK pages : /\ Range(pages) \subseteq Range(Timeline) /\ job'.recovered = job.recovered
                       /\ job'.queue = Collected(pages, IF job.full THEN {} ELSE KnownLikes)
      BY <1>0, <1>9, FetchIs
    <2> QED BY <1>0, <2>1, CollectedIs, TimelineIs
  <1>10. CASE NextChunk
    <2> DEFINE chunk == Leading(Batch, DOMAIN job.queue)
    <2>1. job' = [job EXCEPT !.step = "idle"] \/ job' = [job EXCEPT !.step = "expand", !.queue = Restrict(@, DOMAIN @ \ chunk)]
      BY <1>10 DEF NextChunk
    <2>2. Range(Restrict(job.queue, DOMAIN job.queue \ chunk)) \subseteq Range(job.queue)
      BY ChunkIs
    <2> HIDE DEF chunk
    <2> QED BY <1>0, <2>1, <2>2 DEF Idle
  <1> QED BY <1>2, <1>3, <1>4, <1>5, <1>6, <1>7, <1>8, <1>9, <1>10 DEF Next

-----------------------------------------------------------------------------
(* Walks of the whole timeline                                             *)

\* A chunk of seeds is being archived.
Threading == job.step \in {"expand", "insert", "mark"}

\* In a walk of the whole timeline that nothing disturbed so far, every like is still to
\* be expanded, a seed of the chunk, or recorded.
WalkOK ==
  job.full /\ job.clean /\ job.source = "full" /\ (Threading \/ job.step = "chunk") /\ x.phase # "failed" =>
    \A t \in Range(Timeline) : t \in Range(job.queue) \/ (Threading /\ t \in x.seeds) \/ Heals(t)

JobOK ==
  /\ ~Threading => x = Fresh
  /\ job.step = "chunk" => job.source = "full"
  /\ Threading /\ job.source = "full" => SeedsOK(x)
  /\ job.step \in {"insert", "mark"} /\ job.source = "full" => \A t \in x.seeds \cap Held : items[t].origin = "liked"
  /\ WalkOK

HealInv == KeptInv /\ ScopeOK /\ SkipOK /\ ExpansionOK(x, searched) /\ JobOK

\* Where no chunk is at hand there is nothing to hold.
LEMMA ElsewhereOK ==
  ASSUME x' = Fresh, job'.step \notin {"expand", "insert", "mark", "chunk"}
  PROVE  JobOK' /\ ExpansionOK(x, searched)'
  BY FreshOK DEF JobOK, Threading, WalkOK

LEMMA HealsStays ==
  ASSUME UNCHANGED <<world, faults>>, RowsGain, RowsOK, NEW t \in Tweet, Heals(t)
  PROVE  Heals(t)'
  <1>1. Chain(t)' = Chain(t) /\ Findable(t)' = Findable(t)
    BY WorldStays DEF Findable
  <1>2. Held \subseteq Held' /\ (items[t].origin = "liked" => items'[t].origin = "liked")
    BY DEF RowsGain, Held
  <1> QED BY <1>1, <1>2 DEF Heals, Recorded

LEMMA TimelineStays ==
  ASSUME UNCHANGED <<world, liked>>
  PROVE  Timeline' = Timeline
  BY DEF Timeline, Restrict, Served

\* The world, the timeline and what is recorded while a chunk is at hand.
LEMMA WalkStays ==
  ASSUME UNCHANGED <<world, liked, faults>>, RowsGain, RowsOK
  PROVE  /\ Range(Timeline)' = Range(Timeline) /\ Range(Timeline) \subseteq Tweet
         /\ \A t \in Range(Timeline) : Heals(t) => Heals(t)'
  <1>1. Range(Timeline)' = Range(Timeline)
    BY TimelineStays DEF Range
  <1>2. Range(Timeline) \subseteq Tweet
    BY TimelineIs
  <1> QED BY <1>1, <1>2, HealsStays

\* An expansion begins.
LEMMA BeginOK ==
  ASSUME WorldRight, SkipOK, UNCHANGED <<world, searched>>,
         NEW seeds \in SUBSET Tweet, NEW source \in {"bare", "full", "recovered"}, Begin(seeds, source)
  PROVE  /\ ExpansionOK(x, searched)' /\ (source = "full" => SeedsOK(x)') /\ x'.seeds = seeds
         /\ x'.phase = "resolve"
  <1> DEFINE kind == IF source = "bare" THEN "bare" ELSE "full"
  <1>1. kind \in {"full", "bare"} /\ (source = "full" => kind = "full") /\ searched \in SUBSET Pairs
    BY DEF SkipOK
  <1>2. x' = Seeded(seeds, kind, searched)
    BY DEF Begin
  <1> HIDE DEF kind
  <1>3. ExpansionOK(x', searched) /\ (kind = "full" => SeedsOK(x'))
    BY <1>1, <1>2, SeedsBegin
  <1>4. x'.seeds = seeds /\ x'.phase = "resolve"
    BY <1>2 DEF Seeded, Fresh
  <1> QED BY <1>1, <1>3, <1>4, ExpansionStays

LEMMA OutsideOK ==
  ASSUME JobOK, Shaped,
         Like \/ Age \/ Crash \/ GiveUp \/ ResolveTombstones \/ (\E t \in Tweet : Return(t))
           \/ (\E full, retry \in BOOLEAN : Start(full, retry))
  PROVE  JobOK' /\ ExpansionOK(x, searched)'
  <1>0. DOMAIN job = DOMAIN Idle /\ (job.step \in {"idle", "tombstones"} => x = Fresh) /\ Idle.step = "idle"
    BY DEF Shaped, JobOK, Threading, Idle
  <1>1. x' = Fresh /\ job'.step \in {"idle", "tombstones", "name", "export"}
    <2>1. CASE Like \/ Age \/ \E t \in Tweet : Return(t)
      BY <1>0, <2>1 DEF Like, Age, Return
    <2>2. CASE Crash \/ GiveUp
      <3>1. x' = Fresh /\ (job' = Idle \/ job' = [job EXCEPT !.step = "export", !.queue = <<>>])
        BY <2>2 DEF Crash, GiveUp
      <3> QED BY <1>0, <3>1 DEF Idle
    <2>3. CASE ResolveTombstones
      <3>1. /\ x' = x /\ job.step = "tombstones"
            /\ job' = [job EXCEPT !.step = "name"] \/ \E t \in Placeholders : job' = [job EXCEPT !.recovered = @ \cup {t}]
        BY <2>3 DEF ResolveTombstones
      <3> QED BY <1>0, <3>1 DEF Idle
    <2>4. ASSUME NEW full \in BOOLEAN, NEW retry \in BOOLEAN, Start(full, retry)
          PROVE  x' = Fresh /\ job'.step \in {"tombstones", "export"}
      BY <1>0, <2>4 DEF Start, Idle
    <2> QED BY <2>1, <2>2, <2>3, <2>4
  <1> QED BY <1>1, ElsewhereOK

\* An expansion of tweets whose threads are not the walk's to answer for.
LEMMA AsideOK ==
  ASSUME WorldRight, SkipOK, UNCHANGED <<world, searched>>,
         NEW seeds \in SUBSET Tweet, NEW source \in {"bare", "recovered"}, Begin(seeds, source),
         job'.step = "expand", job'.source = source
  PROVE  JobOK' /\ ExpansionOK(x, searched)'
  <1>1. ExpansionOK(x, searched)'
    BY BeginOK
  <1>2. job'.source # "full" /\ job'.step \notin {"chunk", "insert", "mark"} /\ Threading'
    BY DEF Threading
  <1> QED BY <1>1, <1>2 DEF JobOK, WalkOK

LEMMA NameOK ==
  ASSUME HealInv, NameRefusals
  PROVE  JobOK' /\ ExpansionOK(x, searched)'
  <1>0. /\ DOMAIN job = DOMAIN Idle /\ WorldRight /\ SkipOK /\ job.recovered \subseteq Tweet /\ x = Fresh
        /\ UNCHANGED <<world, searched>>
    BY DEF HealInv, KeptInv, Shaped, ScopeOK, JobOK, Threading, NameRefusals
  <1>1. CASE job.recovered = {}
    <2>1. x' = Fresh /\ job' = [job EXCEPT !.step = "export"]
      BY <1>0, <1>1 DEF NameRefusals
    <2> QED BY <1>0, <2>1, ElsewhereOK DEF Idle
  <1>2. CASE job.recovered # {}
    <2>1. Begin(job.recovered, "recovered") /\ job' = [job EXCEPT !.step = "expand", !.source = "recovered", !.recovered = {}]
      BY <1>2 DEF NameRefusals
    <2>2. job'.step = "expand" /\ job'.source = "recovered"
      BY <1>0, <2>1 DEF Idle
    <2> QED BY <1>0, <2>1, <2>2, AsideOK
  <1> QED BY <1>1, <1>2

LEMMA BackfillOK ==
  ASSUME HealInv, Backfill
  PROVE  JobOK' /\ ExpansionOK(x, searched)'
  <1> DEFINE chunk == Leading(Batch, {i \in DOMAIN Export : Export[i] \notin Held})
             seeds == {Export[i] : i \in chunk}
  <1>0. /\ DOMAIN job = DOMAIN Idle /\ WorldRight /\ SkipOK /\ x = Fresh /\ UNCHANGED <<world, searched>>
    BY DEF HealInv, KeptInv, Shaped, ScopeOK, JobOK, Threading, Backfill, store
  <1>1. CASE chunk = {}
    <2>1. x' = Fresh /\ job' = [job EXCEPT !.step = "fetch"]
      BY <1>0, <1>1 DEF Backfill
    <2> QED BY <1>0, <2>1, ElsewhereOK DEF Idle
  <1>2. CASE chunk # {}
    <2>1. Begin(seeds, "bare") /\ job' = [job EXCEPT !.step = "expand", !.source = "bare"]
      BY <1>2 DEF Backfill
    <2>2. job'.step = "expand" /\ job'.source = "bare"
      BY <1>0, <2>1 DEF Idle
    <2>3. seeds \in SUBSET Tweet
      <3>1. chunk \subseteq DOMAIN Export
        BY DEF Leading
      <3>2. \A i \in DOMAIN Export : Export[i] \in Tweet
        BY ArchiveAssumption
      <3> QED BY <3>1, <3>2
    <2> HIDE DEF seeds
    <2> QED BY <1>0, <2>1, <2>2, <2>3, AsideOK
  <1> QED BY <1>1, <1>2

LEMMA FetchOK ==
  ASSUME HealInv, Fetch
  PROVE  JobOK' /\ ExpansionOK(x, searched)'
  <1>0. /\ DOMAIN job = DOMAIN Idle /\ x' = Fresh /\ UNCHANGED <<world, liked>> /\ liked \in Nat
    BY DEF HealInv, KeptInv, Shaped, ScopeOK, JobOK, Threading, Fetch
  <1>1. PICK pages : /\ job'.queue = Collected(pages, IF job.full THEN {} ELSE KnownLikes)
                     /\ job'.step = "chunk" /\ job'.source = "full" /\ job'.full = job.full
                     /\ (job'.clean => job.clean /\ pages = Timeline)
    BY <1>0, FetchIs
  <1>2. Collected(Timeline, {}) = Timeline
    <2>1. DOMAIN Timeline \subseteq Nat
      BY <1>0, TimelineIs
    <2>2. Timeline = [i \in DOMAIN Timeline |-> Timeline[i]]
      BY DEF Timeline, Restrict
    <2> QED BY <2>1, <2>2, CollectsAll
  <1>3. WalkOK'
    <2>1. job'.full /\ job'.clean => job'.queue = Timeline'
      BY <1>0, <1>1, <1>2, TimelineStays
    <2> QED BY <2>1 DEF WalkOK
  <1>4. ~Threading' /\ job'.step = "chunk" /\ job'.source = "full"
    BY <1>1 DEF Threading
  <1>5. JobOK'
    BY <1>0, <1>3, <1>4 DEF JobOK
  <1> QED BY <1>0, <1>5, FreshOK

LEMMA ChunkOK ==
  ASSUME HealInv, RowsGain, NextChunk
  PROVE  JobOK' /\ ExpansionOK(x, searched)'
  <1> DEFINE chunk == Leading(Batch, DOMAIN job.queue)
             seeds == {job.queue[i] : i \in chunk}
             rest == Restrict(job.queue, DOMAIN job.queue \ chunk)
  <1>0. /\ DOMAIN job = DOMAIN Idle /\ WorldRight /\ SkipOK /\ x = Fresh /\ UNCHANGED <<world, searched, liked, faults>>
        /\ job.step = "chunk" /\ job.source = "full" /\ Range(job.queue) \subseteq Tweet /\ RowsOK /\ WalkOK
        /\ ~Threading
    BY DEF HealInv, KeptInv, Shaped, ScopeOK, JobOK, Threading, NextChunk, store
  <1>1. CASE chunk = {}
    <2>1. x' = Fresh /\ job' = [job EXCEPT !.step = "idle"]
      BY <1>0, <1>1 DEF NextChunk
    <2> QED BY <1>0, <2>1, ElsewhereOK DEF Idle
  <1>2. CASE chunk # {}
    <2>1. Begin(seeds, "full") /\ job' = [job EXCEPT !.step = "expand", !.queue = rest]
      BY <1>2 DEF NextChunk
    <2>2. seeds \subseteq Range(job.queue) /\ Range(job.queue) \subseteq seeds \cup Range(rest)
      BY ChunkIs
    <2> HIDE DEF seeds, rest
    <2>3. /\ job'.step = "expand" /\ job'.source = "full" /\ job'.queue = rest
          /\ job'.full = job.full /\ job'.clean = job.clean
      BY <1>0, <2>1 DEF Idle
    <2>4. ExpansionOK(x, searched)' /\ SeedsOK(x)' /\ x'.seeds = seeds /\ x'.phase = "resolve"
      <3>1. seeds \in SUBSET Tweet
        BY <1>0, <2>2
      <3> QED BY <1>0, <2>1, <3>1, BeginOK
    <2>5. x.phase # "failed"
      BY <1>0 DEF Fresh
    <2>6. /\ Range(Timeline)' = Range(Timeline) /\ Range(Timeline) \subseteq Tweet
          /\ \A t \in Range(Timeline) : Heals(t) => Heals(t)'
      BY <1>0, WalkStays
    <2>7. Threading'
      BY <2>3 DEF Threading
    <2>8. ASSUME job'.full, job'.clean, NEW t \in Range(Timeline)'
          PROVE  t \in Range(rest) \/ t \in seeds \/ Heals(t)'
      <3>1. t \in Range(job.queue) \/ Heals(t)
        BY <1>0, <2>3, <2>5, <2>6, <2>8 DEF WalkOK
      <3> QED BY <2>2, <2>6, <2>8, <3>1
    <2>9. WalkOK'
      BY <2>3, <2>4, <2>7, <2>8 DEF WalkOK
    <2> QED BY <2>3, <2>4, <2>7, <2>9 DEF JobOK
  <1> QED BY <1>1, <1>2

LEMMA ExpandingOK ==
  ASSUME Tweet # {}, HealInv, RowsGain, Expanding
  PROVE  JobOK' /\ ExpansionOK(x, searched)'
  <1>0. /\ WorldRight /\ RowsOK /\ ExpansionOK(x, searched) /\ job.step = "expand" /\ Threading /\ WalkOK
        /\ UNCHANGED <<liked, searched, job, faults>> /\ Expand /\ (job.source = "full" => SeedsOK(x))
    BY DEF HealInv, KeptInv, ScopeOK, JobOK, Threading, Expanding, store
  <1>1. UNCHANGED world /\ x.phase # "failed"
    BY <1>0 DEF Expand, Resolve, Discover, Adopt, Climb, Raise
  <1>2. ExpansionOK(x', searched) /\ (SeedsOK(x) => SeedsOK(x')) /\ (x'.seeds = x.seeds \/ x'.phase = "failed")
    BY <1>0, ExpandKeeps
  <1>3. ExpansionOK(x, searched)' /\ (SeedsOK(x') => SeedsOK(x)')
    BY <1>0, <1>1, <1>2, ExpansionStays
  <1>4. /\ Range(Timeline)' = Range(Timeline)
        /\ \A t \in Range(Timeline) : Heals(t) => Heals(t)'
    BY <1>0, <1>1, WalkStays
  <1>5. Threading' /\ job'.step = "expand"
    BY <1>0 DEF Threading
  <1>6. WalkOK'
    <2> SUFFICES ASSUME job.full, job.clean, job.source = "full", x'.phase # "failed", NEW t \in Range(Timeline)
                 PROVE  t \in Range(job.queue) \/ t \in x'.seeds \/ Heals(t)'
      BY <1>0, <1>4, <1>5 DEF WalkOK
    <2>1. t \in Range(job.queue) \/ t \in x.seeds \/ Heals(t)
      BY <1>0, <1>1 DEF WalkOK
    <2> QED BY <1>2, <1>4, <2>1
  <1> QED BY <1>0, <1>2, <1>3, <1>5, <1>6 DEF JobOK

\* The expansion and what it has to answer for, while its rows are written.
LEMMA WritingOK ==
  ASSUME HealInv, RowsGain, UNCHANGED <<world, x, liked, searched, faults>>,
         job'.full = job.full, job'.clean = job.clean, job'.source = job.source, job'.queue = job.queue,
         Threading, Threading'
  PROVE  /\ ExpansionOK(x, searched)' /\ (job'.source = "full" => SeedsOK(x)') /\ WalkOK'
  <1>0. RowsOK /\ ExpansionOK(x', searched) /\ (job.source = "full" => SeedsOK(x')) /\ WalkOK
    BY DEF HealInv, KeptInv, JobOK
  <1>1. ExpansionOK(x, searched)' /\ (SeedsOK(x') => SeedsOK(x)')
    BY <1>0, ExpansionStays
  <1>2. /\ Range(Timeline)' = Range(Timeline)
        /\ \A t \in Range(Timeline) : Heals(t) => Heals(t)'
    BY <1>0, WalkStays
  <1>3. WalkOK'
    BY <1>0, <1>2 DEF WalkOK
  <1> QED BY <1>0, <1>1, <1>3

LEMMA UpgradeOK ==
  ASSUME HealInv, RowsGain, Upgrade
  PROVE  JobOK' /\ ExpansionOK(x, searched)'
  <1>0. /\ DOMAIN job = DOMAIN Idle /\ Threading /\ RowsOK /\ UNCHANGED <<world, x, liked, searched, faults>>
        /\ job' = [job EXCEPT !.step = "insert"]
    BY DEF HealInv, KeptInv, Shaped, Threading, Upgrade
  <1>1. /\ job'.full = job.full /\ job'.clean = job.clean /\ job'.source = job.source /\ job'.queue = job.queue
        /\ job'.step = "insert" /\ Threading'
    BY <1>0 DEF Idle, Threading
  <1>2. ExpansionOK(x, searched)' /\ (job'.source = "full" => SeedsOK(x)') /\ WalkOK'
    BY <1>0, <1>1, WritingOK
  <1>3. ASSUME job.source = "full", NEW t \in x.seeds, t \in Held'
        PROVE  items'[t].origin = "liked"
    <2>1. items' = [u \in Tweet |-> IF u \in x.seeds \cap Held THEN [items[u] EXCEPT !.origin = "liked"] ELSE items[u]]
      BY <1>3 DEF Upgrade
    <2>2. t \in Tweet /\ items'[t].origin # "none" /\ items[t] = [origin |-> items[t].origin, kind |-> items[t].kind]
      BY <1>0, <1>3 DEF Held, RowsOK
    <2>3. CASE t \in Held
      BY <1>3, <2>1, <2>2, <2>3
    <2>4. CASE t \notin Held
      <3>1. items'[t] = items[t]
        BY <2>1, <2>2, <2>4
      <3> QED BY <2>2, <2>4, <3>1 DEF Held
    <2> QED BY <2>3, <2>4
  <1> QED BY <1>0, <1>1, <1>2, <1>3 DEF JobOK

LEMMA InsertOK ==
  ASSUME HealInv, RowsGain, Insert
  PROVE  JobOK' /\ ExpansionOK(x, searched)'
  <1>0. /\ DOMAIN job = DOMAIN Idle /\ Threading /\ RowsOK /\ UNCHANGED <<world, x, liked, searched, faults>>
        /\ job.step = "insert" /\ (job.source = "full" => \A t \in x.seeds \cap Held : items[t].origin = "liked")
        /\ (job' = job \/ job' = [job EXCEPT !.step = "mark"])
    BY DEF HealInv, KeptInv, Shaped, Threading, Insert, JobOK
  <1>1. /\ job'.full = job.full /\ job'.clean = job.clean /\ job'.source = job.source /\ job'.queue = job.queue
        /\ job'.step \in {"insert", "mark"} /\ Threading'
    BY <1>0 DEF Idle, Threading
  <1>2. ExpansionOK(x, searched)' /\ (job'.source = "full" => SeedsOK(x)') /\ WalkOK'
    BY <1>0, <1>1, WritingOK
  <1>3. ASSUME job.source = "full", NEW t \in x.seeds, t \in Held'
        PROVE  items'[t].origin = "liked"
    <2>1. items' = items \/ \E u \in Missing, kind \in Kinds :
            items' = [items EXCEPT ![u] = [origin |-> IF u \in x.seeds THEN "liked" ELSE "found", kind |-> kind]]
      BY DEF Insert, Kinds
    <2>2. t \in Tweet /\ items'[t].origin # "none" /\ DOMAIN items = Tweet
      BY <1>0, <1>3 DEF Held, RowsOK
    <2>3. CASE t \in Held
      BY <1>0, <1>3, <2>2, <2>3 DEF RowsGain
    <2>4. CASE t \notin Held
      <3>1. items'[t] # items[t]
        BY <2>2, <2>4 DEF Held
      <3> QED BY <1>3, <2>1, <2>2, <3>1
    <2> QED BY <2>3, <2>4
  <1> QED BY <1>0, <1>1, <1>2, <1>3 DEF JobOK

LEMMA MarkOK ==
  ASSUME HealInv, ~CutShort, RowsGain, MarkSearched
  PROVE  JobOK' /\ ExpansionOK(x, searched)'
  <1>0. /\ DOMAIN job = DOMAIN Idle /\ Threading /\ RowsOK /\ UNCHANGED <<world, liked, items, faults>>
        /\ job.step = "mark" /\ x' = Fresh /\ x.phase = "done" /\ x.archived \cup shown \subseteq Held /\ WorldRight
        /\ ExpansionOK(x, searched) /\ SkipOK /\ WalkOK
        /\ (job.source = "full" => SeedsOK(x) /\ \A t \in x.seeds \cap Held : items[t].origin = "liked")
        /\ job' = [job EXCEPT !.step = IF job.source = "full" THEN "chunk" ELSE "export",
                              !.source = "full", !.clean = @ /\ ~x.partial]
    BY DEF HealInv, KeptInv, Shaped, Threading, MarkSearched, JobOK, SearchedIsKept, ScopeOK
  <1>1. /\ job'.full = job.full /\ job'.clean = (job.clean /\ ~x.partial) /\ job'.source = "full" /\ job'.queue = job.queue
        /\ job'.step = IF job.source = "full" THEN "chunk" ELSE "export"
    BY <1>0 DEF Idle
  <1>2. /\ Range(Timeline)' = Range(Timeline)
        /\ \A t \in Range(Timeline) : Heals(t) => Heals(t)'
    BY <1>0, WalkStays
  <1>3. ASSUME job.source = "full", ~x.partial, NEW t \in Range(Timeline), t \in x.seeds
        PROVE  Heals(t)
    <2> SUFFICES ASSUME Findable(t) PROVE Recorded(t)
      BY DEF Heals
    <2>1. t \in Served
      BY <1>3, TimelineIs
    <2>2. t \in x.archived /\ Chain(t) \subseteq x.archived \cup shown
      BY <1>0, <1>3, <2>1, SeedsAreHome
    <2> QED BY <1>0, <1>3, <2>2 DEF Recorded
  <1>4. WalkOK'
    <2> SUFFICES ASSUME job'.full, job'.clean, job'.step = "chunk", NEW t \in Range(Timeline)
                 PROVE  t \in Range(job.queue) \/ Heals(t)'
      BY <1>1, <1>2 DEF WalkOK, Threading
    <2>1. job.full /\ job.clean /\ job.source = "full" /\ ~x.partial /\ x.phase # "failed"
      <3>1. job.full /\ job.clean /\ ~x.partial
        BY <1>1, Zenon
      <3>2. job.source = "full"
        BY <1>1
      <3> QED BY <1>0, <3>1, <3>2
    <2>2. t \in Range(job.queue) \/ t \in x.seeds \/ Heals(t)
      BY <1>0, <2>1 DEF WalkOK
    <2> QED BY <1>2, <1>3, <2>1, <2>2
  <1>5. ~Threading' /\ job'.step \notin {"insert", "mark"}
    BY <1>1 DEF Threading
  <1> QED BY <1>0, <1>1, <1>4, <1>5, FreshOK DEF JobOK

LEMMA StutterOK ==
  ASSUME HealInv, RowsGain, UNCHANGED vars
  PROVE  JobOK' /\ ExpansionOK(x, searched)'
  <1>0. UNCHANGED <<world, x, liked, items, searched, job, faults>> /\ JobOK
    BY DEF vars, store, HealInv
  <1>1. CASE Threading
    <2>1. Threading'
      BY <1>0, <1>1 DEF Threading
    <2>2. ExpansionOK(x, searched)' /\ (job'.source = "full" => SeedsOK(x)') /\ WalkOK'
      BY <1>0, <1>1, <2>1, WritingOK
    <2> QED BY <1>0, <2>1, <2>2 DEF JobOK, Held
  <1>2. CASE ~Threading
    <2>1. x = Fresh /\ WalkOK /\ (job.step = "chunk" => job.source = "full") /\ RowsOK
      BY <1>0, <1>2 DEF JobOK, HealInv, KeptInv
    <2>2. /\ Range(Timeline)' = Range(Timeline)
          /\ \A t \in Range(Timeline) : Heals(t) => Heals(t)'
      BY <1>0, <2>1, WalkStays
    <2>3. ~Threading' /\ job'.step \notin {"insert", "mark"} /\ x' = Fresh
      BY <1>0, <1>2, <2>1 DEF Threading
    <2>4. WalkOK'
      BY <1>0, <1>2, <2>1, <2>2, <2>3 DEF WalkOK
    <2> QED BY <1>0, <2>1, <2>3, <2>4, FreshOK DEF JobOK
  <1> QED BY <1>1, <1>2

LEMMA NextKeepsHealInv ==
  ASSUME Tweet # {}, HealInv, ~CutShort, [Next]_vars
  PROVE  HealInv'
  <1>1. KeptInv' /\ RowsGain
    BY NextKeepsInv, EveryStepGains DEF HealInv, KeptInv
  <1>2. SkipOK' /\ ScopeOK'
    BY SkipStays, SeedsTyped DEF HealInv, KeptInv, ScopeOK
  <1>3. JobOK' /\ ExpansionOK(x, searched)'
    BY <1>1, OutsideOK, NameOK, BackfillOK, FetchOK, ChunkOK, ExpandingOK, UpgradeOK, InsertOK, MarkOK, StutterOK
       DEF Next, HealInv, KeptInv
  <1> QED BY <1>1, <1>2, <1>3 DEF HealInv

LEMMA InitHeals ==
  ASSUME WorldsAssumption
  PROVE  Init => HealInv
  <1> SUFFICES ASSUME Init PROVE HealInv
    OBVIOUS
  <1>1. KeptInv
    BY InitIsInv
  <1>2. ScopeOK
    BY DEF Init, ScopeOK, WorldRight, WorldsAssumption, Idle, Range
  <1>3. SkipOK /\ ExpansionOK(x, searched)
    BY FreshIs DEF Init, SkipOK
  <1>4. JobOK
    BY DEF Init, JobOK, Threading, WalkOK, Idle
  <1> QED BY <1>1, <1>2, <1>3, <1>4 DEF HealInv

LEMMA NoneCutShort ==
  ASSUME Enough, HealInv
  PROVE  ~CutShort
  BY ExpanderAssumption DEF HealInv, ExpansionOK, RoundsOK, RoundsFew, CutShort

\* A walk of the whole timeline that nothing disturbed leaves no like behind.
Whole == Finishes /\ job.full => \A t \in Range(Timeline) : Findable(t) => Recorded(t)

LEMMA WalkIsWhole ==
  ASSUME HealInv
  PROVE  Whole
  <1> SUFFICES ASSUME Finishes, job.full, NEW t \in Range(Timeline) PROVE Heals(t)
    BY DEF Whole, Heals
  <1>1. job.step = "chunk" /\ job.clean /\ DOMAIN job.queue = {}
    BY DEF Finishes
  <1>2. ~Threading /\ job.source = "full" /\ x.phase # "failed" /\ WalkOK
    BY <1>1 DEF HealInv, JobOK, Threading, Fresh
  <1>3. Range(job.queue) = {}
    BY <1>1 DEF Range
  <1> QED BY <1>1, <1>2, <1>3 DEF WalkOK

\* Whatever cut earlier runs short, failed, was withheld and is served again: a walk of the
\* whole timeline of which nothing failed ends with every like X serves recorded, and its
\* whole thread, where a search can find all of it and X served it all along, provided
\* that MAX_ITERATIONS cut no expansion short; and where it is enough, it cuts none short.
THEOREM WalkHeals ==
  ASSUME WorldsAssumption
  PROVE  /\ Spec /\ []~CutShort => FullWalkHeals
         /\ Enough => (Spec => FullWalkHeals)
  <1>1. CASE Tweet # {}
    <2>1. HealInv /\ ~CutShort /\ [Next]_vars => HealInv'
      BY <1>1, NextKeepsHealInv
    <2>2. HealInv => Whole
      BY WalkIsWhole
    <2>3. Spec /\ []~CutShort => [][Whole]_vars
      BY <2>1, <2>2, InitHeals, PTL DEF Spec
    <2>4. ASSUME Enough PROVE Spec => [][Whole]_vars
      <3>1. HealInv => ~CutShort
        BY <2>4, NoneCutShort
      <3> QED BY <2>1, <2>2, <3>1, InitHeals, PTL DEF Spec
    <2> QED BY <2>3, <2>4 DEF FullWalkHeals, Whole
  <1>2. CASE Tweet = {}
    <2>1. Whole
      BY <1>2, TimelineIs DEF Whole
    <2>2. Spec => [][Whole]_vars
      BY <2>1, PTL
    <2> QED BY <2>2 DEF FullWalkHeals, Whole
  <1> QED BY <1>1, <1>2
-----------------------------------------------------------------------------
(* What the variables range over                                           *)

\* What the rounds keep beside RoundsOK.
Bounded(y) ==
  /\ y.core \cup y.seeds \cup y.loose \cup y.bystanders \subseteq Tweet /\ y.walked \subseteq Pairs
  /\ y.round \in 0 .. MaxRounds /\ (y.phase \in {"resolve", "discover", "climb"} => y.round < MaxRounds)

LEMMA FreshTyped == x = Fresh => RoundsOK(x) /\ Bounded(x)
  <1> SUFFICES ASSUME x = Fresh PROVE RoundsOK(x) /\ Bounded(x)
    OBVIOUS
  <1>1. RoundsOK(x)
    BY FreshIs DEF ExpansionOK
  <1>2. /\ x.core = {} /\ x.seeds = {} /\ x.loose = {} /\ x.bystanders = {} /\ x.walked = {}
        /\ x.round = 0 /\ x.phase = "idle"
    BY DEF Fresh
  <1> QED BY <1>1, <1>2, ExpanderAssumption DEF Bounded

\* In the next state too.
LEMMA FreshTypedNext == (x = Fresh => RoundsOK(x) /\ Bounded(x))'
  BY FreshTyped, PTL

LEMMA BeginTyped ==
  ASSUME searched \subseteq Pairs, NEW seeds \in SUBSET Tweet, NEW source, Begin(seeds, source)
  PROVE  RoundsOK(x') /\ Bounded(x')
  <1> DEFINE kind == IF source = "bare" THEN "bare" ELSE "full"
  <1>1. x' = Seeded(seeds, kind, searched) /\ kind \in {"full", "bare"}
    BY DEF Begin
  <1> HIDE DEF kind
  <1>2. RoundsOK(x')
    BY <1>1, SeededOK
  <1>3. /\ x'.core = {} /\ x'.seeds = seeds /\ x'.loose = {} /\ x'.bystanders = {} /\ x'.walked = {}
        /\ x'.round = 0
    BY <1>1 DEF Seeded, Fresh
  <1> QED BY <1>2, <1>3, ExpanderAssumption DEF Bounded

LEMMA ResolveTyped ==
  ASSUME WorldRight, RoundsOK(x), Bounded(x), Resolve
  PROVE  Bounded(x')
  <1>0. DOMAIN x = DOMAIN Fresh /\ Right(x) /\ x.phase = "resolve"
    BY DEF Resolve, RoundsOK, Right
  <1>1. CASE ToFetch(x) = {}
    <2>1. x' = [x EXCEPT !.phase = "discover", !.progress = FALSE]
      BY <1>1 DEF Resolve
    <2> QED BY <1>0, <2>1 DEF Bounded, Fresh
  <1>2. CASE ToFetch(x) # {}
    <2> DEFINE z == Resolved(x)
    <2>1. x' = [z EXCEPT !.phase = "discover", !.progress = TRUE]
      BY <1>2 DEF Resolve
    <2>2. /\ DOMAIN z = DOMAIN Fresh /\ z.core = x.core /\ z.round = x.round /\ z.loose = x.loose
          /\ z.bystanders = x.bystanders /\ z.seeds = x.seeds /\ z.walked = x.walked
      BY <1>0, ResolvedRight, ResolvedSeeds
    <2> HIDE DEF z
    <2> QED BY <1>0, <2>1, <2>2 DEF Bounded, Fresh
  <1> QED BY <1>1, <1>2

LEMMA DiscoverTyped ==
  ASSUME WorldRight, RoundsOK(x), Bounded(x), Discover
  PROVE  Bounded(x')
  <1>0. Right(x) /\ x.phase = "discover" /\ DOMAIN x = DOMAIN Fresh
    BY DEF Discover, RoundsOK, Right
  <1>1. PICK walked \in SUBSET PendingPairs(x) : \E answered, part, more :
          x' = EndOfRound([Discovered(x, walked, Asked(x, walked), answered) EXCEPT !.partial = part], more)
    BY DEF Discover, Asked
  <1>2. PICK answered, part, more :
          x' = EndOfRound([Discovered(x, walked, Asked(x, walked), answered) EXCEPT !.partial = part], more)
    BY <1>1
  <1> DEFINE convs == Asked(x, walked)
             all == Ingest(Ingest(x.known, FoundBy(walked)), ShownBy(answered))
             y == Discovered(x, walked, convs, answered)
  <1>3. y.seeds = x.seeds
    BY <1>0, DiscoveredSeeds
  <1>4. y = Discovered(x, walked, convs, answered) /\ all = Ingest(Ingest(x.known, FoundBy(walked)), ShownBy(answered))
    OBVIOUS
  <1>5. x' = EndOfRound([y EXCEPT !.partial = part], more)
    BY <1>2
  <1> HIDE DEF y, all, convs
  <1>6. /\ DOMAIN y = DOMAIN Fresh /\ y.walked = x.walked \cup walked /\ y.round = x.round
        /\ y.core = x.core /\ y.loose = x.loose /\ y.bystanders = x.bystanders
    BY <1>0, <1>4, DiscoveredIs
  <1>7. /\ x'.walked = x.walked \cup walked /\ x'.seeds = x.seeds /\ x'.round = x.round + 1
        /\ x'.core = x.core /\ x'.loose = x.loose /\ x'.bystanders = x.bystanders
        /\ x'.phase = IF more /\ x.round + 1 < MaxRounds THEN "resolve" ELSE "adopt"
    BY <1>3, <1>5, <1>6 DEF EndOfRound, Fresh
  <1>8. walked \subseteq Pairs
    BY <1>0 DEF PendingPairs, Threads, Pairs, Right
  <1>9. x.round + 1 \in 0 .. MaxRounds /\ (x'.phase \in {"resolve", "discover", "climb"} => x.round + 1 < MaxRounds)
    BY <1>0, <1>7, ExpanderAssumption DEF Bounded
  <1> QED BY <1>7, <1>8, <1>9 DEF Bounded

LEMMA AdoptTyped ==
  ASSUME RoundsOK(x), Bounded(x), Adopt
  PROVE  Bounded(x')
  <1>1. Right(x) /\ DOMAIN x = DOMAIN Fresh
    BY DEF RoundsOK, Right
  <1>2. /\ x'.core = x.archived /\ x'.seeds = x.seeds /\ x'.walked = x.walked /\ x'.round = 0
        /\ x'.loose = x.found \ x.archived /\ x'.bystanders \subseteq x.seen
    BY <1>1 DEF Adopt, Fresh
  <1> QED BY <1>1, <1>2, ExpanderAssumption DEF Bounded, Right

LEMMA ClimbTyped ==
  ASSUME WorldRight, RoundsOK(x), Bounded(x), Climb
  PROVE  Bounded(x')
  <1> DEFINE y == [x EXCEPT !.archived = @ \cup Above(x), !.round = @ + 1]
             z == Resolved(y)
  <1>0. Right(x) /\ DOMAIN x = DOMAIN Fresh /\ x.phase = "climb"
    BY DEF Climb, RoundsOK, Right
  <1>1. /\ ToFetch(y) = {} => x' = [y EXCEPT !.phase = "done"]
        /\ ToFetch(y) # {} => x' = [z EXCEPT !.phase = IF y.round < MaxRounds THEN "climb" ELSE "done"]
    BY DEF Climb
  <1>2. /\ DOMAIN y = DOMAIN Fresh /\ y.core = x.core /\ y.seeds = x.seeds /\ y.loose = x.loose /\ y.walked = x.walked
        /\ y.bystanders = x.bystanders /\ y.round = x.round + 1 /\ y.round \in 0 .. MaxRounds
    <2>1. x.round + 1 \in 0 .. MaxRounds
      BY <1>0, ExpanderAssumption DEF Bounded
    <2> QED BY <1>0, <2>1 DEF Fresh
  <1> HIDE DEF y
  <1>3. /\ DOMAIN z = DOMAIN Fresh /\ z.core = y.core /\ z.seeds = y.seeds /\ z.loose = y.loose /\ z.walked = y.walked
        /\ z.bystanders = y.bystanders /\ z.round = y.round
    BY <1>2 DEF Resolved, Fresh
  <1> HIDE DEF z
  <1>4. CASE ToFetch(y) = {}
    BY <1>1, <1>2, <1>4 DEF Bounded, Fresh
  <1>5. CASE ToFetch(y) # {}
    BY <1>1, <1>2, <1>3, <1>5 DEF Bounded, Fresh
  <1> QED BY <1>4, <1>5

LEMMA ExpandTyped ==
  ASSUME WorldRight, RoundsOK(x), Bounded(x), Expand
  PROVE  RoundsOK(x') /\ Bounded(x') /\ UNCHANGED world
  <1>1. RoundsOK(x') /\ UNCHANGED world
    BY ResolveOK, DiscoverOK, AdoptOK, ClimbOK, RaiseOK DEF Expand, Resolve, Discover, Adopt, Climb, Raise
  <1>2. ASSUME Raise PROVE Bounded(x')
    <2>1. /\ x'.core = {} /\ x'.seeds = {} /\ x'.loose = {} /\ x'.bystanders = {} /\ x'.walked = {}
          /\ x'.round = 0
      BY <1>2 DEF Raise, Fresh
    <2> QED BY <2>1, ExpanderAssumption DEF Bounded
  <1> QED BY <1>1, <1>2, ResolveTyped, DiscoverTyped, AdoptTyped, ClimbTyped DEF Expand

\* What is held in hand is held in the next state, where the world is the same.
LEMMA BoundedStays ==
  ASSUME UNCHANGED world, RoundsOK(x'), Bounded(x')
  PROVE  RoundsOK(x)' /\ Bounded(x)'
  <1>1. RoundsOK(x)'
    BY RoundsStay
  <1>2. Bounded(x)'
    BY PairsStay DEF Bounded
  <1> QED BY <1>1, <1>2

\* An expansion is at hand only while a chunk is archived.
Apart == ~Threading => x = Fresh

LEMMA ApartStays ==
  ASSUME job \in Job, Apart, [Next]_vars
  PROVE  Apart'
  <1> SUFFICES ASSUME job'.step \notin {"expand", "insert", "mark"} PROVE x' = Fresh
    BY DEF Apart, Threading
  <1>0. DOMAIN job = DOMAIN Idle /\ (job.step \notin {"expand", "insert", "mark"} => x = Fresh)
    BY DEF Job, Idle, Apart, Threading
  <1>1. CASE Crash \/ GiveUp \/ MarkSearched
    BY <1>1 DEF Crash, GiveUp, MarkSearched
  <1>2. CASE Like \/ Age \/ Expanding \/ UNCHANGED vars \/ \E t \in Tweet : Return(t)
    <2>1. job' = job
      BY <1>2 DEF Like, Age, Expanding, vars, Return
    <2>2. job.step # "expand"
      BY <2>1
    <2>3. x' = x
      BY <1>2, <2>2 DEF Like, Age, Expanding, vars, Return
    <2> QED BY <1>0, <2>1, <2>3
  <1>3. CASE (\E full, retry \in BOOLEAN : Start(full, retry)) \/ ResolveTombstones \/ Fetch
    <2>1. (\E full, retry \in BOOLEAN : Start(full, retry)) => x' = x /\ job.step = "idle"
      BY DEF Start
    <2>2. ResolveTombstones => x' = x /\ job.step = "tombstones"
      BY DEF ResolveTombstones
    <2>3. Fetch => x' = x /\ job.step = "fetch"
      BY DEF Fetch
    <2> QED BY <1>0, <1>3, <2>1, <2>2, <2>3
  <1>4. CASE NameRefusals
    <2>1. \/ x' = x
          \/ job' = [job EXCEPT !.step = "expand", !.source = "recovered", !.recovered = {}]
      BY <1>4 DEF NameRefusals
    <2>2. job.step = "name"
      BY <1>4 DEF NameRefusals
    <2> QED BY <1>0, <2>1, <2>2 DEF Idle
  <1>5. CASE Backfill
    <2>1. job.step = "export" /\ (x' = x \/ job' = [job EXCEPT !.step = "expand", !.source = "bare"])
      BY <1>5 DEF Backfill
    <2> QED BY <1>0, <2>1 DEF Idle
  <1>6. CASE NextChunk
    <2> DEFINE rest == Restrict(job.queue, DOMAIN job.queue \ Leading(Batch, DOMAIN job.queue))
    <2>1. job.step = "chunk" /\ (x' = x \/ job' = [job EXCEPT !.step = "expand", !.queue = rest])
      BY <1>6 DEF NextChunk
    <2> HIDE DEF rest
    <2> QED BY <1>0, <2>1 DEF Idle
  <1>7. CASE Upgrade \/ Insert
    <2>1. job'.step \in {"insert", "mark"} \/ (Insert /\ job' = job)
      <3>1. Upgrade => job'.step = "insert"
        BY <1>0 DEF Upgrade, Idle
      <3>2. Insert => job' = job \/ job'.step = "mark"
        BY <1>0 DEF Insert, Idle
      <3> QED BY <1>7, <3>1, <3>2
    <2>2. Insert => job.step = "insert"
      BY DEF Insert
    <2> QED BY <2>1, <2>2
  <1> QED BY <1>1, <1>2, <1>3, <1>4, <1>5, <1>6, <1>7 DEF Next

\* Seeds by their positions make a queue.
LEMMA QueueIs ==
  ASSUME NEW positions \in SUBSET DOMAIN Likes, NEW queue, queue = [i \in positions |-> queue[i]],
         \A i \in positions : queue[i] \in Tweet
  PROVE  queue \in Queue
  <1>1. queue \in [positions -> Tweet]
    OBVIOUS
  <1> QED BY <1>1 DEF Queue

LEMMA QueuesTyped ==
  /\ <<>> \in Queue
  /\ \A queue \in Queue : \A S \in SUBSET DOMAIN queue : Restrict(queue, S) \in Queue
  <1>1. <<>> \in Queue
    <2>1. <<>> \in [{} -> Tweet]
      OBVIOUS
    <2> QED BY <2>1 DEF Queue
  <1>2. ASSUME NEW queue \in Queue, NEW S \in SUBSET DOMAIN queue PROVE Restrict(queue, S) \in Queue
    <2>1. PICK positions \in SUBSET DOMAIN Likes : queue \in [positions -> Tweet]
      BY DEF Queue
    <2>2. Restrict(queue, S) \in [S -> Tweet] /\ S \in SUBSET DOMAIN Likes
      BY <2>1 DEF Restrict
    <2> QED BY <2>2 DEF Queue
  <1> QED BY <1>1, <1>2

LEMMA SeedsAreQueue ==
  ASSUME liked \in 0 .. Len(Likes), NEW pages, DOMAIN pages \subseteq DOMAIN Timeline, Range(pages) \subseteq Range(Timeline),
         NEW known
  PROVE  Collected(pages, known) \in Queue
  <1> DEFINE seeds == Collected(pages, known)
  <1>1. seeds = [i \in DOMAIN seeds |-> seeds[i]] /\ DOMAIN seeds \subseteq DOMAIN pages
    BY DEF Collected, Restrict
  <1>2. DOMAIN pages \subseteq DOMAIN Likes
    <2>1. DOMAIN Timeline \subseteq 1 .. liked /\ DOMAIN Likes = 1 .. Len(Likes) /\ Len(Likes) \in Nat
      BY TimelineIs, ArchiveAssumption
    <2> QED BY <2>1
  <1>3. Range(seeds) \subseteq Tweet
    BY CollectedIs, TimelineIs
  <1>4. \A i \in DOMAIN seeds : seeds[i] \in Tweet
    BY <1>3 DEF Range
  <1> HIDE DEF seeds
  <1>5. seeds \in Queue
    BY <1>1, <1>2, <1>4, QueueIs
  <1> QED BY <1>5 DEF seeds

LEMMA JobStays ==
  ASSUME job \in Job, liked \in 0 .. Len(Likes), [Next]_vars
  PROVE  job' \in Job
  <1>1. Idle \in Job
    BY QueuesTyped DEF Idle, Job, Steps
  <1>2. ASSUME NEW new \in Steps, job' = [job EXCEPT !.step = new] PROVE job' \in Job
    BY <1>2 DEF Job
  <1>3. CASE Like \/ Age \/ Expanding \/ UNCHANGED vars \/ \E t \in Tweet : Return(t)
    BY <1>3 DEF Like, Age, Expanding, vars, Return
  <1>4. ASSUME NEW full \in BOOLEAN, NEW retry \in BOOLEAN, Start(full, retry) PROVE job' \in Job
    <2>1. job' = [Idle EXCEPT !.full = full, !.retry = retry, !.step = IF retry THEN "tombstones" ELSE "export"]
      BY <1>4 DEF Start
    <2>2. (IF retry THEN "tombstones" ELSE "export") \in Steps
      BY DEF Steps
    <2>3. ASSUME NEW new \in Steps, job' = [Idle EXCEPT !.full = full, !.retry = retry, !.step = new]
          PROVE  job' \in Job
      BY <1>1, <2>3 DEF Job
    <2> QED BY <2>1, <2>2, <2>3, Zenon
  <1>5. CASE Crash \/ GiveUp
    <2>1. job' = Idle \/ job' = [job EXCEPT !.step = "export", !.queue = <<>>]
      BY <1>5 DEF Crash, GiveUp
    <2>2. ASSUME NEW queue \in Queue, job' = [job EXCEPT !.step = "export", !.queue = queue] PROVE job' \in Job
      BY <2>2 DEF Job, Steps
    <2> QED BY <1>1, <2>1, <2>2, QueuesTyped, Zenon
  <1>6. CASE ResolveTombstones
    <2>1. job' = [job EXCEPT !.step = "name"] \/ \E t \in Tweet : job' = [job EXCEPT !.recovered = @ \cup {t}]
      BY <1>6 DEF ResolveTombstones, Placeholders
    <2>2. ASSUME NEW t \in Tweet, job' = [job EXCEPT !.recovered = @ \cup {t}] PROVE job' \in Job
      BY <2>2 DEF Job
    <2> QED BY <1>2, <2>1, <2>2 DEF Steps
  <1>7. CASE NameRefusals
    <2>1. \/ job' = [job EXCEPT !.step = "export"]
          \/ job' = [job EXCEPT !.step = "expand", !.source = "recovered", !.recovered = {}]
      BY <1>7 DEF NameRefusals
    <2>2. [job EXCEPT !.step = "expand", !.source = "recovered", !.recovered = {}] \in Job
      BY DEF Job, Steps
    <2> QED BY <1>2, <2>1, <2>2 DEF Steps
  <1>8. CASE Backfill
    <2>1. job' = [job EXCEPT !.step = "fetch"] \/ job' = [job EXCEPT !.step = "expand", !.source = "bare"]
      BY <1>8 DEF Backfill
    <2>2. [job EXCEPT !.step = "expand", !.source = "bare"] \in Job
      BY DEF Job, Steps
    <2> QED BY <1>2, <2>1, <2>2 DEF Steps
  <1>9. CASE Fetch
    <2> DEFINE known == IF job.full THEN {} ELSE KnownLikes
               Pages(last) == Restrict(Timeline, {i \in DOMAIN Timeline : i <= last})
    <2>1. PICK last \in 0 .. liked :
            job' = [job EXCEPT !.queue = Collected(Pages(last), known), !.step = "chunk", !.source = "full",
                               !.clean = @ /\ Pages(last) = Timeline]
      BY <1>9, Zenon DEF Fetch
    <2>2. DOMAIN Pages(last) \subseteq DOMAIN Timeline /\ Range(Pages(last)) \subseteq Range(Timeline)
      BY DEF Range, Restrict
    <2> HIDE DEF Pages, known
    <2>3. Collected(Pages(last), known) \in Queue
      BY <2>2, SeedsAreQueue
    <2>4. ASSUME NEW queue \in Queue, NEW clean \in BOOLEAN,
                 job' = [job EXCEPT !.queue = queue, !.step = "chunk", !.source = "full", !.clean = clean]
          PROVE  job' \in Job
      BY <2>4 DEF Job, Steps
    <2>5. (job.clean /\ Pages(last) = Timeline) \in BOOLEAN
      OBVIOUS
    <2> QED BY <2>1, <2>3, <2>4, <2>5, Zenon
  <1>10. CASE NextChunk
    <2> DEFINE rest == DOMAIN job.queue \ Leading(Batch, DOMAIN job.queue)
    <2>1. \/ job' = [job EXCEPT !.step = "idle"]
          \/ job' = [job EXCEPT !.step = "expand", !.queue = Restrict(job.queue, rest)]
      <3>1. \/ job' = [job EXCEPT !.step = "idle"]
            \/ job' = [job EXCEPT !.step = "expand", !.queue = Restrict(@, DOMAIN @ \ Leading(Batch, DOMAIN job.queue))]
        BY <1>10, Zenon DEF NextChunk
      <3> QED BY <3>1, Zenon
    <2>2. job.queue \in Queue /\ rest \in SUBSET DOMAIN job.queue
      BY DEF Job
    <2> HIDE DEF rest
    <2>3. Restrict(job.queue, rest) \in Queue
      BY <2>2, QueuesTyped
    <2>4. ASSUME NEW queue \in Queue, job' = [job EXCEPT !.step = "expand", !.queue = queue] PROVE job' \in Job
      BY <2>4 DEF Job, Steps
    <2>5. "idle" \in Steps
      BY DEF Steps
    <2> QED BY <1>2, <2>1, <2>3, <2>4, <2>5, Zenon
  <1>11. CASE Upgrade \/ Insert
    <2>1. job' = job \/ \E step \in {"insert", "mark"} : job' = [job EXCEPT !.step = step]
      BY <1>11 DEF Upgrade, Insert
    <2> QED BY <1>2, <2>1 DEF Steps
  <1>12. CASE MarkSearched
    <2>1. (IF job.source = "full" THEN "chunk" ELSE "export") \in Steps
      BY DEF Steps
    <2>2. (job.clean /\ ~x.partial) \in BOOLEAN
      OBVIOUS
    <2>3. job' = [job EXCEPT !.step = IF job.source = "full" THEN "chunk" ELSE "export",
                             !.source = "full", !.clean = @ /\ ~x.partial]
      BY <1>12 DEF MarkSearched
    <2>4. ASSUME NEW new \in Steps, NEW clean \in BOOLEAN,
                 job' = [job EXCEPT !.step = new, !.source = "full", !.clean = clean]
          PROVE  job' \in Job
      BY <2>4 DEF Job
    <2> QED BY <2>1, <2>2, <2>3, <2>4, Zenon
  <1> QED BY <1>3, <1>4, <1>5, <1>6, <1>7, <1>8, <1>9, <1>10, <1>11, <1>12 DEF Next

TypedInv ==
  /\ KeptInv /\ WorldRight /\ RoundsOK(x) /\ Bounded(x) /\ job \in Job /\ Apart
  /\ searched \subseteq Pairs /\ liked \in 0 .. Len(Likes)
  /\ faults \in [crashes : 0 .. MaxCrashes, returned : SUBSET Tweet]

\* A step begins an expansion, goes on with it, or drops it.
LEMMA HandIs ==
  ASSUME [Next]_vars
  PROVE  \/ x' = Fresh \/ Expanding \/ (x' = x /\ (UNCHANGED world \/ job.step = "idle"))
         \/ \E seeds, source : (\/ NameRefusals /\ seeds = job.recovered
                                \/ Backfill /\ seeds \subseteq Range(Export)
                                \/ NextChunk /\ seeds \subseteq Range(job.queue)) /\ Begin(seeds, source)
  <1> DEFINE Goal == \/ x' = Fresh \/ Expanding \/ (x' = x /\ (UNCHANGED world \/ job.step = "idle"))
                     \/ \E seeds, source : (\/ NameRefusals /\ seeds = job.recovered
                                            \/ Backfill /\ seeds \subseteq Range(Export)
                                            \/ NextChunk /\ seeds \subseteq Range(job.queue)) /\ Begin(seeds, source)
  <1>1. CASE Like \/ Age \/ ResolveTombstones \/ Fetch \/ Upgrade \/ Insert \/ UNCHANGED vars
    <2>1. Like \/ Age \/ ResolveTombstones \/ Fetch \/ UNCHANGED vars => x' = x /\ UNCHANGED world
      BY Zenon DEF Like, Age, ResolveTombstones, Fetch, vars
    <2>2. Upgrade => x' = x /\ UNCHANGED world
      BY Zenon DEF Upgrade
    <2>3. Insert => x' = x /\ UNCHANGED world
      BY DEF Insert
    <2> QED BY <1>1, <2>1, <2>2, <2>3
  <1>2. CASE (\E t \in Tweet : Return(t)) \/ (\E full, retry \in BOOLEAN : Start(full, retry))
    <2>1. (\E t \in Tweet : Return(t)) => x' = x /\ job.step = "idle"
      BY DEF Return
    <2>2. (\E full, retry \in BOOLEAN : Start(full, retry)) => x' = x /\ job.step = "idle"
      BY DEF Start
    <2> QED BY <1>2, <2>1, <2>2
  <1>3. CASE Crash \/ GiveUp \/ MarkSearched
    <2>1. x' = Fresh
      BY <1>3 DEF Crash, GiveUp, MarkSearched
    <2> QED BY <2>1
  <1>4. CASE NameRefusals
    <2>1. UNCHANGED world /\ (x' = x \/ Begin(job.recovered, "recovered"))
      BY <1>4 DEF NameRefusals
    <2> QED BY <1>4, <2>1
  <1>5. CASE Backfill
    <2> DEFINE chunk == Leading(Batch, {i \in DOMAIN Export : Export[i] \notin Held})
    <2>1. UNCHANGED world /\ (x' = x \/ Begin({Export[i] : i \in chunk}, "bare"))
      BY <1>5 DEF Backfill
    <2>2. {Export[i] : i \in chunk} \subseteq Range(Export)
      BY DEF Leading, Range
    <2> QED BY <1>5, <2>1, <2>2
  <1>6. CASE NextChunk
    <2> DEFINE chunk == Leading(Batch, DOMAIN job.queue)
    <2>1. UNCHANGED world /\ (x' = x \/ Begin({job.queue[i] : i \in chunk}, "full"))
      BY <1>6 DEF NextChunk
    <2>2. {job.queue[i] : i \in chunk} \subseteq Range(job.queue)
      BY DEF Leading, Range
    <2> QED BY <1>6, <2>1, <2>2
  <1>7. CASE Expanding
    BY <1>7
  <1> QED BY <1>1, <1>2, <1>3, <1>4, <1>5, <1>6, <1>7 DEF Next

LEMMA HandStays ==
  ASSUME TypedInv, [Next]_vars
  PROVE  RoundsOK(x)' /\ Bounded(x)'
  <1>0. WorldRight /\ RoundsOK(x) /\ Bounded(x) /\ job \in Job /\ searched \subseteq Pairs
    BY DEF TypedInv
  <1>1. CASE x' = Fresh
    BY <1>1, FreshTypedNext
  <1>2. CASE Expanding
    <2>1. RoundsOK(x') /\ Bounded(x') /\ UNCHANGED world
      BY <1>0, <1>2, ExpandTyped DEF Expanding
    <2> QED BY <2>1, BoundedStays
  <1>3. CASE x' = x /\ UNCHANGED world
    <2>1. RoundsOK(x') /\ Bounded(x')
      BY <1>0, <1>3
    <2> QED BY <1>3, <2>1, BoundedStays
  <1>4. CASE x' = x /\ job.step = "idle"
    <2>1. x' = Fresh
      BY <1>4 DEF TypedInv, Apart, Threading
    <2> QED BY <2>1, FreshTypedNext
  <1>5. ASSUME NEW seeds, NEW source, Begin(seeds, source),
               \/ NameRefusals /\ seeds = job.recovered
               \/ Backfill /\ seeds \subseteq Range(Export)
               \/ NextChunk /\ seeds \subseteq Range(job.queue)
        PROVE  RoundsOK(x)' /\ Bounded(x)'
    <2>1. job.recovered \subseteq Tweet /\ Range(job.queue) \subseteq Tweet /\ Range(Export) \subseteq Tweet
      <3>1. job.recovered \subseteq Tweet /\ job.queue \in Queue
        BY <1>0 DEF Job
      <3>2. Range(job.queue) \subseteq Tweet
        BY <3>1 DEF Queue, Range
      <3>3. Range(Export) \subseteq Tweet
        BY ArchiveAssumption DEF Range
      <3> QED BY <3>1, <3>2, <3>3
    <2>2. seeds \in SUBSET Tweet /\ UNCHANGED world
      <3>1. NameRefusals \/ Backfill \/ NextChunk => UNCHANGED world
        BY DEF NameRefusals, Backfill, NextChunk
      <3> QED BY <1>5, <2>1, <3>1
    <2>3. RoundsOK(x') /\ Bounded(x')
      BY <1>0, <1>5, <2>2, BeginTyped
    <2> QED BY <2>2, <2>3, BoundedStays
  <1> QED BY <1>1, <1>2, <1>3, <1>4, <1>5, HandIs

LEMMA ScopeStays ==
  ASSUME TypedInv, [Next]_vars
  PROVE  /\ WorldRight' /\ searched' \subseteq Pairs' /\ liked' \in 0 .. Len(Likes)
         /\ faults' \in [crashes : 0 .. MaxCrashes, returned : SUBSET Tweet]
  <1>0. /\ WorldRight /\ searched \subseteq Pairs /\ x.walked \subseteq Pairs /\ liked \in 0 .. Len(Likes)
        /\ faults \in [crashes : 0 .. MaxCrashes, returned : SUBSET Tweet]
        /\ Len(Likes) \in Nat /\ MaxCrashes \in Nat
    BY ArchiveAssumption DEF TypedInv, Bounded
  <1> DEFINE Goal == /\ WorldRight' /\ searched' \subseteq Pairs' /\ liked' \in 0 .. Len(Likes)
                     /\ faults' \in [crashes : 0 .. MaxCrashes, returned : SUBSET Tweet]
  <1>1. ASSUME UNCHANGED <<world, faults>>, searched' \subseteq searched \cup x.walked,
               liked' = liked \/ (liked < Len(Likes) /\ liked' = liked + 1)
        PROVE  Goal
    <2>1. liked' \in 0 .. Len(Likes)
      BY <1>0, <1>1
    <2> QED BY <1>0, <1>1, <2>1, PairsStay DEF WorldRight
  <1>2. CASE Crash
    <2>1. /\ faults.crashes < MaxCrashes /\ faults' = [faults EXCEPT !.crashes = @ + 1]
          /\ UNCHANGED <<world, liked, searched>>
      BY <1>2 DEF Crash, store
    <2>2. faults' \in [crashes : 0 .. MaxCrashes, returned : SUBSET Tweet]
      BY <1>0, <2>1
    <2> QED BY <1>0, <2>1, <2>2, PairsStay DEF WorldRight
  <1>3. ASSUME NEW t \in Tweet, Return(t) PROVE Goal
    <2>1. /\ world' = [world EXCEPT !.gone = @ \ {t}] /\ faults' = [faults EXCEPT !.returned = @ \cup {t}]
          /\ UNCHANGED <<liked, searched>>
      BY <1>3 DEF Return, store
    <2>2. WorldRight' /\ Pairs' = Pairs
      BY <1>0, <2>1, ReturnIs
    <2>3. faults' \in [crashes : 0 .. MaxCrashes, returned : SUBSET Tweet]
      BY <1>0, <2>1
    <2> QED BY <1>0, <2>1, <2>2, <2>3
  <1>4. CASE Like \/ Age \/ MarkSearched
    <2>1. /\ UNCHANGED <<world, faults>> /\ searched' \subseteq searched \cup x.walked
          /\ liked' = liked \/ (liked < Len(Likes) /\ liked' = liked + 1)
      BY <1>4 DEF Like, Age, MarkSearched
    <2> QED BY <1>1, <2>1
  <1>5. CASE (\E full, retry \in BOOLEAN : Start(full, retry)) \/ ResolveTombstones \/ Backfill \/ Fetch \/ NextChunk
               \/ GiveUp \/ NameRefusals \/ Upgrade \/ Insert \/ UNCHANGED vars
    <2> DEFINE Same == UNCHANGED <<world, searched, liked, faults>>
    <2>1. (\E full, retry \in BOOLEAN : Start(full, retry)) => Same
      BY DEF Start, store
    <2>2. ResolveTombstones \/ Backfill \/ Fetch \/ NextChunk \/ GiveUp \/ UNCHANGED vars => Same
      BY Zenon DEF ResolveTombstones, Backfill, Fetch, NextChunk, GiveUp, vars, store
    <2>3. NameRefusals \/ Insert => Same
      BY DEF NameRefusals, Insert
    <2>4. Upgrade => Same
      BY Zenon DEF Upgrade
    <2>5. Same
      BY <1>5, <2>1, <2>2, <2>3, <2>4
    <2> QED BY <1>1, <2>5
  <1>6. CASE Expanding
    <2>1. UNCHANGED <<world, searched, liked, faults>>
      BY <1>6 DEF Expanding, Expand, Resolve, Discover, Adopt, Climb, Raise, store
    <2> QED BY <1>1, <2>1
  <1> QED BY <1>2, <1>3, <1>4, <1>5, <1>6 DEF Next

LEMMA InitIsTyped ==
  ASSUME WorldsAssumption
  PROVE  Init => TypedInv
  <1> SUFFICES ASSUME Init PROVE TypedInv
    OBVIOUS
  <1>1. WorldRight /\ x = Fresh /\ Apart
    BY DEF Init, WorldRight, WorldsAssumption, Apart
  <1>2. job \in Job
    <2>1. Idle \in Job
      BY QueuesTyped DEF Idle, Job, Steps
    <2> QED BY <2>1 DEF Init
  <1>3. /\ searched = {} /\ liked = 0 /\ Len(Likes) \in Nat /\ MaxCrashes \in Nat
        /\ faults = [crashes |-> 0, returned |-> {}]
    BY ArchiveAssumption DEF Init
  <1> QED BY <1>1, <1>2, <1>3, InitIsInv, FreshTyped DEF TypedInv

LEMMA TypesFollow ==
  ASSUME TypedInv
  PROVE  TypeOK
  <1>1. /\ RoundsOK(x) /\ Right(x) /\ Bounded(x) /\ RowsOK /\ SearchedIsKept /\ WorldRight
        /\ searched \subseteq Pairs
    BY DEF TypedInv, KeptInv, RoundsOK
  <1>2. x.tombstones \subseteq Tweet /\ x.unresolvable \subseteq Tweet
    BY <1>1, WorldIs DEF Right
  <1>3. ExpanderTypeOK
    BY <1>1, <1>2 DEF ExpanderTypeOK, RoundsOK, Right, Bounded, WorldRight
  <1>4. shown \subseteq Tweet
    BY <1>1 DEF SearchedIsKept, Held
  <1> QED BY <1>1, <1>3, <1>4 DEF TypeOK, TypedInv, RowsOK, Pairs

\* Whatever is liked, fails, is cut short or served again, the job holds in hand and in
\* its tables tweets there are: a queue of seeds by their places in the timeline, pairs
\* of an author and a conversation for searched, an expansion within MAX_ITERATIONS.
THEOREM ArchiveIsTyped ==
  ASSUME WorldsAssumption
  PROVE  Spec => []TypeOK
  <1>1. TypedInv /\ [Next]_vars => TypedInv'
    <2> SUFFICES ASSUME TypedInv, [Next]_vars PROVE TypedInv'
      OBVIOUS
    <2>1. KeptInv'
      BY NextKeepsInv DEF TypedInv
    <2>2. job' \in Job /\ Apart'
      BY JobStays, ApartStays DEF TypedInv
    <2> QED BY <2>1, <2>2, HandStays, ScopeStays DEF TypedInv
  <1>2. TypedInv => TypeOK
    BY TypesFollow
  <1> QED BY <1>1, <1>2, InitIsTyped, PTL DEF Spec
=============================================================================
