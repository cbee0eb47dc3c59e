---------------------------- MODULE TwitterClient ----------------------------
(***************************************************************************)
(* The API client the expander calls (platforms/twitter/client.py): one    *)
(* request with its retries, its wait for a rate limit and its other query *)
(* ids, and the three walks built from requests: authors' tweets in their  *)
(* conversations, one conversation's page by page, and a batch of ids.     *)
(*                                                                         *)
(* Search serves a page at a time, newest first, and stops serving at a    *)
(* cap; the walk of a conversation goes on below the oldest tweet it got.  *)
(***************************************************************************)
EXTENDS Integers, FiniteSets, FiniteSetsExt

CONSTANTS
  Pair,       \* (author, conversation) pairs to walk, in sorted order: 1 .. n
  Sizes,      \* how many tweets the index may hold for one
  PageSize,   \* what a full page of Latest holds
  Cap,        \* SEARCH_RESULT_CAP
  MaxSlices,  \* MAX_CONVERSATION_SLICES
  QueryIds,   \* how many query ids an operation has
  Attempts,   \* MAX_REQUEST_ATTEMPTS
  Answers,    \* what the server may answer, besides "ok"
  Ops         \* the walks looked at

ASSUME ClientAssumption ==
  /\ IsFiniteSet(Pair) /\ Pair # {} /\ Pair = 1 .. Cardinality(Pair)
  /\ IsFiniteSet(Sizes) /\ Sizes \subseteq Nat
  /\ PageSize \in 1 .. Cap /\ {Cap, MaxSlices, QueryIds, Attempts} \subseteq Nat \ {0}
  /\ Cap % PageSize = 0  \* 20 and 40
  /\ Answers \subseteq {"errors", "404", "429", "5xx", "4xx", "drop", "bug"}
  /\ Ops \subseteq {"conversations", "thread", "batch"}

VARIABLES
  index,   \* index[p]: the ids 1 .. n that Latest serves of a pair; constant
  req,     \* the request under way
  walk     \* the caller's locals

vars == <<index, req, walk>>

-----------------------------------------------------------------------------
(* One request                                                             *)

\* A method is GET, or the POST that TweetDetail falls back to after 404s.
NoRequest == [at |-> "idle", method |-> "GET", id |-> 1, attempt |-> 1, last |-> "ok", out |-> "ok"]

Request == [NoRequest EXCEPT !.at = "send"]

\* What the callers of _send_with_retry make of what it returns.
Reported(r, out) ==
  IF r.method = "POST"
  THEN IF out = "ok" THEN [r EXCEPT !.at = "over", !.out = "ok"]
       ELSE IF r.id < QueryIds THEN [r EXCEPT !.at = "send", !.id = @ + 1, !.attempt = 1]
       ELSE [r EXCEPT !.at = "over", !.out = "404"]
  ELSE IF out = "404" /\ r.id < QueryIds THEN [r EXCEPT !.at = "send", !.id = @ + 1, !.attempt = 1]
  ELSE IF out = "404" /\ walk.op = "thread"
       THEN [r EXCEPT !.at = "send", !.method = "POST", !.id = 1, !.attempt = 1]
  ELSE [r EXCEPT !.at = "over", !.out = out]

\* A dropped connection or a 5xx may answer differently next time.
Outcome(r, answer) ==
  IF answer \notin {"5xx", "drop"} THEN Reported(r, answer)
  ELSE IF r.attempt = Attempts THEN Reported(r, answer)
  ELSE [r EXCEPT !.at = "send", !.attempt = @ + 1]

Sent(answer) == [req EXCEPT !.last = answer]

Send(answer) ==
  /\ req.at = "send"
  /\ req' = IF answer = "429" THEN [Sent(answer) EXCEPT !.at = "resend"] ELSE Outcome(Sent(answer), answer)
  /\ UNCHANGED <<index, walk>>

\* After the bucket's reset.
Resend(answer) ==
  /\ req.at = "resend"
  /\ req' = Outcome(Sent(answer), answer)
  /\ UNCHANGED <<index, walk>>

\* is_rate_limit looks for "429" in a message that names what was asked for.
IsRateLimit(out) == out = "429" \/ (out # "ok" /\ walk.digits)

-----------------------------------------------------------------------------
(* The walks                                                               *)

\* pair: the one walked.  bound: max_id.  slice: what the query returned so far.
\* page: pages read.
NoWalk == [op |-> "none", at |-> "over", digits |-> FALSE, pair |-> 1, product |-> "Latest", bound |-> 0,
           slice |-> {}, found |-> {}, slices |-> 0, page |-> 0, walked |-> {}, all |-> {},
           left |-> {}, missing |-> {}, out |-> "ok"]

Newest(set, n) == {t \in set : Cardinality({u \in set : u > t}) < n}

Top == Max({0} \cup Sizes)

Init ==
  /\ index \in [Pair -> {1 .. n : n \in Sizes}]
  /\ \E op \in Ops, digits \in BOOLEAN :
       walk = [NoWalk EXCEPT !.op = op, !.at = "ask", !.digits = digits, !.bound = Top,
                             !.left = IF op = "conversations" THEN Pair ELSE Newest(index[1], PageSize + 1)]
  /\ req = NoRequest

Ask ==
  /\ walk.at = "ask" /\ req.at = "idle"
  /\ req' = Request
  /\ walk' = [walk EXCEPT !.at = "await"]
  /\ UNCHANGED index

Answered == walk.at = "await" /\ req.at = "over"

\* search_tweets: one page, and whether the query goes on.
Page ==
  /\ Answered /\ walk.op = "conversations" /\ req.out = "ok" /\ walk.product = "Latest"
  /\ LET below == {t \in index[walk.pair] : t <= walk.bound}
         page == Newest(below \ walk.slice, PageSize)
         slice == walk.slice \cup page IN
     \E cursor \in BOOLEAN :
       /\ Cardinality(slice) = Cap => ~cursor
       /\ below # slice /\ Cardinality(slice) < Cap => cursor
       /\ walk' = [walk EXCEPT !.slice = slice,
                               !.at = IF Cardinality(page) = PageSize /\ cursor THEN "ask" ELSE "slice"]
  /\ req' = NoRequest
  /\ UNCHANGED index

\* mutant: the next slice begins below the tweet below the oldest.
SliceBelow ==
  LET fresh == walk.slice \ walk.found
      more == fresh # {} /\ Cardinality(walk.slice) = Cap /\ walk.slices + 1 < MaxSlices IN
  /\ walk.at = "slice"
  /\ walk' = [walk EXCEPT !.found = @ \cup fresh, !.slice = {}, !.slices = @ + 1,
                          !.bound = IF more THEN Min(walk.slice) - 2 ELSE @,
                          !.at = IF more THEN "ask" ELSE "next"]
  /\ UNCHANGED <<index, req>>

\* _walk_conversation: under the cap nothing was cut off; at it the walk goes on below.
Slice ==
  LET fresh == walk.slice \ walk.found
      more == fresh # {} /\ Cardinality(walk.slice) = Cap /\ walk.slices + 1 < MaxSlices IN
  /\ walk.at = "slice"
  /\ walk' = [walk EXCEPT !.found = @ \cup fresh, !.slice = {}, !.slices = @ + 1,
                          !.bound = IF more THEN Min(walk.slice) - 1 ELSE @,
                          !.product = IF ~more /\ walk.found \cup fresh = {} THEN "Top" ELSE @,
                          !.at = IF more \/ walk.found \cup fresh = {} THEN "ask" ELSE "next"]
  /\ UNCHANGED <<index, req>>

\* Some conversations answer under Top alone.
TopPage ==
  /\ Answered /\ walk.op = "conversations" /\ req.out = "ok" /\ walk.product = "Top"
  /\ walk' = [walk EXCEPT !.at = "next"]
  /\ req' = NoRequest
  /\ UNCHANGED index

Advance(w) ==
  LET left == w.left \ {w.pair} IN
  IF left # {}
  THEN [w EXCEPT !.left = left, !.pair = Min(left), !.product = "Latest", !.bound = Top, !.slice = {},
                 !.found = {}, !.slices = 0, !.at = "ask"]
  ELSE [w EXCEPT !.left = {}, !.at = "over", !.out = IF w.walked = {} THEN "raised" ELSE "ok"]

NextPair ==
  /\ walk.at = "next"
  /\ walk' = Advance([walk EXCEPT !.walked = @ \cup {walk.pair}, !.all = @ \cup ({walk.pair} \X walk.found)])
  /\ UNCHANGED <<index, req>>

\* One conversation fails for itself alone; a rate limit ends the walk.
PairFails ==
  /\ Answered /\ walk.op = "conversations" /\ req.out # "ok"
  /\ walk' = IF IsRateLimit(req.out) THEN [walk EXCEPT !.at = "over", !.out = "limited"] ELSE Advance(walk)
  /\ req' = NoRequest
  /\ UNCHANGED index

\* mutant: a page that adds nothing does not end the walk.
ThreadPageAgain ==
  /\ Answered /\ walk.op = "thread" /\ req.out = "ok"
  /\ \E page \in SUBSET walk.left :
       walk' = [walk EXCEPT !.left = @ \ page, !.found = @ \cup page, !.at = "ask"]
  /\ req' = NoRequest
  /\ UNCHANGED index

\* get_thread: another page while pages add tweets, after the first one tweets
\* by authors above the one asked about.
ThreadPage ==
  /\ Answered /\ walk.op = "thread" /\ req.out = "ok"
  /\ \E page \in SUBSET walk.left, relevant \in BOOLEAN, cursor \in BOOLEAN :
       walk' = [walk EXCEPT !.left = @ \ page, !.found = @ \cup page, !.page = @ + 1,
                            !.at = IF cursor /\ page # {} /\ (walk.page = 0 \/ relevant) THEN "ask" ELSE "over"]
  /\ req' = NoRequest
  /\ UNCHANGED index

\* get_tweets_by_ids: a chunk of the ids, of which some are served.
BatchChunk ==
  /\ Answered /\ walk.op = "batch" /\ req.out = "ok"
  /\ LET chunk == Newest(walk.left, PageSize) IN
     \E served \in SUBSET chunk :
       walk' = [walk EXCEPT !.left = @ \ chunk, !.found = @ \cup served, !.missing = @ \cup (chunk \ served),
                            !.at = IF walk.left \ chunk = {} THEN "over" ELSE "ask"]
  /\ req' = NoRequest
  /\ UNCHANGED index

Raises ==
  /\ Answered /\ walk.op \in {"thread", "batch"} /\ req.out # "ok"
  /\ walk' = [walk EXCEPT !.at = "over", !.out = IF IsRateLimit(req.out) THEN "limited" ELSE "raised"]
  /\ UNCHANGED <<index, req>>

Next ==
  \/ \E answer \in Answers \cup {"ok"} : Send(answer) \/ Resend(answer)
  \/ Ask \/ Page \/ Slice \/ TopPage \/ NextPair \/ PairFails
  \/ ThreadPage \/ BatchChunk \/ Raises

Spec == Init /\ [][Next]_vars

-----------------------------------------------------------------------------
(* Properties                                                              *)

\* What a conversation that counts as walked holds was all found, up to what
\* MaxSlices slices reach: neither the page, nor the cap, nor the step from one
\* slice to the next loses a tweet (client.py:676-682).
WalkedIsWhole ==
  \A p \in walk.walked : {p} \X Newest(index[p], Cap * MaxSlices) \subseteq walk.all

\* "every request path reports its failure as a message ... Callers back off on
\* it" (client.py:910-911)
RateLimitSurvives ==
  req.at = "over" /\ req.last = "429" => IsRateLimit(req.out)

\* "A transport failure on it says nothing about the rest" (client.py:656): only
\* a rate limit ends the walk of the pairs that are left.
OneFailsAlone ==
  [][walk.op = "conversations" /\ walk'.out = "limited" => req.last = "429"]_vars
=============================================================================
