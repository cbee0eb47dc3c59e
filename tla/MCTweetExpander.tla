--------------------------- MODULE MCTweetExpander ---------------------------
(* Worlds of a few tweets for TweetExpander.                               *)
EXTENDS TweetExpander, FiniteSetsExt

CONSTANTS a, b

Older(t) == {u \in Tweet : u < t} \cup {None}

\* Functions that send each tweet to an older one or to none.
Back(k) == {f \in [Tweet -> Tweet \cup {None}] :
              /\ \A t \in Tweet : f[t] \in Older(t)
              /\ Cardinality({t \in Tweet : f[t] # None}) <= k}

\* One thing is wrong with X, or nothing.
Normal == [gone |-> {}, unlisted |-> {}, closed |-> {}]
Wrongs == {Normal, [Normal EXCEPT !.closed = {a}], [Normal EXCEPT !.closed = {b}]}
            \cup UNION {{[Normal EXCEPT !.gone = {t}], [Normal EXCEPT !.unlisted = {t}]} : t \in Tweet}
            \cup {[Normal EXCEPT !.unlisted = Tweet]}

MCWorlds ==
  {[author |-> f, parent |-> p, ref |-> r, card |-> c,
    gone |-> w.gone, unlisted |-> w.unlisted, closed |-> w.closed] :
     f \in {g \in [Tweet -> {a, b}] : g[1] = a /\ g[2] = a}, p \in Back(Cardinality(Tweet)), r \in Back(1),
     c \in {{}, Tweet}, w \in Wrongs}

ASSUME WorldsAssumption
=============================================================================
