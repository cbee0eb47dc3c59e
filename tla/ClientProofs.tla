----------------------------- MODULE ClientProofs -----------------------------
(***************************************************************************)
(* What the clients promise.  Of X: the walk of a conversation loses       *)
(* nothing, for every size of a page, cap of the search and number of      *)
(* slices, up to what the slices reach.  Of the models: no call is asked   *)
(* more often than its tries, and its result is true of its replies.       *)
(***************************************************************************)
EXTENDS TwitterClient, FiniteSetTheorems, WellFoundedInduction, TLAPS

-----------------------------------------------------------------------------
(* Numbers and intervals                                                   *)

LEMMA LeastOne ==
  ASSUME NEW T, T \subseteq Nat, T # {}
  PROVE  \E x \in T : \A y \in T : x <= y
  <1> DEFINE R == {ss \in Nat \X Nat : ss[1] < ss[2]}
  <1>1. IsWellFoundedOn(R, Nat)
    BY NatLessThanWellFounded DEF OpToRel
  <1> HIDE DEF R
  <1>2. PICK x \in T : \A y \in T : ~ (<<y, x>> \in R)
    BY <1>1, WFMin
  <1>3. \A y \in T : x <= y
    <2> TAKE y \in T
    <2>1. <<y, x>> \in Nat \X Nat
      OBVIOUS
    <2>2. ~ (y < x)
      BY <1>2, <2>1 DEF R
    <2> QED BY <2>2
  <1> QED BY <1>3

LEMMA MinOf ==
  ASSUME NEW S, S \subseteq Nat, S # {}
  PROVE  Min(S) \in S /\ \A t \in S : Min(S) <= t
  BY LeastOne DEF Min

\* Of the sets of numbers without a bound that are part of S one would be smallest;
\* without one of its numbers it has a bound.
LEMMA Bounded ==
  ASSUME NEW S, S \subseteq Nat, IsFiniteSet(S)
  PROVE  \E n \in Nat : S \subseteq 0 .. n
  <1> DEFINE Open(T) == \A n \in Nat : ~ (T \subseteq 0 .. n)
             Sized(c) == \E T \in SUBSET S : Cardinality(T) = c /\ Open(T)
             C == {c \in Nat : Sized(c)}
  <1>1. ASSUME C # {}
        PROVE  FALSE
    <2>1. PICK c \in C : \A d \in C : c <= d
      <3>1. C \subseteq Nat
        OBVIOUS
      <3> HIDE DEF C
      <3> QED BY <1>1, <3>1, LeastOne
    <2>2. PICK T \in SUBSET S : Cardinality(T) = c /\ Open(T)
      BY <2>1
    <2>3. IsFiniteSet(T) /\ T \subseteq Nat
      BY FS_Subset
    <2>4. T # {}
      <3>1. {} \subseteq 0 .. 0 /\ 0 \in Nat
        OBVIOUS
      <3> QED BY <2>2, <3>1
    <2>5. PICK x \in T : TRUE
      BY <2>4
    <2>6. /\ T \ {x} \in SUBSET S /\ IsFiniteSet(T \ {x})
          /\ Cardinality(T \ {x}) = c - 1 /\ Cardinality(T \ {x}) \in Nat
      BY <2>2, <2>3, <2>5, FS_RemoveElement, FS_CardinalityType
    <2>7. c - 1 \notin C
      BY <2>1
    <2>8. ~ Open(T \ {x})
      BY <2>6, <2>7
    <2>9. PICK n \in Nat : T \ {x} \subseteq 0 .. n
      BY <2>8
    <2>10. x \in Nat /\ n + x \in Nat /\ T \subseteq 0 .. n + x
      BY <2>3, <2>5, <2>9
    <2> QED BY <2>2, <2>10
  <1>2. Cardinality(S) \in Nat /\ S \in SUBSET S
    BY FS_CardinalityType
  <1>3. ~ Open(S)
    BY <1>1, <1>2
  <1> QED BY <1>3

\* Top is a number no index is larger than.
LEMMA TopBounds == Top \in Nat /\ \A n \in Sizes : n <= Top
  <1> DEFINE S == {0} \cup Sizes
  <1>1. PICK m \in Nat : S \subseteq 0 .. m
    <2>1. PICK n \in Nat : Sizes \subseteq 0 .. n
      BY Bounded, ClientAssumption
    <2> QED BY <2>1
  <1> DEFINE T == {m - s : s \in S}
  <1>2. PICK x \in T : \A y \in T : x <= y
    <2>1. T \subseteq Nat
      <3>1. \A s \in S : m - s \in Nat
        BY <1>1
      <3> QED BY <3>1
    <2>2. T # {}
      OBVIOUS
    <2> HIDE DEF T
    <2> QED BY <2>1, <2>2, LeastOne
  <1>3. PICK s \in S : x = m - s
    BY <1>2
  <1>4. \A r \in S : s >= r
    <2> TAKE r \in S
    <2>1. m - r \in T
      OBVIOUS
    <2>2. m - s <= m - r
      BY <1>2, <1>3, <2>1
    <2>3. r \in Int /\ s \in Int
      BY <1>1
    <2> HIDE DEF S, T
    <2> QED BY <2>2, <2>3
  <1>5. Top \in S /\ \A r \in S : Top >= r
    BY <1>4 DEF Top, Max
  <1> QED BY <1>1, <1>5

LEMMA PairsInOrder == \E n \in Nat \ {0} : Pair = 1 .. n
  <1>1. Cardinality(Pair) \in Nat /\ Pair # {} /\ Pair = 1 .. Cardinality(Pair)
    BY ClientAssumption, FS_CardinalityType
  <1> QED BY <1>1

\* The newest of consecutive ids are those nearest to the last.
LEMMA NewestOf ==
  ASSUME NEW n \in Nat, NEW m \in Nat
  PROVE  Newest(1 .. n, m) = {t \in 1 .. n : n - t < m}
  <1>1. \A t \in 1 .. n : Cardinality({u \in 1 .. n : u > t}) = n - t
    <2> TAKE t \in 1 .. n
    <2>1. {u \in 1 .. n : u > t} = t + 1 .. n
      OBVIOUS
    <2>2. Cardinality(t + 1 .. n) = n - t
      <3>1. t + 1 \in Int /\ n \in Int
        OBVIOUS
      <3>2. Cardinality(t + 1 .. n) = IF t + 1 > n THEN 0 ELSE n - (t + 1) + 1
        BY <3>1, FS_Interval
      <3> QED BY <3>2
    <2> QED BY <2>1, <2>2
  <1> QED BY <1>1 DEF Newest

LEMMA IntervalSize ==
  ASSUME NEW l \in Nat, NEW h \in Nat, l <= h
  PROVE  Cardinality(l + 1 .. h) = h - l
  <1>1. l + 1 \in Int /\ h \in Int
    OBVIOUS
  <1>2. Cardinality(l + 1 .. h) = IF l + 1 > h THEN 0 ELSE h - (l + 1) + 1
    BY <1>1, FS_Interval
  <1> QED BY <1>2

LEMMA NoOverflow ==
  ASSUME NEW P \in Nat \ {0}, NEW k \in Nat, NEW q \in Nat, k * P < q * P
  PROVE  (k + 1) * P <= q * P /\ (k + 1) * P = k * P + P
  <1>1. k < q
    <2> SUFFICES ASSUME q <= k PROVE FALSE
      OBVIOUS
    <2>1. PICK d \in Nat : k = q + d
      <3>1. k - q \in Nat /\ k = q + (k - q)
        OBVIOUS
      <3> QED BY <3>1
    <2>2. k * P = q * P + d * P /\ d * P >= 0
      BY <2>1
    <2>3. k * P \in Nat /\ q * P \in Nat /\ d * P \in Nat
      OBVIOUS
    <2> QED BY <2>2, <2>3
  <1>2. PICK d \in Nat : q = k + 1 + d
    <2>1. q - (k + 1) \in Nat /\ q = k + 1 + (q - (k + 1))
      BY <1>1
    <2> QED BY <2>1
  <1>3. q * P = (k + 1) * P + d * P /\ d * P >= 0
    BY <1>2
  <1>4. (k + 1) * P = k * P + P
    OBVIOUS
  <1>5. (k + 1) * P \in Nat /\ q * P \in Nat /\ d * P \in Nat
    OBVIOUS
  <1> QED BY <1>3, <1>4, <1>5

\* A cap is so many pages.
LEMMA CapInPages == \E q \in Nat : Cap = q * PageSize
  <1>1. Cap \in Nat \ {0} /\ PageSize \in Nat \ {0} /\ Cap % PageSize = 0
    BY ClientAssumption
  <1>2. Cap = PageSize * (Cap \div PageSize) + (Cap % PageSize) /\ Cap \div PageSize \in Nat
    BY <1>1
  <1>3. Cap = (Cap \div PageSize) * PageSize
    BY <1>1, <1>2
  <1> QED BY <1>2, <1>3

-----------------------------------------------------------------------------
(* How far a walk has come                                                 *)

Size(p) == Cardinality(index[p])

\* The index of a pair holds the ids 1 .. Size(p).
IndexOK == \A p \in Pair : Size(p) \in Sizes /\ Size(p) \in Nat /\ index[p] = 1 .. Size(p)

\* Above h the slices before this one found everything, above l this one has:
\* every slice before this one was as large as the cap.
Reached(w, h, l) ==
  /\ h \in Nat /\ l \in Nat /\ l <= h /\ h <= Size(w.pair)
  /\ w.found = h + 1 .. Size(w.pair) /\ w.slice = l + 1 .. h
  /\ \A t \in index[w.pair] : t <= w.bound <=> t <= h
  /\ w.slices \in Nat /\ w.slices < MaxSlices /\ h + w.slices * Cap = Size(w.pair)

\* While its pages are asked for, a slice is so many pages and not at the cap.
Paging(w) == \E h, l : Reached(w, h, l) /\ h - l < Cap /\ \E k \in Nat : h - l = k * PageSize

\* One that was read is at the cap, or has nothing below it.
Sliced(w) == \E h, l : Reached(w, h, l) /\ (h - l = Cap \/ (l = 0 /\ h - l <= Cap))

Covered(w) == Newest(index[w.pair], Cap * MaxSlices) \subseteq w.found

Places == {"ask", "await", "slice", "next", "over"}

Shaped(w) ==
  /\ DOMAIN w = DOMAIN NoWalk
  /\ w.op \in Ops /\ w.at \in Places /\ w.product \in {"Latest", "Top"}

\* Where the walk of conversations is.
Conversing(w) ==
  /\ w.pair \in Pair /\ w.left \subseteq Pair /\ w.walked \subseteq Pair
  /\ w.at \in {"ask", "await"} /\ w.product = "Latest" => Paging(w)
  /\ w.at = "slice" => w.product = "Latest" /\ Sliced(w)
  /\ w.at \in {"ask", "await"} /\ w.product = "Top" => Covered(w)
  /\ w.at = "next" => Covered(w)

Whole(w) == \A p \in w.walked : {p} \X Newest(index[p], Cap * MaxSlices) \subseteq w.all

\* Only the walk of conversations has slices, and walks pairs.
WalkInv(w) ==
  /\ Shaped(w) /\ Whole(w)
  /\ IF w.op = "conversations" THEN Conversing(w) ELSE w.walked = {} /\ w.at \notin {"slice", "next"}

WholeInv == IndexOK /\ WalkInv(walk)

\* A pair begins with an empty slice below everything.
LEMMA Begins ==
  ASSUME IndexOK, NEW w, w.pair \in Pair, w.bound = Top, w.slice = {}, w.found = {}, w.slices = 0
  PROVE  Paging(w)
  <1> DEFINE n == Size(w.pair)
  <1>1. n \in Nat /\ n \in Sizes /\ index[w.pair] = 1 .. n
    BY DEF IndexOK
  <1>2. n <= Top /\ Top \in Nat
    BY <1>1, TopBounds
  <1>3. MaxSlices \in Nat \ {0} /\ Cap \in Nat \ {0} /\ PageSize \in Nat
    BY ClientAssumption
  <1> HIDE DEF n
  <1>4. n + 0 * Cap = n /\ n + 1 .. n = {} /\ n - n = 0 * PageSize /\ 0 \in Nat
    BY <1>1, <1>3
  <1>5. Reached(w, n, n)
    BY <1>1, <1>2, <1>3, <1>4 DEF Reached, n
  <1>6. n - n < Cap
    BY <1>1, <1>3
  <1> QED BY <1>4, <1>5, <1>6 DEF Paging

LEMMA InitWhole == Init => WholeInv
  <1> SUFFICES ASSUME Init PROVE WholeInv
    OBVIOUS
  <1>1. IndexOK
    <2> SUFFICES ASSUME NEW p \in Pair PROVE Size(p) \in Sizes /\ Size(p) \in Nat /\ index[p] = 1 .. Size(p)
      BY DEF IndexOK
    <2>1. PICK n \in Sizes : index[p] = 1 .. n
      BY DEF Init
    <2>2. n \in Nat
      BY <2>1, ClientAssumption
    <2>3. Cardinality(1 .. n) = n
      <3>1. 0 + 1 = 1 /\ 0 \in Nat /\ 0 <= n /\ n - 0 = n
        BY <2>2
      <3>2. Cardinality(0 + 1 .. n) = n - 0
        BY <2>2, <3>1, IntervalSize
      <3> QED BY <3>1, <3>2
    <2> QED BY <2>1, <2>2, <2>3 DEF Size
  <1>2. PICK op \in Ops, digits \in BOOLEAN :
          walk = [NoWalk EXCEPT !.op = op, !.at = "ask", !.digits = digits, !.bound = Top,
                                !.left = IF op = "conversations" THEN Pair ELSE Newest(index[1], PageSize + 1)]
    BY DEF Init
  <1>3. /\ DOMAIN walk = DOMAIN NoWalk /\ walk.op = op /\ walk.at = "ask" /\ walk.product = "Latest"
        /\ walk.pair = 1 /\ walk.walked = {} /\ walk.bound = Top /\ walk.slice = {} /\ walk.found = {}
        /\ walk.slices = 0 /\ walk.left = IF op = "conversations" THEN Pair ELSE Newest(index[1], PageSize + 1)
    BY <1>2 DEF NoWalk
  <1>4. 1 \in Pair
    BY PairsInOrder
  <1>5. Paging(walk)
    BY <1>1, <1>3, <1>4, Begins
  <1> QED BY <1>1, <1>3, <1>4, <1>5 DEF WholeInv, WalkInv, Shaped, Places, Conversing, Whole

-----------------------------------------------------------------------------
(* The steps                                                               *)

LEMMA Carried ==
  ASSUME UNCHANGED index, IndexOK, WalkInv(walk')
  PROVE  WholeInv'
  <1>1. IndexOK'
    BY DEF IndexOK, Size
  <1>2. Shaped(walk)' /\ Whole(walk)'
    BY DEF WalkInv, Shaped, Whole, Newest
  <1>3. Paging(walk') => Paging(walk)'
    BY DEF Paging, Reached, Size
  <1>4. Sliced(walk') => Sliced(walk)'
    BY DEF Sliced, Reached, Size
  <1>5. Covered(walk') => Covered(walk)'
    BY DEF Covered, Newest
  <1>6. Conversing(walk') => Conversing(walk)'
    BY <1>3, <1>4, <1>5 DEF Conversing
  <1> QED BY <1>1, <1>2, <1>6 DEF WholeInv, WalkInv

\* The next pair, or the end.
LEMMA AdvanceWhole ==
  ASSUME IndexOK, NEW w, Shaped(w), Whole(w), w.op = "conversations",
         w.pair \in Pair, w.left \subseteq Pair, w.walked \subseteq Pair
  PROVE  WalkInv(Advance(w))
  <1> DEFINE left == w.left \ {w.pair}
  <1>1. CASE left # {}
    <2> DEFINE v == [w EXCEPT !.left = left, !.pair = Min(left), !.product = "Latest", !.bound = Top, !.slice = {},
                              !.found = {}, !.slices = 0, !.at = "ask"]
    <2>1. Advance(w) = v
      BY <1>1 DEF Advance
    <2>2. Min(left) \in Pair
      <3>1. left \subseteq Nat
        BY PairsInOrder
      <3> QED BY <1>1, <3>1, MinOf
    <2>3. /\ DOMAIN v = DOMAIN NoWalk /\ v.op = w.op /\ v.at = "ask" /\ v.product = "Latest"
          /\ v.pair = Min(left) /\ v.left = left /\ v.walked = w.walked /\ v.all = w.all
          /\ v.bound = Top /\ v.slice = {} /\ v.found = {} /\ v.slices = 0
      BY DEF Shaped, NoWalk
    <2> HIDE DEF v, left
    <2>4. Paging(v)
      BY <2>2, <2>3, Begins
    <2>5. left \subseteq Pair
      BY DEF left
    <2> QED BY <2>1, <2>2, <2>3, <2>4, <2>5 DEF WalkInv, Shaped, Places, Conversing, Whole
  <1>2. CASE left = {}
    <2> DEFINE v == [w EXCEPT !.left = {}, !.at = "over", !.out = IF w.walked = {} THEN "raised" ELSE "ok"]
    <2>1. Advance(w) = v
      BY <1>2 DEF Advance
    <2>2. /\ DOMAIN v = DOMAIN NoWalk /\ v.op = w.op /\ v.at = "over" /\ v.product = w.product
          /\ v.pair = w.pair /\ v.left = {} /\ v.walked = w.walked /\ v.all = w.all
      BY DEF Shaped, NoWalk
    <2> HIDE DEF v, left
    <2> QED BY <2>1, <2>2 DEF WalkInv, Shaped, Places, Conversing, Whole
  <1> QED BY <1>1, <1>2

\* A pair that was walked.
LEMMA NextPairWhole ==
  ASSUME WholeInv, NextPair
  PROVE  WholeInv'
  <1> DEFINE w == [walk EXCEPT !.walked = @ \cup {walk.pair}, !.all = @ \cup ({walk.pair} \X walk.found)]
  <1>1. walk' = Advance(w) /\ index' = index /\ walk.at = "next"
    BY DEF NextPair
  <1>2. walk.op = "conversations" /\ Conversing(walk) /\ Shaped(walk) /\ Whole(walk) /\ IndexOK /\ Covered(walk)
    BY <1>1 DEF WholeInv, WalkInv, Conversing
  <1>3. /\ DOMAIN w = DOMAIN NoWalk /\ w.op = walk.op /\ w.at = walk.at /\ w.product = walk.product
        /\ w.pair = walk.pair /\ w.left = walk.left
        /\ w.walked = walk.walked \cup {walk.pair} /\ w.all = walk.all \cup ({walk.pair} \X walk.found)
    BY <1>2 DEF Shaped, NoWalk
  <1> HIDE DEF w
  <1>4. Whole(w)
    BY <1>2, <1>3 DEF Whole, Covered
  <1>5. Shaped(w) /\ w.pair \in Pair /\ w.left \subseteq Pair /\ w.walked \subseteq Pair
    BY <1>2, <1>3 DEF Shaped, Conversing
  <1>6. WalkInv(walk')
    BY <1>1, <1>2, <1>3, <1>4, <1>5, AdvanceWhole
  <1> QED BY <1>1, <1>2, <1>6, Carried

LEMMA PairFailsWhole ==
  ASSUME WholeInv, PairFails
  PROVE  WholeInv'
  <1>1. walk.op = "conversations" /\ index' = index
    BY DEF PairFails
  <1>2. Conversing(walk) /\ Shaped(walk) /\ Whole(walk) /\ IndexOK
    BY <1>1 DEF WholeInv, WalkInv
  <1>3. WalkInv(walk')
    <2>1. CASE walk' = Advance(walk)
      BY <1>1, <1>2, <2>1, AdvanceWhole DEF Conversing
    <2>2. CASE walk' = [walk EXCEPT !.at = "over", !.out = "limited"]
      <3>1. /\ DOMAIN walk' = DOMAIN NoWalk /\ walk'.op = walk.op /\ walk'.at = "over" /\ walk'.product = walk.product
            /\ walk'.pair = walk.pair /\ walk'.left = walk.left /\ walk'.walked = walk.walked /\ walk'.all = walk.all
        BY <1>2, <2>2 DEF Shaped, NoWalk
      <3> QED BY <1>1, <1>2, <3>1 DEF WalkInv, Shaped, Places, Conversing, Whole
    <2> QED BY <2>1, <2>2 DEF PairFails
  <1> QED BY <1>1, <1>2, <1>3, Carried

\* A page of the slice.
LEMMA PageWhole ==
  ASSUME WholeInv, Page
  PROVE  WholeInv'
  <1> DEFINE below == {t \in index[walk.pair] : t <= walk.bound}
             page == Newest(below \ walk.slice, PageSize)
             slice == walk.slice \cup page
  <1>1. /\ walk.op = "conversations" /\ walk.at = "await" /\ walk.product = "Latest" /\ index' = index
    BY DEF Page, Answered
  <1>2. Conversing(walk) /\ Shaped(walk) /\ Whole(walk) /\ IndexOK /\ Paging(walk)
    BY <1>1 DEF WholeInv, WalkInv, Conversing
  <1>3. PICK h, l : Reached(walk, h, l) /\ h - l < Cap /\ \E k \in Nat : h - l = k * PageSize
    BY <1>2 DEF Paging
  <1>4. PICK k \in Nat : h - l = k * PageSize
    BY <1>3
  <1>5. /\ h \in Nat /\ l \in Nat /\ l <= h /\ h <= Size(walk.pair) /\ walk.slice = l + 1 .. h
        /\ Size(walk.pair) \in Nat /\ index[walk.pair] = 1 .. Size(walk.pair)
        /\ \A t \in index[walk.pair] : t <= walk.bound <=> t <= h
    BY <1>2, <1>3 DEF Reached, IndexOK, Conversing
  <1>6. PageSize \in Nat \ {0} /\ Cap \in Nat \ {0}
    BY ClientAssumption
  <1>7. below = 1 .. h
    BY <1>5
  <1>8. below \ walk.slice = 1 .. l
    BY <1>5, <1>7
  <1>9. page = {t \in 1 .. l : l - t < PageSize}
    BY <1>5, <1>6, <1>8, NewestOf
  <1>10. PICK cursor \in BOOLEAN :
           /\ Cardinality(slice) = Cap => ~cursor
           /\ below # slice /\ Cardinality(slice) < Cap => cursor
           /\ walk' = [walk EXCEPT !.slice = slice,
                                   !.at = IF Cardinality(page) = PageSize /\ cursor THEN "ask" ELSE "slice"]
    BY Zenon DEF Page
  <1>11. /\ DOMAIN walk' = DOMAIN NoWalk /\ walk'.op = walk.op /\ walk'.product = walk.product
         /\ walk'.pair = walk.pair /\ walk'.left = walk.left /\ walk'.walked = walk.walked /\ walk'.all = walk.all
         /\ walk'.bound = walk.bound /\ walk'.found = walk.found /\ walk'.slices = walk.slices
         /\ walk'.slice = slice
         /\ walk'.at = IF Cardinality(page) = PageSize /\ cursor THEN "ask" ELSE "slice"
    BY <1>2, <1>10 DEF Shaped, NoWalk
  <1> HIDE DEF page, slice, below
  <1>12. \/ Paging(walk') /\ walk'.at = "ask"
         \/ Sliced(walk') /\ walk'.at = "slice"
    <2>1. CASE PageSize <= l
      <3> DEFINE m == l - PageSize
      <3>1. m \in Nat /\ m <= l /\ m <= h
        BY <1>5, <1>6, <2>1
      <3>2. page = m + 1 .. l /\ slice = m + 1 .. h
        BY <1>5, <1>6, <1>9, <2>1 DEF slice
      <3>3. Cardinality(page) = PageSize /\ Cardinality(slice) = h - m
        <4>1. l - m = PageSize
          BY <1>5, <1>6
        <4> HIDE DEF m
        <4> QED BY <1>5, <3>1, <3>2, <4>1, IntervalSize
      <3>4. PICK q \in Nat : Cap = q * PageSize
        BY CapInPages
      <3>5. (k + 1) * PageSize <= Cap /\ h - m = (k + 1) * PageSize
        <4>1. k * PageSize < q * PageSize
          BY <1>3, <1>4, <3>4
        <4>2. (k + 1) * PageSize <= q * PageSize /\ (k + 1) * PageSize = k * PageSize + PageSize
          BY <1>6, <4>1, NoOverflow
        <4>3. h - m = (h - l) + PageSize
          BY <1>5, <1>6
        <4> QED BY <1>4, <3>4, <4>2, <4>3
      <3>6. k + 1 \in Nat /\ h - m <= Cap
        BY <3>5
      <3> HIDE DEF m
      <3>7. Reached(walk', h, m)
        BY <1>3, <1>5, <1>11, <3>1, <3>2 DEF Reached
      <3>8. CASE cursor
        <4>1. h - m # Cap /\ walk'.at = "ask"
          BY <1>10, <1>11, <3>3, <3>8
        <4>2. h - m < Cap
          BY <1>5, <1>6, <3>1, <3>6, <4>1
        <4>3. \E j \in Nat : h - m = j * PageSize
          BY <3>5, <3>6
        <4> QED BY <3>7, <4>1, <4>2, <4>3 DEF Paging
      <3>9. CASE ~cursor
        <4>1. walk'.at = "slice"
          BY <1>11, <3>9
        <4>2. h - m = Cap \/ m = 0
          <5> SUFFICES ASSUME h - m # Cap PROVE m = 0
            OBVIOUS
          <5>1. h - m < Cap
            BY <1>5, <1>6, <3>1, <3>6
          <5>2. below = slice
            BY <1>10, <3>3, <3>9, <5>1
          <5>3. 1 .. h = m + 1 .. h
            BY <1>7, <3>2, <5>2
          <5>4. h > m
            BY <1>5, <1>6, <2>1 DEF m
          <5> QED BY <1>5, <3>1, <5>3, <5>4
        <4> QED BY <3>6, <3>7, <4>1, <4>2 DEF Sliced
      <3> QED BY <3>8, <3>9
    <2>2. CASE l < PageSize
      <3>1. page = 1 .. l /\ slice = 1 .. h
        BY <1>5, <1>6, <1>9, <2>2 DEF slice
      <3>2. 0 \in Nat /\ 0 + 1 = 1 /\ l - 0 = l /\ 0 <= l
        BY <1>5
      <3>3. Cardinality(page) # PageSize
        <4>1. Cardinality(0 + 1 .. l) = l - 0
          BY <1>5, <3>2, IntervalSize
        <4> QED BY <1>5, <1>6, <2>2, <3>1, <3>2, <4>1
      <3>4. walk'.at = "slice"
        BY <1>11, <3>3
      <3>5. Reached(walk', h, 0)
        BY <1>3, <1>5, <1>11, <3>1, <3>2 DEF Reached
      <3>6. h - 0 <= Cap
        <4>1. PICK q \in Nat : Cap = q * PageSize
          BY CapInPages
        <4>2. k * PageSize < q * PageSize
          BY <1>3, <1>4, <4>1
        <4>3. (k + 1) * PageSize <= q * PageSize /\ (k + 1) * PageSize = k * PageSize + PageSize
          BY <1>6, <4>2, NoOverflow
        <4>4. h - l + PageSize <= Cap
          BY <1>4, <4>1, <4>3
        <4> QED BY <1>5, <1>6, <2>2, <4>4
      <3> QED BY <3>4, <3>5, <3>6 DEF Sliced
    <2> QED BY <1>5, <1>6, <2>1, <2>2
  <1>13. WalkInv(walk')
    BY <1>1, <1>2, <1>11, <1>12 DEF WalkInv, Shaped, Places, Conversing, Whole
  <1> QED BY <1>1, <1>2, <1>13, Carried

\* The end of a slice.
LEMMA SliceWhole ==
  ASSUME WholeInv, Slice
  PROVE  WholeInv'
  <1> DEFINE fresh == walk.slice \ walk.found
             more == fresh # {} /\ Cardinality(walk.slice) = Cap /\ walk.slices + 1 < MaxSlices
             none == walk.found \cup fresh = {}
  <1>1. walk.at = "slice" /\ index' = index
    BY DEF Slice
  <1>2. walk.op = "conversations" /\ Conversing(walk) /\ Shaped(walk) /\ Whole(walk) /\ IndexOK /\ Sliced(walk)
    BY <1>1 DEF WholeInv, WalkInv, Conversing
  <1>3. walk.product = "Latest"
    BY <1>1, <1>2 DEF Conversing
  <1>4. PICK h, l : Reached(walk, h, l) /\ (h - l = Cap \/ (l = 0 /\ h - l <= Cap))
    BY <1>2 DEF Sliced
  <1>5. /\ h \in Nat /\ l \in Nat /\ l <= h /\ h <= Size(walk.pair)
        /\ walk.slice = l + 1 .. h /\ walk.found = h + 1 .. Size(walk.pair)
        /\ Size(walk.pair) \in Nat /\ index[walk.pair] = 1 .. Size(walk.pair)
        /\ walk.slices \in Nat /\ walk.slices < MaxSlices /\ h + walk.slices * Cap = Size(walk.pair)
    BY <1>2, <1>4 DEF Reached, IndexOK, Conversing
  <1>6. Cap \in Nat \ {0} /\ MaxSlices \in Nat \ {0}
    BY ClientAssumption
  <1>7. fresh = l + 1 .. h /\ walk.found \cup fresh = l + 1 .. Size(walk.pair)
    BY <1>5
  <1>8. Cardinality(walk.slice) = h - l
    BY <1>5, IntervalSize
  <1>9. walk' = [walk EXCEPT !.found = @ \cup fresh, !.slice = {}, !.slices = @ + 1,
                             !.bound = IF more THEN Min(walk.slice) - 1 ELSE @,
                             !.product = IF ~more /\ none THEN "Top" ELSE @,
                             !.at = IF more \/ none THEN "ask" ELSE "next"]
    BY DEF Slice
  <1>10. /\ DOMAIN walk' = DOMAIN NoWalk /\ walk'.op = walk.op /\ walk'.pair = walk.pair /\ walk'.left = walk.left
         /\ walk'.walked = walk.walked /\ walk'.all = walk.all
         /\ walk'.found = walk.found \cup fresh /\ walk'.slice = {} /\ walk'.slices = walk.slices + 1
         /\ walk'.bound = (IF more THEN Min(walk.slice) - 1 ELSE walk.bound)
         /\ walk'.product = (IF ~more /\ none THEN "Top" ELSE walk.product)
         /\ walk'.at = (IF more \/ none THEN "ask" ELSE "next")
    BY <1>2, <1>9 DEF Shaped, NoWalk
  <1>11. (walk.slices + 1) * Cap = walk.slices * Cap + Cap /\ walk.slices * Cap \in Nat
    BY <1>5, <1>6
  <1>12. CASE more
    <2>1. h - l = Cap /\ walk.slices + 1 < MaxSlices
      BY <1>8, <1>12
    <2>2. Min(walk.slice) = l + 1
      <3>1. l + 1 \in Nat /\ l + 1 <= h
        BY <1>5, <1>6, <2>1
      <3>2. /\ walk.slice \subseteq Nat /\ walk.slice # {} /\ l + 1 \in walk.slice
            /\ \A t \in walk.slice : t \in Nat /\ l + 1 <= t
        <4>1. walk.slice = l + 1 .. h /\ h \in Nat /\ l \in Nat
          BY <1>5
        <4> QED BY <3>1, <4>1
      <3>3. Min(walk.slice) \in walk.slice /\ Min(walk.slice) <= l + 1
        BY <3>2, MinOf
      <3>4. Min(walk.slice) \in Nat /\ l + 1 <= Min(walk.slice)
        BY <3>2, <3>3
      <3> QED BY <3>1, <3>3, <3>4
    <2>3. walk'.bound = l /\ walk'.at = "ask" /\ walk'.product = "Latest"
      <3>1. Min(walk.slice) - 1 = l
        BY <1>5, <2>2
      <3>2. walk'.at = "ask" /\ walk'.product = walk.product
        BY <1>10, <1>12
      <3>3. walk'.bound = Min(walk.slice) - 1
        BY <1>10, <1>12
      <3> HIDE DEF more, none, fresh
      <3> QED BY <1>3, <3>1, <3>2, <3>3
    <2>4. l + 1 .. l = {} /\ l <= l /\ l <= Size(walk.pair) /\ walk.slices + 1 \in Nat
      BY <1>5
    <2>5. l + (walk.slices + 1) * Cap = Size(walk.pair)
      BY <1>5, <1>6, <1>11, <2>1
    <2>6. Reached(walk', l, l)
      BY <1>5, <1>7, <1>10, <2>1, <2>3, <2>4, <2>5 DEF Reached
    <2>7. l - l < Cap /\ l - l = 0 * PageSize /\ 0 \in Nat
      <3>1. PageSize \in Nat
        BY ClientAssumption
      <3> QED BY <1>5, <1>6, <3>1
    <2>8. Paging(walk')
      BY <2>6, <2>7 DEF Paging
    <2>9. WalkInv(walk')
      BY <1>2, <1>10, <2>3, <2>8 DEF WalkInv, Shaped, Places, Conversing, Whole
    <2> QED BY <1>1, <1>2, <2>9, Carried
  <1>13. CASE ~more
    <2>1. l = 0 \/ Size(walk.pair) - l = Cap * MaxSlices
      <3> SUFFICES ASSUME l # 0 PROVE Size(walk.pair) - l = Cap * MaxSlices
        OBVIOUS
      <3>1. h - l = Cap /\ fresh # {}
        BY <1>4, <1>5, <1>6, <1>7
      <3>2. walk.slices + 1 = MaxSlices
        BY <1>5, <1>6, <1>8, <1>13, <3>1
      <3>3. (walk.slices + 1) * Cap = Size(walk.pair) - l
        BY <1>5, <1>6, <1>11, <3>1
      <3> QED BY <1>6, <3>2, <3>3
    <2>2. Covered(walk')
      <3>1. Cap * MaxSlices \in Nat
        BY <1>6
      <3>2. Newest(index[walk.pair], Cap * MaxSlices) =
              {t \in 1 .. Size(walk.pair) : Size(walk.pair) - t < Cap * MaxSlices}
        BY <1>5, <3>1, NewestOf
      <3>3. ASSUME NEW t \in 1 .. Size(walk.pair), Size(walk.pair) - t < Cap * MaxSlices
            PROVE  t \in l + 1 .. Size(walk.pair)
        BY <1>5, <2>1, <3>1, <3>3
      <3> QED BY <1>7, <1>10, <3>2, <3>3 DEF Covered
    <2>3. \/ walk'.at = "ask" /\ walk'.product = "Top"
          \/ walk'.at = "next" /\ walk'.product = "Latest"
      BY <1>3, <1>10, <1>13
    <2>4. WalkInv(walk')
      BY <1>2, <1>10, <2>2, <2>3 DEF WalkInv, Shaped, Places, Conversing, Whole
    <2> QED BY <1>1, <1>2, <2>4, Carried
  <1> QED BY <1>12, <1>13

\* Requests, and the other two walks.
LEMMA OthersWhole ==
  ASSUME WholeInv, \/ \E answer \in Answers \cup {"ok"} : Send(answer) \/ Resend(answer)
                   \/ Ask \/ TopPage \/ ThreadPage \/ BatchChunk \/ Raises \/ UNCHANGED vars
  PROVE  WholeInv'
  <1>1. IndexOK /\ WalkInv(walk) /\ Shaped(walk)
    BY DEF WholeInv, WalkInv
  <1>2. CASE \/ \E answer \in Answers \cup {"ok"} : Send(answer) \/ Resend(answer)
             \/ UNCHANGED vars
    <2>1. index' = index /\ walk' = walk
      BY <1>2 DEF Send, Resend, vars
    <2> QED BY <1>1, <2>1, Carried
  <1>3. CASE Ask
    <2>1. index' = index /\ walk' = [walk EXCEPT !.at = "await"] /\ walk.at = "ask"
      BY <1>3 DEF Ask
    <2>2. /\ DOMAIN walk' = DOMAIN NoWalk /\ walk'.op = walk.op /\ walk'.at = "await" /\ walk'.product = walk.product
          /\ walk'.pair = walk.pair /\ walk'.left = walk.left /\ walk'.walked = walk.walked /\ walk'.all = walk.all
          /\ walk'.bound = walk.bound /\ walk'.slice = walk.slice /\ walk'.found = walk.found
          /\ walk'.slices = walk.slices
      BY <1>1, <2>1 DEF Shaped, NoWalk
    <2>3. Paging(walk) => Paging(walk')
      BY <2>2 DEF Paging, Reached
    <2>4. WalkInv(walk')
      BY <1>1, <2>1, <2>2, <2>3 DEF WalkInv, Shaped, Places, Conversing, Whole, Covered
    <2> QED BY <1>1, <2>1, <2>4, Carried
  <1>4. CASE TopPage
    <2>1. /\ index' = index /\ walk' = [walk EXCEPT !.at = "next"]
          /\ walk.op = "conversations" /\ walk.at = "await" /\ walk.product = "Top"
      BY <1>4 DEF TopPage, Answered
    <2>2. /\ DOMAIN walk' = DOMAIN NoWalk /\ walk'.op = walk.op /\ walk'.at = "next" /\ walk'.product = walk.product
          /\ walk'.pair = walk.pair /\ walk'.left = walk.left /\ walk'.walked = walk.walked /\ walk'.all = walk.all
          /\ walk'.found = walk.found
      BY <1>1, <2>1 DEF Shaped, NoWalk
    <2>3. WalkInv(walk')
      BY <1>1, <2>1, <2>2 DEF WalkInv, Shaped, Places, Conversing, Whole, Covered
    <2> QED BY <1>1, <2>1, <2>3, Carried
  <1>5. CASE ThreadPage \/ BatchChunk \/ Raises
    <2>1. /\ index' = index /\ walk.op \in {"thread", "batch"}
          /\ DOMAIN walk' = DOMAIN NoWalk /\ walk'.op = walk.op /\ walk'.at \in {"ask", "over"}
          /\ walk'.product = walk.product /\ walk'.walked = walk.walked
      <3>1. CASE ThreadPage
        <4>1. \E page, relevant, cursor :
                walk' = [walk EXCEPT !.left = @ \ page, !.found = @ \cup page, !.page = @ + 1,
                            !.at = IF cursor /\ page # {} /\ (walk.page = 0 \/ relevant) THEN "ask" ELSE "over"]
          BY <3>1, Zenon DEF ThreadPage
        <4>2. index' = index /\ walk.op = "thread"
          BY <3>1 DEF ThreadPage
        <4> QED BY <1>1, <4>1, <4>2 DEF Shaped, NoWalk
      <3>2. CASE BatchChunk
        <4>1. \E chunk, served :
                walk' = [walk EXCEPT !.left = @ \ chunk, !.found = @ \cup served, !.missing = @ \cup (chunk \ served),
                            !.at = IF walk.left \ chunk = {} THEN "over" ELSE "ask"]
          BY <3>2, Zenon DEF BatchChunk
        <4>2. index' = index /\ walk.op = "batch"
          BY <3>2 DEF BatchChunk
        <4> QED BY <1>1, <4>1, <4>2 DEF Shaped, NoWalk
      <3>3. CASE Raises
        <4>1. \E out : walk' = [walk EXCEPT !.at = "over", !.out = out]
          BY <3>3 DEF Raises
        <4>2. index' = index /\ walk.op \in {"thread", "batch"}
          BY <3>3 DEF Raises
        <4> QED BY <1>1, <4>1, <4>2 DEF Shaped, NoWalk
      <3> QED BY <1>5, <3>1, <3>2, <3>3
    <2>2. WalkInv(walk')
      BY <1>1, <2>1 DEF WalkInv, Shaped, Places, Whole
    <2> QED BY <1>1, <2>1, <2>2, Carried
  <1> QED BY <1>2, <1>3, <1>4, <1>5

LEMMA NextWhole ==
  ASSUME WholeInv, [Next]_vars
  PROVE  WholeInv'
  BY NextPairWhole, PairFailsWhole, PageWhole, SliceWhole, OthersWhole DEF Next

\* Of a conversation that counts as walked, all was found that MaxSlices slices
\* reach: no page, cap or step from one slice to the next loses a tweet, however
\* requests fail and are made again between them (client.py:676-682).
THEOREM ConversationsAreWhole == Spec => []WalkedIsWhole
  <1>1. WholeInv => WalkedIsWhole
    BY DEF WholeInv, WalkInv, Whole, WalkedIsWhole
  <1> QED BY <1>1, InitWhole, NextWhole, PTL DEF Spec

-----------------------------------------------------------------------------
(* A call to a model                                                       *)

CONSTANTS Clients, MaxRetries, MaxTokens

VARIABLES client, raw, thread, call

V == INSTANCE ModelClient

\* There is a try for each turn.
Tries == MaxRetries \in Nat \ {0} /\ MaxTokens \in Nat

Results == {V!NoResult} \cup [status : V!Statuses, usage : Nat, why : BOOLEAN]

Calls == [at : {"ask", "wait", "over", "raised"}, turn : 1 .. 2, attempt : 1 .. MaxRetries, asked : Nat, billed : Nat,
          kept : Nat, reply : SUBSET V!Replies, result : Results]

CallTyped ==
  /\ client \in Clients /\ raw \in BOOLEAN /\ thread \in BOOLEAN /\ call \in Calls
  /\ client # "vertex" => ~raw

\* The tries of the turns gone by, and of this one.
Spent == IF call.turn = 1 THEN 0 ELSE MaxRetries

Counted ==
  /\ call.at = "ask" => call.asked < Spent + call.attempt
  /\ call.asked <= Spent + call.attempt
  /\ client = "vertex" /\ call.at = "wait" => call.attempt < MaxRetries

\* Up to its result, what a call of Vertex was billed is what its first turn kept.
Billed == client = "vertex" /\ call.at \in {"ask", "wait"} => call.billed = call.kept

Kept == call.turn = 1 => call.kept = 0

CallInv == CallTyped /\ Counted /\ Billed /\ Kept /\ V!SpendIsWhole /\ V!OnlyAnswersSucceed

\* What a call that ends is made of.
LEMMA OverIs ==
  ASSUME NEW c \in Calls, NEW status \in V!Statuses, NEW usage \in Nat
  PROVE  /\ V!Over(c, status, usage) \in Calls
         /\ V!Over(c, status, usage).at = "over"
         /\ V!Over(c, status, usage).turn = c.turn
         /\ V!Over(c, status, usage).attempt = c.attempt
         /\ V!Over(c, status, usage).asked = c.asked
         /\ V!Over(c, status, usage).billed = c.billed
         /\ V!Over(c, status, usage).kept = c.kept
         /\ V!Over(c, status, usage).reply = c.reply
         /\ V!Over(c, status, usage).result.status = status
         /\ client = "vertex" => V!Over(c, status, usage).result.usage = usage
         /\ client = "vertex" => V!Over(c, status, usage).result.why = (status # "success")
  <1>1. V!Result(status, usage) \in Results
    BY DEF V!Result, Results
  <1>2. V!Result(status, usage).status = status
    BY DEF V!Result
  <1>3. client = "vertex" => V!Result(status, usage).usage = usage
    BY DEF V!Result
  <1>4. client = "vertex" => V!Result(status, usage).why = (status # "success")
    BY DEF V!Result
  <1> QED BY <1>1, <1>2, <1>3, <1>4 DEF V!Over, Calls

\* A call that goes on elsewhere is the same call.
LEMMA AtIs ==
  ASSUME NEW c \in Calls, NEW at \in {"ask", "wait", "over", "raised"}
  PROVE  /\ [c EXCEPT !.at = at] \in Calls
         /\ [c EXCEPT !.at = at].at = at
         /\ [c EXCEPT !.at = at].turn = c.turn
         /\ [c EXCEPT !.at = at].attempt = c.attempt
         /\ [c EXCEPT !.at = at].asked = c.asked
         /\ [c EXCEPT !.at = at].billed = c.billed
         /\ [c EXCEPT !.at = at].kept = c.kept
  BY DEF Calls

\* Where a try comes to nothing, the call keeps what it had.
LEMMA TryGone ==
  ASSUME Tries, CallInv, call.at = "ask", UNCHANGED <<client, raw, thread>>, call' \in Calls,
         call'.turn = call.turn, call'.attempt = call.attempt, call'.asked = call.asked + 1, call'.kept = call.kept,
         \/ call'.at = "raised"
         \/ call'.at = "wait" /\ (client = "vertex" => call.attempt < MaxRetries /\ call'.billed = call.billed)
         \/ /\ call'.at = "over" /\ call'.result.status = "failed"
            /\ client = "vertex" => call'.result.why /\ call'.result.usage = call.kept /\ call'.billed = call.billed
  PROVE  CallInv'
  <1>1. CallTyped' /\ Kept'
    BY DEF CallInv, CallTyped, Kept
  <1>2. Counted'
    <2>1. call.asked \in Nat /\ call.attempt \in Nat /\ Spent \in Nat
      BY DEF CallInv, CallTyped, Calls, Spent, Tries
    <2>2. call.asked < Spent + call.attempt /\ Spent' = Spent
      BY DEF CallInv, Counted, Spent
    <2> QED BY <2>1, <2>2 DEF Counted
  <1>3. Billed' /\ V!SpendIsWhole' /\ V!OnlyAnswersSucceed'
    BY DEF CallInv, Billed, V!SpendIsWhole, V!OnlyAnswersSucceed
  <1> QED BY <1>1, <1>2, <1>3 DEF CallInv

LEMMA InitCall ==
  ASSUME Tries, V!Init
  PROVE  CallInv
  <1>1. V!NoResult \in Results
    BY DEF Results
  <1>2. call \in Calls
    BY <1>1 DEF Tries, V!Init, Calls
  <1> QED BY <1>2 DEF Tries, V!Init, CallInv, CallTyped, Counted, Spent, Billed, Kept, V!SpendIsWhole, V!OnlyAnswersSucceed

\* What a reply that is not looked at again comes to.
LEMMA VerdictIs ==
  ASSUME NEW r \in V!Replies
  PROVE  /\ V!Verdict(r) \in V!Statuses
         /\ client = "vertex" /\ V!Verdict(r) = "success" =>
              r.finish \notin {"cut", "withheld"} /\ (r.parts = "answer" \/ (~thread /\ r.parts = "prose"))
  <1>1. V!StatusWhole(r) \in V!Statuses /\ V!ReadResponse(r) \in V!Statuses
    BY DEF V!StatusWhole, V!ReadResponse, V!Statuses
  <1>2. V!Verdict(r) \in V!Statuses
    BY <1>1 DEF V!Verdict, V!Statuses
  <1>3. ASSUME client = "vertex", V!Verdict(r) = "success"
        PROVE  r.finish \notin {"cut", "withheld"} /\ (r.parts = "answer" \/ (~thread /\ r.parts = "prose"))
    <2>1. V!ReadResponse(r) = "success" /\ V!Described(r)
      BY <1>3 DEF V!Verdict
    <2>2. r.kind = "candidate" /\ r.finish \notin {"cut", "withheld"} /\ r.parts # "none"
      BY <2>1 DEF V!ReadResponse, V!StatusWhole, V!Replies, V!Candidate
    <2>3. r \in V!Candidate
      BY <2>2 DEF V!Replies
    <2> QED BY <2>1, <2>2, <2>3 DEF V!Candidate, V!Described
  <1> QED BY <1>2, <1>3

LEMMA FailCall ==
  ASSUME Tries, CallInv, NEW e \in V!Failures, V!Fail(e)
  PROVE  CallInv'
  <1> DEFINE c == [call EXCEPT !.asked = @ + 1, !.reply = {}]
  <1>1. call \in Calls /\ call.at = "ask" /\ UNCHANGED <<client, raw, thread>>
    BY DEF CallInv, CallTyped, V!Fail
  <1>2. c \in Calls /\ c.at = "ask" /\ c.turn = call.turn /\ c.attempt = call.attempt /\ c.asked = call.asked + 1
        /\ c.billed = call.billed /\ c.kept = call.kept
    <2>1. {} \in SUBSET V!Replies /\ call.asked + 1 \in Nat
      BY <1>1 DEF Calls
    <2>2. [call EXCEPT !.asked = call.asked + 1, !.reply = {}] \in Calls
      <3>1. \A n \in Nat, R \in SUBSET V!Replies : [call EXCEPT !.asked = n, !.reply = R] \in Calls
        BY <1>1 DEF Calls
      <3> QED BY <2>1, <3>1
    <2>3. c.at = "ask" /\ c.turn = call.turn /\ c.attempt = call.attempt /\ c.asked = call.asked + 1
          /\ c.billed = call.billed /\ c.kept = call.kept
      BY <1>1 DEF Calls
    <2> QED BY <2>2, <2>3
  <1>3. call' = CASE client = "vertex" /\ e = "drop" -> [c EXCEPT !.at = "raised"]
                  [] V!TriedAgain(e) -> [c EXCEPT !.at = "wait"]
                  [] OTHER -> V!Over(c, "failed", call.kept)
    BY DEF V!Fail
  <1> HIDE DEF c
  <1>4. CASE client = "vertex" /\ e = "drop"
    <2>1. ~V!TriedAgain(e)
      BY <1>4 DEF V!TriedAgain
    <2>2. call' = [c EXCEPT !.at = "raised"]
      BY <1>3, <1>4, <2>1
    <2>3. call' \in Calls /\ call'.at = "raised" /\ call'.turn = c.turn /\ call'.attempt = c.attempt
          /\ call'.asked = c.asked /\ call'.kept = c.kept
      BY <1>2, <2>2, AtIs
    <2> QED BY <1>1, <1>2, <2>3, TryGone
  <1>5. CASE ~(client = "vertex" /\ e = "drop") /\ V!TriedAgain(e)
    <2>1. call' = [c EXCEPT !.at = "wait"]
      BY <1>3, <1>5
    <2>2. client = "vertex" => call.attempt < MaxRetries
      BY <1>1, <1>5 DEF V!TriedAgain, V!LastTry, Tries, Calls
    <2>3. call' \in Calls /\ call'.at = "wait" /\ call'.turn = c.turn /\ call'.attempt = c.attempt
          /\ call'.asked = c.asked /\ call'.kept = c.kept /\ call'.billed = c.billed
      BY <1>2, <2>1, AtIs
    <2> QED BY <1>1, <1>2, <2>2, <2>3, TryGone
  <1>6. CASE ~(client = "vertex" /\ e = "drop") /\ ~V!TriedAgain(e)
    <2>1. call' = V!Over(c, "failed", call.kept)
      BY <1>3, <1>6
    <2>2. call.kept \in Nat /\ "failed" \in V!Statuses
      BY <1>1 DEF Calls, V!Statuses
    <2>3. /\ call' \in Calls /\ call'.at = "over" /\ call'.turn = c.turn /\ call'.attempt = c.attempt
          /\ call'.asked = c.asked /\ call'.kept = c.kept /\ call'.billed = c.billed
          /\ call'.result.status = "failed"
          /\ client = "vertex" => call'.result.usage = call.kept
          /\ client = "vertex" => call'.result.why = ("failed" # "success")
      BY <1>2, <2>1, <2>2, OverIs
    <2>4. client = "vertex" => call'.result.why
      BY <2>3
    <2> QED BY <1>1, <1>2, <2>3, <2>4, TryGone
  <1> QED BY <1>4, <1>5, <1>6

LEMMA UnreadableCall ==
  ASSUME Tries, CallInv, V!Unreadable
  PROVE  CallInv'
  <1>1. call \in Calls /\ call.at = "ask" /\ UNCHANGED <<client, raw, thread>>
    BY DEF CallInv, CallTyped, V!Unreadable
  <1>2. CASE client = "vertex"
    <2>1. call' = [call EXCEPT !.at = "raised"]
      BY <1>2 DEF V!Unreadable
    <2> QED BY <1>1, <2>1 DEF CallInv, CallTyped, Calls, Counted, Spent, Billed, Kept, V!SpendIsWhole, V!OnlyAnswersSucceed
  <1>3. CASE client # "vertex"
    <2>1. call' = V!Over(call, "failed", 0) /\ "failed" \in V!Statuses /\ 0 \in Nat
      BY <1>3 DEF V!Unreadable, V!Statuses
    <2> QED BY <1>1, <1>3, <2>1, OverIs DEF CallInv, CallTyped, Counted, Spent, Billed, Kept, V!SpendIsWhole, V!OnlyAnswersSucceed
  <1> QED BY <1>2, <1>3

LEMMA WaitCall ==
  ASSUME Tries, CallInv, V!Wait
  PROVE  CallInv'
  <1>1. call \in Calls /\ call.at = "wait" /\ UNCHANGED <<client, raw, thread>>
    BY DEF CallInv, CallTyped, V!Wait
  <1>2. CASE V!LastTry /\ client # "vertex"
    <2>1. call' = V!Over(call, "failed", 0) /\ "failed" \in V!Statuses /\ 0 \in Nat
      BY <1>2 DEF V!Wait, V!Statuses
    <2> QED BY <1>1, <1>2, <2>1, OverIs DEF CallInv, CallTyped, Counted, Spent, Billed, Kept, V!SpendIsWhole, V!OnlyAnswersSucceed
  <1>3. CASE ~(V!LastTry /\ client # "vertex")
    <2>1. call' = [call EXCEPT !.at = "ask", !.attempt = @ + 1]
      BY <1>3 DEF V!Wait
    <2>2. call.attempt < MaxRetries
      BY <1>1, <1>3 DEF CallInv, Counted, V!LastTry, Calls, Tries
    <2>3. call.attempt + 1 \in 1 .. MaxRetries
      BY <1>1, <2>2 DEF Calls, Tries
    <2>4. call' \in Calls /\ call'.at = "ask" /\ call'.turn = call.turn /\ call'.attempt = call.attempt + 1
          /\ call'.asked = call.asked /\ call'.billed = call.billed /\ call'.kept = call.kept
      BY <1>1, <2>1, <2>3 DEF Calls
    <2>5. call.asked \in Nat /\ call.attempt \in Nat /\ Spent \in Nat
      BY <1>1 DEF Calls, Spent, Tries
    <2>6. Spent' = Spent
      BY <2>4 DEF Spent
    <2> QED BY <1>1, <2>4, <2>5, <2>6 DEF CallInv, CallTyped, Counted, Billed, Kept, V!SpendIsWhole, V!OnlyAnswersSucceed
  <1> QED BY <1>2, <1>3

LEMMA AnswerCall ==
  ASSUME Tries, CallInv, NEW r \in V!Replies, NEW tokens \in 0 .. MaxTokens, V!Answer(r, tokens)
  PROVE  CallInv'
  <1> DEFINE c == [call EXCEPT !.asked = @ + 1, !.billed = @ + tokens, !.reply = {r}]
  <1>1. call \in Calls /\ call.at = "ask" /\ UNCHANGED <<client, raw, thread>> /\ tokens \in Nat
    BY DEF CallInv, CallTyped, V!Answer
  <1>2. c \in Calls /\ c.at = "ask" /\ c.turn = call.turn /\ c.attempt = call.attempt /\ c.asked = call.asked + 1
        /\ c.billed = call.billed + tokens /\ c.kept = call.kept /\ c.reply = {r}
    <2>1. {r} \in SUBSET V!Replies /\ call.asked + 1 \in Nat /\ call.billed + tokens \in Nat
      BY <1>1 DEF Calls
    <2>2. [call EXCEPT !.asked = call.asked + 1, !.billed = call.billed + tokens, !.reply = {r}] \in Calls
      <3>1. \A n, m \in Nat, R \in SUBSET V!Replies : [call EXCEPT !.asked = n, !.billed = m, !.reply = R] \in Calls
        BY <1>1 DEF Calls
      <3> QED BY <2>1, <3>1
    <2>3. c.at = "ask" /\ c.turn = call.turn /\ c.attempt = call.attempt /\ c.asked = call.asked + 1
          /\ c.billed = call.billed + tokens /\ c.kept = call.kept /\ c.reply = {r}
      BY <1>1 DEF Calls
    <2> QED BY <2>2, <2>3
  <1>3. call' = CASE V!Thought(r) -> [c EXCEPT !.turn = 2, !.attempt = 1, !.kept = tokens]
                  [] V!NoChoice(r) /\ ~V!LastTry -> [c EXCEPT !.at = "wait"]
                  [] V!NoChoice(r) /\ V!LastTry -> V!Over(c, "failed", 0)
                  [] ~V!Thought(r) /\ ~V!NoChoice(r) -> V!Over(c, V!Verdict(r), V!MergeUsage(call.kept, tokens))
    BY DEF V!Answer
  <1>4. V!Thought(r) => client = "vertex" /\ call.turn = 1 /\ ~V!NoChoice(r)
    BY DEF V!Thought, V!NoChoice, CallInv, CallTyped
  <1>5. call.asked \in Nat /\ call.attempt \in 1 .. MaxRetries /\ MaxRetries \in Nat /\ call.kept \in Nat /\ call.billed \in Nat
        /\ call.turn \in 1 .. 2
    BY <1>1 DEF Calls, Tries
  <1>6. call.asked < Spent + call.attempt
    BY <1>1 DEF CallInv, Counted
  <1> HIDE DEF c
  <1>7. CASE V!Thought(r)
    <2>1. call' = [c EXCEPT !.turn = 2, !.attempt = 1, !.kept = tokens]
      BY <1>3, <1>4, <1>7
    <2>2. call'.at = "ask" /\ call'.turn = 2 /\ call'.attempt = 1 /\ call'.asked = call.asked + 1
          /\ call'.billed = call.billed + tokens /\ call'.kept = tokens
      BY <1>2, <2>1 DEF Calls
    <2>3. call' \in Calls
      <3>1. 2 \in 1 .. 2 /\ 1 \in 1 .. MaxRetries
        BY <1>5
      <3>2. \A t \in 1 .. 2, m \in 1 .. MaxRetries, k \in Nat : [c EXCEPT !.turn = t, !.attempt = m, !.kept = k] \in Calls
        BY <1>2 DEF Calls
      <3> QED BY <1>1, <2>1, <3>1, <3>2
    <2>4. call.kept = 0 /\ call.billed = 0 /\ Spent = 0 /\ Spent' = MaxRetries
      BY <1>1, <1>4, <1>7, <2>2 DEF CallInv, Billed, Kept, Spent
    <2>5. CallTyped' /\ Billed' /\ Kept' /\ V!SpendIsWhole' /\ V!OnlyAnswersSucceed'
      BY <1>1, <2>2, <2>4, <2>3 DEF CallInv, CallTyped, Billed, Kept, V!SpendIsWhole, V!OnlyAnswersSucceed
    <2>6. Counted'
      BY <1>5, <1>6, <2>2, <2>4 DEF Counted
    <2> QED BY <2>5, <2>6 DEF CallInv
  <1>8. CASE V!NoChoice(r) /\ ~V!LastTry
    <2>1. call' = [c EXCEPT !.at = "wait"] /\ client # "vertex"
      BY <1>3, <1>4, <1>8 DEF V!NoChoice
    <2>2. call' \in Calls /\ call'.at = "wait" /\ call'.turn = c.turn /\ call'.attempt = c.attempt
          /\ call'.asked = c.asked /\ call'.kept = c.kept
      BY <1>2, <2>1, AtIs
    <2> QED BY <1>1, <1>2, <2>1, <2>2, TryGone
  <1>9. CASE V!NoChoice(r) /\ V!LastTry
    <2>1. call' = V!Over(c, "failed", 0) /\ client # "vertex" /\ "failed" \in V!Statuses /\ 0 \in Nat
      BY <1>3, <1>4, <1>9 DEF V!NoChoice, V!Statuses
    <2>2. /\ call' \in Calls /\ call'.at = "over" /\ call'.turn = c.turn /\ call'.attempt = c.attempt
          /\ call'.asked = c.asked /\ call'.kept = c.kept /\ call'.result.status = "failed"
      BY <1>2, <2>1, OverIs
    <2> QED BY <1>1, <1>2, <2>1, <2>2, TryGone
  <1>10. CASE ~V!Thought(r) /\ ~V!NoChoice(r)
    <2>1. call' = V!Over(c, V!Verdict(r), call.kept + tokens)
      BY <1>3, <1>10 DEF V!MergeUsage
    <2>2. V!Verdict(r) \in V!Statuses /\ call.kept + tokens \in Nat
      BY <1>1, <1>5, VerdictIs
    <2>3. /\ call' \in Calls /\ call'.at = "over" /\ call'.turn = call.turn /\ call'.attempt = call.attempt
          /\ call'.asked = call.asked + 1 /\ call'.billed = call.billed + tokens /\ call'.kept = call.kept
          /\ call'.reply = {r} /\ call'.result.status = V!Verdict(r)
          /\ client = "vertex" => call'.result.usage = call.kept + tokens
          /\ client = "vertex" => call'.result.why = (V!Verdict(r) # "success")
      BY <1>2, <2>1, <2>2, OverIs
    <2>4. CallTyped' /\ Kept' /\ Billed'
      BY <1>1, <2>3 DEF CallInv, CallTyped, Kept, Billed
    <2>5. Counted'
      BY <1>5, <1>6, <2>3 DEF Counted, Spent
    <2>6. V!SpendIsWhole'
      BY <1>1, <2>3 DEF CallInv, Billed, V!SpendIsWhole
    <2>7. V!OnlyAnswersSucceed'
      BY <1>1, <2>3, VerdictIs DEF V!OnlyAnswersSucceed
    <2> QED BY <2>4, <2>5, <2>6, <2>7 DEF CallInv
  <1> QED BY <1>7, <1>8, <1>9, <1>10

LEMMA NextCall ==
  ASSUME Tries, CallInv, [V!Next]_(V!vars)
  PROVE  CallInv'
  <1>1. CASE UNCHANGED V!vars
    BY <1>1 DEF V!vars, CallInv, CallTyped, Counted, Spent, Billed, Kept, V!SpendIsWhole, V!OnlyAnswersSucceed
  <1> QED BY <1>1, FailCall, UnreadableCall, WaitCall, AnswerCall DEF V!Next

\* No outage has a model asked more often than there are tries for its turns; what
\* Vertex's result says was billed is what all its replies cost, and only a whole
\* answer is a success, any other result giving its reason (vertex_client.py:206-259,
\* 334-342, vlm_types.py:60-77).
THEOREM CallsAreTrue ==
  ASSUME Tries
  PROVE  V!Spec => [](V!TypeOK /\ V!TriesAreBounded /\ V!SpendIsWhole /\ V!OnlyAnswersSucceed)
  <1>1. V!Init => CallInv
    BY InitCall
  <1>2. CallInv /\ [V!Next]_(V!vars) => CallInv'
    BY NextCall
  <1>3. CallInv => V!TypeOK /\ V!TriesAreBounded /\ V!SpendIsWhole /\ V!OnlyAnswersSucceed
    <2> HAVE CallInv
    <2>1. V!TypeOK
      BY DEF CallInv, CallTyped, Calls, Results, V!TypeOK
    <2>2. V!TriesAreBounded
      <3>1. MaxRetries \in Nat /\ call.turn \in {1, 2} /\ call.attempt \in 1 .. MaxRetries /\ call.asked \in Nat
        BY DEF CallInv, CallTyped, Calls, Tries
      <3>2. call.asked <= Spent + call.attempt
        BY DEF CallInv, Counted
      <3>3. MaxRetries * 1 = MaxRetries /\ MaxRetries * 2 = MaxRetries + MaxRetries
        BY <3>1
      <3> QED BY <3>1, <3>2, <3>3 DEF Spent, V!TriesAreBounded
    <2> QED BY <2>1, <2>2 DEF CallInv
  <1> QED BY <1>1, <1>2, <1>3, PTL DEF V!Spec
=============================================================================
