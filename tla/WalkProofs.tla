------------------------------ MODULE WalkProofs ------------------------------
(***************************************************************************)
(* What the walks promise, for any number of posts, pages and batches of   *)
(* any size: a full walk of a feed has what was there when it began, in    *)
(* however many runs; a walk of a source that ends has everything above    *)
(* the post it stops at, and none takes anything back; a category of       *)
(* Reddit that is walked to its end is recorded with what it hangs on.     *)
(***************************************************************************)
EXTENDS FeedWalk, Sequences, FiniteSetTheorems, WellFoundedInduction, TLAPS

-----------------------------------------------------------------------------
(* The oldest and the newest of some posts                                 *)

LEMMA LeastOne ==
  ASSUME NEW T, T \subseteq Nat, T # {}
  PROVE  \E x \in T : \A y \in T : x <= y
  <1> DEFINE R == {ss \in Nat \X Nat : ss[1] < ss[2]}
  <1>1. IsWellFoundedOn(R, Nat)
    BY NatLessThanWellFounded DEF OpToRel
  <1> HIDE DEF R
  <1>2. PICK x \in T : \A y \in T : ~ (<<y, x>> \in R)
    BY <1>1, WFMin
  <1>3. \A y \in T : x <= y
    <2> TAKE y \in T
    <2>1. <<y, x>> \in Nat \X Nat
      OBVIOUS
    <2>2. ~ (y < x)
      BY <1>2, <2>1 DEF R
    <2> QED BY <2>2
  <1> QED BY <1>3

LEMMA GreatestOne ==
  ASSUME NEW n \in Nat, NEW S, S \subseteq 1 .. n, S # {}
  PROVE  \E x \in S : \A y \in S : y <= x
  <1> DEFINE T == {n - p : p \in S}
  <1>1. PICK x \in T : \A y \in T : x <= y
    <2>1. \A p \in S : n - p \in Nat
      BY SMT
    <2>2. T \subseteq Nat /\ T # {}
      BY <2>1
    <2> HIDE DEF T
    <2> QED BY <2>2, LeastOne
  <1>2. PICK p \in S : x = n - p
    BY <1>1
  <1>3. \A q \in S : q <= p
    <2> TAKE q \in S
    <2>1. n - q \in T
      OBVIOUS
    <2>2. n - p <= n - q
      BY <1>1, <1>2, <2>1
    <2> QED BY <2>2, SMT
  <1> QED BY <1>3

-----------------------------------------------------------------------------
(* The posts of a page                                                     *)

LEMMA MinOf ==
  ASSUME NEW S, S \subseteq Nat, S # {}
  PROVE  Min(S) \in S /\ \A t \in S : Min(S) <= t
  BY LeastOne DEF Min

LEMMA FinitePart ==
  ASSUME NEW n \in Nat, NEW S, S \subseteq 1 .. n
  PROVE  IsFiniteSet(S) /\ Cardinality(S) \in Nat
  <1>1. 1 \in Int /\ n \in Int
    OBVIOUS
  <1>2. IsFiniteSet(1 .. n)
    BY <1>1, FS_Interval
  <1>3. IsFiniteSet(S)
    BY <1>2, FS_Subset
  <1> QED BY <1>3, FS_CardinalityType

\* The latest are above all that is left out, and there are some if there is any.
LEMMA LatestOf ==
  ASSUME NEW n \in Nat, NEW S, S \subseteq 1 .. n, NEW m \in Nat \ {0}
  PROVE  /\ Latest(m, S) \subseteq S
         /\ \A p \in Latest(m, S), q \in S : q > p => q \in Latest(m, S)
         /\ S # {} => Latest(m, S) # {}
  <1>1. IsFiniteSet(S)
    BY FinitePart
  <1>2. ASSUME NEW p \in Latest(m, S), NEW q \in S, q > p
        PROVE  q \in Latest(m, S)
    <2> DEFINE A == {r \in S : r > q}
               B == {r \in S : r > p}
    <2>1. A \subseteq B
      <3> SUFFICES ASSUME NEW r \in S, r > q PROVE r > p
        OBVIOUS
      <3>1. p \in Int /\ q \in Int /\ r \in Int
        <4>1. p \in 1 .. n /\ q \in 1 .. n
          BY DEF Latest
        <4> QED BY <4>1
      <3> QED BY <1>2, <3>1
    <2>2. IsFiniteSet(B)
      BY <1>1, FS_Subset
    <2>3. Cardinality(A) <= Cardinality(B) /\ Cardinality(A) \in Nat /\ Cardinality(B) \in Nat
      BY <2>1, <2>2, FS_Subset, FS_CardinalityType
    <2>4. Cardinality(B) < m
      BY DEF Latest
    <2> HIDE DEF A, B
    <2>5. Cardinality(A) < m
      BY <2>3, <2>4
    <2> QED BY <2>5 DEF Latest, A
  <1>3. ASSUME S # {}
        PROVE  Latest(m, S) # {}
    <2>1. PICK x \in S : \A y \in S : y <= x
      BY <1>3, GreatestOne
    <2>2. {y \in S : y > x} = {}
      <3> SUFFICES ASSUME NEW y \in S, y > x PROVE FALSE
        OBVIOUS
      <3>1. x \in Int /\ y \in Int /\ y <= x
        BY <2>1
      <3> QED BY <3>1
    <2>3. Cardinality({y \in S : y > x}) = 0
      BY <2>2, FS_EmptySet
    <2> QED BY <2>3 DEF Latest
  <1> QED BY <1>2, <1>3 DEF Latest

\* The n largest.
LEMMA TopExists ==
  ASSUME NEW k \in Nat, NEW S, S \subseteq 1 .. k, NEW n \in 0 .. Cardinality(S)
  PROVE  \E H \in SUBSET S : Cardinality(H) = n /\ \A p \in H, q \in S \ H : p > q
  <1> DEFINE Good(m) == \E H \in SUBSET S : Cardinality(H) = m /\ \A p \in H, q \in S \ H : p > q
             T == {m \in 0 .. Cardinality(S) : ~Good(m)}
  <1>1. IsFiniteSet(S) /\ Cardinality(S) \in Nat
    BY FinitePart
  <1>2. SUFFICES ASSUME T # {} PROVE FALSE
    OBVIOUS
  <1>3. PICK m \in T : \A y \in T : m <= y
    <2>1. T \subseteq Nat
      BY <1>1
    <2> HIDE DEF T
    <2> QED BY <1>2, <2>1, LeastOne
  <1>4. m \in 0 .. Cardinality(S) /\ ~Good(m)
    BY <1>3
  <1>5. m # 0
    <2>1. Cardinality({}) = 0
      BY FS_EmptySet
    <2>2. Good(0)
      BY <2>1
    <2> HIDE DEF Good
    <2> QED BY <1>4, <2>2
  <1>6. m - 1 \in 0 .. Cardinality(S) /\ Good(m - 1)
    <2> HIDE DEF Good
    <2>1. m - 1 \in 0 .. Cardinality(S)
      BY <1>1, <1>4, <1>5
    <2>2. m - 1 \notin T
      <3>1. m \in Int /\ ~ (m <= m - 1)
        BY <1>1, <1>4
      <3> HIDE DEF T
      <3> QED BY <1>3, <3>1
    <2> QED BY <2>1, <2>2
  <1>7. PICK H \in SUBSET S : Cardinality(H) = m - 1 /\ \A p \in H, q \in S \ H : p > q
    BY <1>6
  <1>8. S \ H # {}
    <2>1. H # S
      BY <1>1, <1>4, <1>7
    <2> QED BY <2>1
  <1>9. PICK x \in S \ H : \A y \in S \ H : y <= x
    BY <1>8, GreatestOne
  <1>10. IsFiniteSet(H)
    BY <1>1, FS_Subset
  <1>11. Cardinality(H \cup {x}) = m
    <2>1. Cardinality(H \cup {x}) = Cardinality(H) + 1
      BY <1>9, <1>10, FS_AddElement
    <2>2. m \in Int
      BY <1>1, <1>4
    <2> QED BY <1>7, <2>1, <2>2
  <1>12. \A p \in H \cup {x}, q \in S \ (H \cup {x}) : p > q
    <2> TAKE p \in H \cup {x}, q \in S \ (H \cup {x})
    <2>1. p \in Int /\ q \in Int /\ x \in Int
      OBVIOUS
    <2> QED BY <1>7, <1>9, <2>1
  <1>13. H \cup {x} \in SUBSET S
    OBVIOUS
  <1> QED BY <1>4, <1>11, <1>12, <1>13

\* Splitting finds all that resolve.
LEMMA ResolvedIs ==
  ASSUME NEW k \in Nat, NEW ids, ids \subseteq 1 .. k
  PROVE  Resolved(ids) = ids \ Poison
  <1> DEFINE Half == [S \in (SUBSET ids) \ {{}} |->
                        CHOOSE H \in SUBSET S : Cardinality(H) = Cardinality(S) \div 2 /\ \A p \in H, q \in S \ H : p > q]
             Body(f, S) == IF S = {} \/ S \cap Poison = {} THEN S
                           ELSE IF Cardinality(S) = 1 THEN {}
                           ELSE f[Half[S]] \cup f[S \ Half[S]]
             resolve == CHOOSE f : f = [S \in SUBSET ids |-> Body(f, S)]
             g == [S \in SUBSET ids |-> S \ Poison]
  <1>1. Resolved(ids) = resolve[ids]
    BY Zenon DEF Resolved
  <1>2. \A S \in SUBSET ids : IsFiniteSet(S) /\ Cardinality(S) \in Nat /\ (Cardinality(S) = 0 <=> S = {})
    <2> TAKE S \in SUBSET ids
    <2>1. IsFiniteSet(S) /\ Cardinality(S) \in Nat
      BY FinitePart
    <2> QED BY <2>1, FS_EmptySet
  <1>3. \A S \in (SUBSET ids) \ {{}} : Half[S] \in SUBSET S /\ Cardinality(Half[S]) = Cardinality(S) \div 2
    <2> TAKE S \in (SUBSET ids) \ {{}}
    <2>1. Cardinality(S) \div 2 \in 0 .. Cardinality(S)
      BY <1>2
    <2>2. S \subseteq 1 .. k
      OBVIOUS
    <2>3. \E H \in SUBSET S : Cardinality(H) = Cardinality(S) \div 2 /\ \A p \in H, q \in S \ H : p > q
      BY <2>1, <2>2, TopExists
    <2>4. Half[S] = CHOOSE H \in SUBSET S : Cardinality(H) = Cardinality(S) \div 2 /\ \A p \in H, q \in S \ H : p > q
      OBVIOUS
    <2> HIDE DEF Half
    <2> QED BY <2>3, <2>4
  <1> HIDE DEF Half
  <1>4. \A S \in SUBSET ids : Body(g, S) = S \ Poison
    <2> TAKE S \in SUBSET ids
    <2>1. CASE S = {} \/ S \cap Poison = {}
      BY <2>1
    <2>2. CASE S # {} /\ S \cap Poison # {} /\ Cardinality(S) = 1
      <3>1. PICK x : S = {x}
        BY <1>2, <2>2, FS_Singleton
      <3> QED BY <2>2, <3>1
    <2>3. CASE S # {} /\ S \cap Poison # {} /\ Cardinality(S) # 1
      <3>1. Half[S] \in SUBSET S
        BY <1>3, <2>3
      <3>2. g[Half[S]] = Half[S] \ Poison /\ g[S \ Half[S]] = (S \ Half[S]) \ Poison
        BY <3>1
      <3> HIDE DEF g
      <3> QED BY <2>3, <3>1, <3>2
    <2> QED BY <2>1, <2>2, <2>3
  <1>5. g = [S \in SUBSET ids |-> Body(g, S)]
    <2> HIDE DEF Body
    <2> QED BY <1>4
  <1>6. resolve = [S \in SUBSET ids |-> Body(resolve, S)]
    <2> HIDE DEF Body, g
    <2> QED BY <1>5
  <1>7. \A S \in SUBSET ids : resolve[S] = Body(resolve, S)
    <2> HIDE DEF Body, resolve
    <2> QED BY <1>6
  <1> HIDE DEF resolve, g
  <1> DEFINE T == {Cardinality(S) : S \in {U \in SUBSET ids : resolve[U] # U \ Poison}}
  <1>8. T = {}
    <2> SUFFICES ASSUME T # {} PROVE FALSE
      OBVIOUS
    <2>1. T \subseteq Nat
      BY <1>2
    <2>2. PICK c \in T : \A d \in T : c <= d
      <3> HIDE DEF T
      <3> QED BY <2>1, LeastOne
    <2>3. PICK S \in SUBSET ids : resolve[S] # S \ Poison /\ c = Cardinality(S)
      BY <2>2
    <2>4. \A U \in SUBSET ids : Cardinality(U) < Cardinality(S) => resolve[U] = U \ Poison
      <3> TAKE U \in SUBSET ids
      <3>1. Cardinality(U) \in T \/ resolve[U] = U \ Poison
        OBVIOUS
      <3> HIDE DEF T
      <3> QED BY <1>2, <2>2, <2>3, <3>1
    <2>5. S # {} /\ S \cap Poison # {} /\ Cardinality(S) # 1
      <3>1. Body(resolve, S) # S \ Poison
        BY <1>7, <2>3
      <3>2. S # {} /\ S \cap Poison # {}
        BY <3>1
      <3>3. CASE Cardinality(S) = 1
        <4>1. PICK x : S = {x}
          BY <1>2, <3>3, FS_Singleton
        <4> QED BY <3>1, <3>2, <3>3, <4>1
      <3> QED BY <3>2, <3>3
    <2>6. Half[S] \in SUBSET S /\ Cardinality(Half[S]) = Cardinality(S) \div 2
      BY <1>3, <2>5
    <2>7. Cardinality(S) \in Nat /\ Cardinality(S) > 1
      <3>1. Cardinality(S) \in Nat /\ Cardinality(S) # 0 /\ Cardinality(S) # 1
        BY <1>2, <2>5
      <3>2. \A c0 \in Nat : c0 # 0 /\ c0 # 1 => c0 > 1
        OBVIOUS
      <3> QED BY <3>1, <3>2
    <2>8. Cardinality(Half[S]) < Cardinality(S) /\ Cardinality(S \ Half[S]) < Cardinality(S)
      <3>1. Cardinality(S) \div 2 < Cardinality(S) /\ Cardinality(S) \div 2 > 0
        <4>1. \A c0 \in Nat : c0 > 1 => c0 \div 2 < c0 /\ c0 \div 2 > 0
          OBVIOUS
        <4> QED BY <2>7, <4>1
      <3>2. Cardinality(S \ Half[S]) = Cardinality(S) - Cardinality(S \cap Half[S])
        BY <1>2, FS_Difference
      <3>3. S \cap Half[S] = Half[S]
        BY <2>6
      <3>4. Cardinality(S \ Half[S]) = Cardinality(S) - (Cardinality(S) \div 2)
        BY <2>6, <3>2, <3>3
      <3>5. \A c0 \in Nat, d \in Nat : d > 0 => c0 - d < c0
        OBVIOUS
      <3>6. Cardinality(S) \div 2 \in Nat
        BY <2>7
      <3> QED BY <2>6, <2>7, <3>1, <3>4, <3>5, <3>6
    <2>9. resolve[Half[S]] = Half[S] \ Poison /\ resolve[S \ Half[S]] = (S \ Half[S]) \ Poison
      BY <2>4, <2>6, <2>8
    <2>10. resolve[S] = resolve[Half[S]] \cup resolve[S \ Half[S]]
      BY <1>7, <2>5
    <2> QED BY <2>3, <2>6, <2>9, <2>10
  <1> QED BY <1>1, <1>8

-----------------------------------------------------------------------------
(* What a walk and a cursor are                                            *)

Last == Posts[category]

Steps == {"idle", "page", "file", "insert", "clear"}

Walks == [step : Steps, full : BOOLEAN, pending : SUBSET (1 .. AllPosts), max_id : -2 .. Last, fetched : Nat,
          media : SUBSET Post, new : BOOLEAN, raw : SUBSET Post, next : -2 .. Last, yielded : BOOLEAN]

\* What is still to be walked is a collection and all that come after it.
Onward(pending) == pending # {} /\ \A c \in pending, d \in cols : d >= c => d \in pending

FeedOK ==
  /\ category \in Categories
  /\ cols \subseteq 1 .. AllPosts /\ AllPosts \in cols
  /\ listed \subseteq Post \X cols /\ due \subseteq listed
  /\ held \subseteq Post /\ filed \subseteq Post \X (1 .. Named + 1) /\ cuts \in 0 .. MaxCuts
  /\ cursor \in [col : 0 .. AllPosts, max_id : 0 .. Last]
  /\ walk \in Walks /\ walk.media \subseteq walk.raw
  /\ walk.step # "idle" => Onward(walk.pending)
  /\ walk.step \in {"file", "insert"} => walk.raw # {} /\ walk.next >= 0

\* m is recorded, and filed where it is.
Done(m) == Readable(m[1]) => m[1] \in held /\ (category = "saved" => m \in filed)

\* m comes after a place in the walk.
Ahead(m, col, max_id) == m[2] > col \/ (m[2] = col /\ (max_id = 0 \/ m[1] < max_id))

\* m comes after the page at hand, or is of it.
Later(m, w) == m[2] > Min(w.pending) \/ (m[2] = Min(w.pending) /\ w.next # 0 /\ m[1] < w.next)

InHand(m) ==
  m[2] = Min(walk.pending) /\ m[1] \in walk.media /\ (walk.step = "insert" /\ category = "saved" => m \in filed)

\* From the cursor on, whatever is due is found.
CursorInv == cursor.col \in cols => \A m \in due : Done(m) \/ Ahead(m, cursor.col, cursor.max_id)

WalkInv ==
  walk.full =>
    /\ walk.step = "page" => \A m \in due : Done(m) \/ Ahead(m, Min(walk.pending), walk.max_id)
    /\ walk.step \in {"file", "insert"} => \A m \in due : Done(m) \/ InHand(m) \/ Later(m, walk)
    /\ walk.step = "clear" => \A m \in due : Done(m)

FeedInv == FeedOK /\ CursorInv /\ WalkInv

LEMMA Numbers ==
  ASSUME FeedsAssumption, category \in Categories
  PROVE  /\ Last \in Nat /\ AllPosts \in Nat \ {0} /\ Named \in Nat /\ PageSize[category] \in Nat \ {0}
         /\ Post = 1 .. Last /\ (category = "saved" => AllPosts = Named + 1) /\ (category # "saved" => AllPosts = 1)
  BY DEF FeedsAssumption, Last, AllPosts, Post

LEMMA IdleIs ==
  ASSUME FeedsAssumption, category \in Categories
  PROVE  Idle \in Walks /\ Idle.step = "idle" /\ Idle.full = FALSE /\ Idle.media = {} /\ Idle.raw = {}
  <1>1. Last \in Nat /\ 0 \in -2 .. Last
    BY Numbers
  <1> QED BY <1>1 DEF Idle, Walks, Steps

LEMMA InitFeed ==
  ASSUME FeedsAssumption, Init
  PROVE  FeedInv
  <1>1. category \in Categories /\ listed = {} /\ cols = 1 .. AllPosts /\ held = {} /\ filed = {} /\ cursor = None
        /\ walk = Idle /\ due = {} /\ cuts = 0
    BY DEF Init
  <1>2. Last \in Nat /\ AllPosts \in Nat \ {0} /\ MaxCuts \in Nat
    BY <1>1, Numbers DEF FeedsAssumption
  <1>3. FeedOK
    BY <1>1, <1>2, IdleIs DEF FeedOK, None
  <1> QED BY <1>1, <1>3, IdleIs DEF FeedInv, CursorInv, WalkInv

\* Recorded once is recorded for good.
LEMMA DoneStays ==
  ASSUME category' = category, held \subseteq held', filed \subseteq filed', NEW m, Done(m)
  PROVE  Done(m)'
  BY DEF Done, Readable

LEMMA SameCategory ==
  ASSUME category' = category
  PROVE  Last' = Last /\ AllPosts' = AllPosts /\ Post' = Post /\ Walks' = Walks
  BY DEF Last, AllPosts, Post, Walks

-----------------------------------------------------------------------------
(* The account, other categories, and what is cut short                    *)

LEMMA AddFeed ==
  ASSUME FeedInv, NEW p \in Post, NEW cs \in SUBSET cols, Add(p, cs)
  PROVE  FeedInv'
  <1>1. listed' = listed \cup {<<p, c>> : c \in cs}
        /\ category' = category /\ cols' = cols /\ held' = held /\ filed' = filed /\ cursor' = cursor
        /\ walk' = walk /\ due' = due /\ cuts' = cuts
    BY DEF Add
  <1>2. Last' = Last /\ AllPosts' = AllPosts /\ Post' = Post /\ Walks' = Walks
    BY <1>1, SameCategory
  <1>3. listed' \subseteq Post \X cols
    <2>1. \A c \in cs : <<p, c>> \in Post \X cols
      OBVIOUS
    <2>2. listed \subseteq Post \X cols
      BY DEF FeedInv, FeedOK
    <2> QED BY <1>1, <2>1, <2>2
  <1>4. FeedOK'
    BY <1>1, <1>2, <1>3 DEF FeedInv, FeedOK, Onward
  <1>5. CursorInv' /\ WalkInv'
    BY <1>1 DEF FeedInv, CursorInv, WalkInv, Done, Readable, Ahead, Later, InHand
  <1> QED BY <1>4, <1>5 DEF FeedInv

\* Less is listed, or a collection is gone.
LEMMA LessFeed ==
  ASSUME FeedInv, category' = category, held' = held, filed' = filed, cursor' = cursor, walk' = walk, cuts' = cuts,
         cols' \subseteq cols, AllPosts \in cols', listed' \subseteq Post \X cols', due' = due \cap listed'
  PROVE  FeedInv'
  <1>1. Last' = Last /\ AllPosts' = AllPosts /\ Post' = Post /\ Walks' = Walks
    BY SameCategory
  <1>2. Onward(walk.pending) => Onward(walk.pending)'
    BY DEF Onward
  <1>3. FeedOK'
    BY <1>1, <1>2 DEF FeedInv, FeedOK
  <1>4. \A m : Done(m)' <=> Done(m)
    BY DEF Done, Readable
  <1>5. CursorInv'
    BY <1>4 DEF FeedInv, CursorInv, Ahead
  <1>6. WalkInv'
    BY <1>4 DEF FeedInv, WalkInv, Ahead, Later, InHand
  <1> QED BY <1>3, <1>5, <1>6 DEF FeedInv

LEMMA AccountFeed ==
  ASSUME FeedInv, Account
  PROVE  FeedInv'
  <1>1. CASE \E p \in Post, cs \in SUBSET cols : Add(p, cs)
    BY <1>1, AddFeed
  <1>2. ASSUME NEW p \in Post, NEW c \in cols, Move(p, c)
        PROVE  FeedInv'
    <2>1. category' = category /\ held' = held /\ filed' = filed /\ cursor' = cursor /\ walk' = walk /\ cuts' = cuts
          /\ cols' = cols /\ due' = due \cap listed'
          /\ listed' = IF <<p, c>> \in listed THEN listed \ {<<p, c>>} ELSE listed \cup {<<p, c>>}
      BY <1>2 DEF Move
    <2>2. listed \subseteq Post \X cols /\ AllPosts \in cols
      BY DEF FeedInv, FeedOK
    <2>3. listed' \subseteq Post \X cols'
      BY <2>1, <2>2
    <2> QED BY <2>1, <2>2, <2>3, LessFeed
  <1>3. ASSUME NEW c \in cols, DeleteCollection(c)
        PROVE  FeedInv'
    <2>1. category' = category /\ held' = held /\ filed' = filed /\ cursor' = cursor /\ walk' = walk /\ cuts' = cuts
          /\ cols' = cols \ {c} /\ c # AllPosts /\ due' = due \cap listed' /\ listed' = {m \in listed : m[2] # c}
      BY <1>3 DEF DeleteCollection
    <2>2. listed \subseteq Post \X cols /\ AllPosts \in cols
      BY DEF FeedInv, FeedOK
    <2>3. listed' \subseteq Post \X cols'
      BY <2>1, <2>2
    <2> QED BY <2>1, <2>2, <2>3, LessFeed
  <1> QED BY <1>1, <1>2, <1>3 DEF Account

LEMMA OtherFeed ==
  ASSUME FeedInv, NEW p \in Post, Other(p)
  PROVE  FeedInv'
  <1>1. category' = category /\ cols' = cols /\ listed' = listed /\ held' = held \cup {p} /\ filed' = filed
        /\ cursor' = cursor /\ walk' = walk /\ due' = due /\ cuts' = cuts /\ walk.step = "idle"
    BY DEF Other
  <1>2. Last' = Last /\ AllPosts' = AllPosts /\ Post' = Post /\ Walks' = Walks
    BY <1>1, SameCategory
  <1>3. FeedOK'
    BY <1>1, <1>2 DEF FeedInv, FeedOK, Onward
  <1>4. \A m : Done(m) => Done(m)'
    BY <1>1, DoneStays
  <1>5. CursorInv' /\ WalkInv'
    BY <1>1, <1>4 DEF FeedInv, CursorInv, WalkInv, Ahead
  <1> QED BY <1>3, <1>5 DEF FeedInv

LEMMA CutFeed ==
  ASSUME FeedsAssumption, FeedInv, Cut
  PROVE  FeedInv'
  <1>1. category' = category /\ cols' = cols /\ listed' = listed /\ held' = held /\ filed' = filed
        /\ cursor' = cursor /\ walk' = Idle /\ due' = due /\ cuts' = cuts + 1 /\ cuts < MaxCuts
    BY DEF Cut
  <1>2. Last' = Last /\ AllPosts' = AllPosts /\ Post' = Post /\ Walks' = Walks
    BY <1>1, SameCategory
  <1>3. Idle \in Walks /\ Idle.step = "idle" /\ Idle.full = FALSE /\ Idle.media = {} /\ Idle.raw = {}
    BY IdleIs DEF FeedInv, FeedOK
  <1>4. cuts' \in 0 .. MaxCuts
    BY <1>1 DEF FeedInv, FeedOK, FeedsAssumption
  <1>5. FeedOK'
    BY <1>1, <1>2, <1>3, <1>4 DEF FeedInv, FeedOK
  <1>6. CursorInv' /\ WalkInv'
    BY <1>1, <1>3 DEF FeedInv, CursorInv, WalkInv, Done, Readable, Ahead
  <1> QED BY <1>5, <1>6 DEF FeedInv

-----------------------------------------------------------------------------
(* A walk begins                                                           *)

\* Where a walk goes on from, all that is ahead of it is.
LEMMA FromIs ==
  ASSUME FeedsAssumption, FeedOK, NEW c \in [col : 0 .. AllPosts, max_id : 0 .. Last]
  PROVE  /\ From(c).pending \subseteq cols /\ From(c).max_id \in -2 .. Last /\ Onward(From(c).pending)
         /\ c.col \in cols => Min(From(c).pending) = c.col /\ From(c).max_id = c.max_id
         /\ c.col \notin cols => From(c).max_id = 0 /\ From(c).pending = cols
  <1>1. cols \subseteq 1 .. AllPosts /\ AllPosts \in cols /\ AllPosts \in Nat /\ Last \in Nat /\ cols \subseteq Nat
    BY Numbers DEF FeedOK
  <1>2. CASE c.col \in cols
    <2> DEFINE pending == {d \in cols : d >= c.col}
    <2>1. From(c).pending = pending /\ From(c).max_id = c.max_id
      BY <1>2 DEF From
    <2>2. pending \subseteq Nat /\ c.col \in pending /\ \A d \in pending : d >= c.col
      <3>1. c.col \in Nat /\ c.col >= c.col
        BY <1>1, <1>2
      <3>2. c.col \in pending
        BY <1>2, <3>1
      <3>3. pending \subseteq Nat
        BY <1>1
      <3> QED BY <3>2, <3>3
    <2>3. \A d \in pending, e \in cols : e >= d => e \in pending
      <3> SUFFICES ASSUME NEW d \in pending, NEW e \in cols, e >= d PROVE e >= c.col
        OBVIOUS
      <3>1. d \in Nat /\ e \in Nat /\ c.col \in Nat /\ d >= c.col
        BY <1>1, <1>2
      <3> QED BY <3>1
    <2> HIDE DEF pending
    <2>4. Min(pending) = c.col
      <3>1. Min(pending) \in pending /\ Min(pending) <= c.col
        BY <2>2, MinOf
      <3>2. Min(pending) \in Nat /\ c.col \in Nat /\ Min(pending) >= c.col
        BY <2>2, <3>1
      <3> QED BY <3>1, <3>2
    <2>5. Onward(pending)
      BY <2>2, <2>3 DEF Onward
    <2>6. c.max_id \in -2 .. Last
      BY <1>1
    <2>7. pending \subseteq cols
      BY DEF pending
    <2> QED BY <1>2, <2>1, <2>4, <2>5, <2>6, <2>7
  <1>3. CASE c.col \notin cols
    <2>1. From(c).pending = cols /\ From(c).max_id = 0
      BY <1>3 DEF From
    <2>2. Onward(cols)
      BY <1>1 DEF Onward
    <2> QED BY <1>1, <1>3, <2>1, <2>2
  <1> QED BY <1>2, <1>3

LEMMA StartFeed ==
  ASSUME FeedsAssumption, FeedInv, NEW full \in BOOLEAN, Start(full)
  PROVE  FeedInv'
  <1> DEFINE c == IF full THEN cursor ELSE None
             from == From(c)
  <1>1. category' = category /\ cols' = cols /\ listed' = listed /\ held' = held /\ filed' = filed
        /\ cursor' = cursor /\ cuts' = cuts
        /\ walk' = [Idle EXCEPT !.step = "page", !.full = full, !.pending = from.pending, !.max_id = from.max_id]
        /\ due' = IF full /\ cursor.col \notin cols THEN listed ELSE due
    BY DEF Start
  <1>2. Last' = Last /\ AllPosts' = AllPosts /\ Post' = Post /\ Walks' = Walks
    BY <1>1, SameCategory
  <1>3. FeedOK /\ Last \in Nat /\ AllPosts \in Nat /\ cols \subseteq 1 .. AllPosts
    BY Numbers DEF FeedInv, FeedOK
  <1>4. c \in [col : 0 .. AllPosts, max_id : 0 .. Last]
    BY <1>3 DEF FeedOK, None
  <1>5. /\ from.pending \subseteq cols /\ from.max_id \in -2 .. Last /\ Onward(from.pending)
        /\ c.col \in cols => Min(from.pending) = c.col /\ from.max_id = c.max_id
        /\ c.col \notin cols => from.max_id = 0 /\ from.pending = cols
    BY <1>3, <1>4, FromIs
  <1>6. Idle \in Walks /\ Idle.media = {} /\ Idle.raw = {}
    BY IdleIs DEF FeedInv, FeedOK
  <1> HIDE DEF from
  <1>7. walk' \in Walks /\ walk'.step = "page" /\ walk'.full = full /\ walk'.pending = from.pending
        /\ walk'.max_id = from.max_id /\ walk'.media = {} /\ walk'.raw = {}
    <2>1. from.pending \in SUBSET (1 .. AllPosts)
      BY <1>3, <1>5
    <2> QED BY <1>1, <1>5, <1>6, <2>1 DEF Walks, Steps
  <1>8. due' \subseteq listed
    BY <1>1, <1>3 DEF FeedOK
  <1>9. FeedOK'
    BY <1>1, <1>2, <1>3, <1>5, <1>7, <1>8 DEF FeedOK, Onward
  <1>10. \A m : Done(m)' <=> Done(m)
    BY <1>1 DEF Done, Readable
  <1>11. CursorInv'
    BY <1>1, <1>10 DEF FeedInv, CursorInv, Ahead
  <1>12. ASSUME full
         PROVE  \A m \in due' : Done(m)' \/ Ahead(m, Min(from.pending), from.max_id)
    <2>1. CASE cursor.col \in cols
      BY <1>1, <1>5, <1>10, <1>12, <2>1 DEF FeedInv, CursorInv
    <2>2. CASE cursor.col \notin cols
      <3> SUFFICES ASSUME NEW m \in due' PROVE Ahead(m, Min(from.pending), from.max_id)
        OBVIOUS
      <3>1. m[2] \in cols /\ cols \subseteq Nat
        BY <1>3, <1>8 DEF FeedOK
      <3>2. Min(cols) <= m[2] /\ Min(cols) \in Nat
        BY <3>1, MinOf
      <3>3. from.pending = cols /\ from.max_id = 0
        BY <1>5, <1>12, <2>2
      <3>4. m[2] > Min(cols) \/ m[2] = Min(cols)
        <4>1. m[2] \in Nat
          BY <3>1
        <4> QED BY <3>2, <4>1
      <3> QED BY <3>3, <3>4 DEF Ahead
    <2> QED BY <2>1, <2>2
  <1>13. WalkInv'
    BY <1>7, <1>12 DEF WalkInv, Ahead
  <1> QED BY <1>9, <1>11, <1>13 DEF FeedInv

-----------------------------------------------------------------------------
(* What a walk does after a page                                           *)

\* Asked for more, a walk of all goes on where all that is missing is still ahead,
\* and ends where nothing is.
LEMMA ResumedIs ==
  ASSUME FeedsAssumption, FeedOK, NEW w \in Walks, Onward(w.pending)
  PROVE  /\ Resumed(w) \in Walks /\ Resumed(w).step \in {"page", "clear"} /\ Resumed(w).full = w.full
         /\ Resumed(w).media = w.media /\ Resumed(w).raw = w.raw /\ Onward(Resumed(w).pending)
         /\ w.full /\ (w.raw = {} => w.next <= 0) =>
              \A D \in SUBSET due : (\A m \in D : Later(m, w)) =>
                /\ Resumed(w).step = "page" => \A m \in D : Ahead(m, Min(Resumed(w).pending), Resumed(w).max_id)
                /\ Resumed(w).step = "clear" => D = {}
  <1> DEFINE rest == w.pending \ {Min(w.pending)}
             room == w.full \/ w.fetched < Amount
  <1>1. AllPosts \in Nat /\ w.pending \subseteq 1 .. AllPosts /\ w.pending \subseteq Nat /\ w.pending # {} /\ Last \in Nat
        /\ cols \subseteq Nat
    <2>1. AllPosts \in Nat /\ Last \in Nat /\ cols \subseteq 1 .. AllPosts
      BY Numbers DEF FeedOK
    <2>2. w.pending \subseteq 1 .. AllPosts /\ w.pending # {}
      BY DEF Walks, Onward
    <2> QED BY <2>1, <2>2
  <1>2. Min(w.pending) \in w.pending /\ \A d \in w.pending : Min(w.pending) <= d
    BY <1>1, MinOf
  <1>3. rest # {} => Onward(rest)
    <2> SUFFICES ASSUME NEW c \in rest, NEW d \in cols, d >= c PROVE d \in rest
      BY DEF Onward
    <2>1. c \in Nat /\ d \in Nat /\ Min(w.pending) \in Nat /\ Min(w.pending) <= c /\ Min(w.pending) # c
      BY <1>1, <1>2
    <2>2. d # Min(w.pending)
      BY <2>1
    <2>3. d \in w.pending
      BY DEF Onward
    <2> QED BY <2>2, <2>3
  <1>4. Resumed(w) = IF room /\ HasMore(w.raw, w.next) THEN [w EXCEPT !.step = "page", !.max_id = w.next]
                     ELSE IF room /\ rest # {} THEN [w EXCEPT !.step = "page", !.pending = rest, !.max_id = 0]
                     ELSE Ended(w)
    BY DEF Resumed
  <1> HIDE DEF rest, room
  <1>5. CASE room /\ HasMore(w.raw, w.next)
    <2>1. Resumed(w) = [w EXCEPT !.step = "page", !.max_id = w.next]
      BY <1>4, <1>5
    <2>2. Resumed(w) \in Walks /\ Resumed(w).step = "page" /\ Resumed(w).full = w.full /\ Resumed(w).media = w.media
          /\ Resumed(w).raw = w.raw /\ Resumed(w).pending = w.pending /\ Resumed(w).max_id = w.next
      BY <2>1 DEF Walks, Steps
    <2>3. w.next # 0
      BY <1>5 DEF HasMore
    <2> QED BY <2>2, <2>3 DEF Later, Ahead
  <1>6. CASE ~(room /\ HasMore(w.raw, w.next)) /\ room /\ rest # {}
    <2>1. Resumed(w) = [w EXCEPT !.step = "page", !.pending = rest, !.max_id = 0]
      BY <1>4, <1>6
    <2>2. rest \in SUBSET (1 .. AllPosts) /\ 0 \in -2 .. Last
      BY <1>1 DEF rest
    <2>3. Resumed(w) \in Walks /\ Resumed(w).step = "page" /\ Resumed(w).full = w.full /\ Resumed(w).media = w.media
          /\ Resumed(w).raw = w.raw /\ Resumed(w).pending = rest /\ Resumed(w).max_id = 0
      BY <2>1, <2>2 DEF Walks, Steps
    <2>4. ASSUME w.full, w.raw = {} => w.next <= 0, NEW D \in SUBSET due, \A m \in D : Later(m, w), NEW m \in D
          PROVE  Ahead(m, Min(rest), 0)
      <3>1. m \in Post \X cols /\ Post \subseteq Nat
        BY Numbers DEF FeedOK
      <3>2. w.next = 0 \/ w.next <= 0
        BY <1>6, <2>4 DEF HasMore
      <3>3. m[2] > Min(w.pending)
        <4>1. m[1] \in Nat /\ m[1] > 0 /\ w.next \in Int
          BY <3>1, Numbers DEF Walks, FeedOK
        <4> QED BY <2>4, <3>2, <4>1 DEF Later
      <3>4. m[2] \in rest
        <4>1. m[2] \in cols /\ m[2] \in Nat /\ Min(w.pending) \in Nat /\ Min(w.pending) \in w.pending
          BY <1>1, <1>2, <3>1
        <4>2. m[2] \in w.pending
          BY <3>3, <4>1 DEF Onward
        <4> QED BY <3>3, <4>1, <4>2 DEF rest
      <3>5. Min(rest) <= m[2] /\ Min(rest) \in Nat /\ m[2] \in Nat
        <4>1. rest \subseteq Nat
          BY <1>1 DEF rest
        <4> QED BY <3>4, <4>1, MinOf
      <3> QED BY <3>5 DEF Ahead
    <2> QED BY <1>3, <1>6, <2>3, <2>4
  <1>7. CASE ~(room /\ HasMore(w.raw, w.next)) /\ ~(room /\ rest # {})
    <2>1. Resumed(w) = [w EXCEPT !.step = "clear"]
      BY <1>4, <1>7 DEF Ended
    <2>2. Resumed(w) \in Walks /\ Resumed(w).step = "clear" /\ Resumed(w).full = w.full /\ Resumed(w).media = w.media
          /\ Resumed(w).raw = w.raw /\ Resumed(w).pending = w.pending
      BY <2>1 DEF Walks, Steps
    <2>3. ASSUME w.full, w.raw = {} => w.next <= 0, NEW D \in SUBSET due, \A m \in D : Later(m, w), NEW m \in D
          PROVE  FALSE
      <3>1. m \in Post \X cols /\ Post \subseteq Nat
        BY Numbers DEF FeedOK
      <3>2. room /\ rest = {}
        BY <1>7, <2>3 DEF room
      <3>3. w.next = 0 \/ w.next <= 0
        BY <1>7, <2>3, <3>2 DEF HasMore
      <3>4. m[2] > Min(w.pending)
        <4>1. m[1] \in Nat /\ m[1] > 0 /\ w.next \in Int
          BY <3>1, Numbers DEF Walks, FeedOK
        <4> QED BY <2>3, <3>3, <4>1 DEF Later
      <3>5. m[2] \in cols /\ m[2] \in Nat /\ Min(w.pending) \in Nat /\ Min(w.pending) \in w.pending
        BY <1>1, <1>2, <3>1
      <3>6. m[2] \in w.pending
        BY <3>4, <3>5 DEF Onward
      <3> QED BY <3>2, <3>4, <3>5, <3>6 DEF rest
    <2> QED BY <2>2, <2>3
  <1> QED BY <1>5, <1>6, <1>7

\* Of a page, a walk of all keeps what could be read.
LEMMA MediaOf ==
  ASSUME FeedsAssumption, category \in Categories, NEW raw \in SUBSET Post, NEW media \in PageMedia(Extracted(raw))
  PROVE  /\ media \subseteq raw
         /\ walk.full => \A p \in raw : Readable(p) => p \in media
  <1>1. Extracted(raw) = {p \in raw : Readable(p)}
    <2>1. CASE category = "shared"
      <3>1. Resolved(raw) = raw \ Poison
        BY Numbers, ResolvedIs
      <3> QED BY <2>1, <3>1 DEF Extracted, Readable
    <2>2. CASE category # "shared"
      BY <2>2 DEF Extracted, Readable
    <2> QED BY <2>1, <2>2
  <1>2. media \subseteq Extracted(raw) /\ (walk.full => media = Extracted(raw))
    <2>1. CASE walk.full
      BY <2>1 DEF PageMedia, Limited
    <2>2. CASE ~walk.full /\ category = "shared"
      BY <2>2 DEF PageMedia, Limited
    <2>3. CASE ~walk.full /\ category # "shared"
      BY <2>3 DEF PageMedia, Limited, Latest
    <2> QED BY <2>1, <2>2, <2>3
  <1> QED BY <1>1, <1>2

LEMMA PageFeed ==
  ASSUME FeedsAssumption, FeedInv, Page
  PROVE  FeedInv'
  <1> DEFINE c == Min(walk.pending)
             below == {p \in Post : <<p, c>> \in listed /\ (walk.max_id = 0 \/ p < walk.max_id)}
             raw == Latest(PageSize[category], below)
  <1>1. category' = category /\ cols' = cols /\ listed' = listed /\ held' = held /\ filed' = filed
        /\ cursor' = cursor /\ due' = due /\ cuts' = cuts /\ walk.step = "page"
    BY DEF Page
  <1>2. PICK media \in PageMedia(Extracted(raw)), more \in BOOLEAN :
          /\ raw # below => more
          /\ LET next == IF ~more THEN 0 ELSE IF raw # {} THEN Min(raw) ELSE IF walk.max_id = -1 THEN -2 ELSE -1
                 w == [walk EXCEPT !.fetched = @ + Cardinality(media), !.media = media, !.new = FALSE,
                                   !.raw = raw, !.next = next, !.yielded = media # {}]
             IN  walk' = IF media # {} \/ (category = "shared" /\ raw # {})
                         THEN [w EXCEPT !.step = "file"] ELSE Resumed(w)
    BY DEF Page
  <1> DEFINE next == IF ~more THEN 0 ELSE IF raw # {} THEN Min(raw) ELSE IF walk.max_id = -1 THEN -2 ELSE -1
             w == [walk EXCEPT !.fetched = @ + Cardinality(media), !.media = media, !.new = FALSE,
                               !.raw = raw, !.next = next, !.yielded = media # {}]
  <1>3. walk' = IF media # {} \/ (category = "shared" /\ raw # {}) THEN [w EXCEPT !.step = "file"] ELSE Resumed(w)
    BY <1>2
  <1>4. FeedOK /\ Last \in Nat /\ AllPosts \in Nat /\ Post = 1 .. Last /\ PageSize[category] \in Nat \ {0}
    BY Numbers DEF FeedInv, FeedOK
  <1>5. /\ raw \subseteq below /\ below \subseteq Post
        /\ \A p \in raw, q \in below : q > p => q \in raw
        /\ below # {} => raw # {}
    <2>1. below \subseteq 1 .. Last
      BY <1>4
    <2> HIDE DEF below
    <2> QED BY <1>4, <2>1, LatestOf
  <1>6. media \subseteq raw /\ raw \in SUBSET Post /\ (walk.full => \A p \in raw : Readable(p) => p \in media)
    <2>1. raw \in SUBSET Post
      BY <1>5
    <2> HIDE DEF raw
    <2> QED BY <1>4, <2>1, MediaOf DEF FeedOK
  <1>7. raw # {} => Min(raw) \in raw /\ Min(raw) \in 1 .. Last /\ \A p \in raw : Min(raw) <= p
    <2> HIDE DEF raw
    <2>1. raw \subseteq Nat
      BY <1>4, <1>6
    <2> QED BY <1>4, <1>6, <2>1, MinOf
  <1>8. next \in -2 .. Last /\ (raw # {} => next >= 0) /\ (raw = {} => next <= 0)
    <2> HIDE DEF raw
    <2> QED BY <1>4, <1>7
  <1>9. Cardinality(media) \in Nat
    <2>1. media \subseteq 1 .. Last
      BY <1>4, <1>6
    <2> QED BY <1>4, <2>1, FinitePart
  <1>10. c \in Nat
    <2>1. walk.pending \subseteq Nat /\ walk.pending # {}
      BY <1>1, <1>4 DEF FeedOK, Walks, Onward
    <2> QED BY <2>1, MinOf
  <1> DEFINE D == {m \in due : ~Done(m)}
  <1>11. ASSUME walk.full, NEW m \in D
         PROVE  (m[2] = c /\ m[1] \in media) \/ m[2] > c \/ (m[2] = c /\ next # 0 /\ m[1] < next)
    <2>1. m \in listed /\ m = <<m[1], m[2]>> /\ m[1] \in Post /\ m[2] \in Nat /\ Readable(m[1])
      <3>1. m \in due /\ ~Done(m)
        OBVIOUS
      <3> HIDE DEF D, w, next, raw, below, c
      <3>2. m \in Post \X cols /\ m \in listed
        BY <1>4, <3>1 DEF FeedOK
      <3>3. cols \subseteq Nat
        BY <1>4 DEF FeedOK
      <3>4. Readable(m[1])
        BY <3>1 DEF Done
      <3>5. m = <<m[1], m[2]>> /\ m[1] \in Post /\ m[2] \in cols
        BY <3>2
      <3> QED BY <3>2, <3>3, <3>4, <3>5
    <2>2. Ahead(m, c, walk.max_id)
      BY <1>1, <1>11 DEF FeedInv, WalkInv
    <2>3. CASE m[2] = c
      <3>1. m[1] \in below
        BY <1>10, <2>1, <2>2, <2>3 DEF Ahead
      <3> HIDE DEF below, raw
      <3>2. CASE m[1] \in raw
        BY <1>6, <1>11, <2>1, <2>3, <3>2
      <3>3. CASE m[1] \notin raw
        <4>1. more /\ raw # {}
          BY <1>2, <1>5, <3>1, <3>3 DEF raw, below
        <4>2. next = Min(raw) /\ next # 0
          BY <1>4, <1>7, <4>1
        <4>3. m[1] < Min(raw)
          <5>1. m[1] \in Nat /\ Min(raw) \in Nat /\ Min(raw) \in raw
            BY <1>4, <1>7, <2>1, <4>1
          <5>2. ~ (m[1] > Min(raw)) /\ m[1] # Min(raw)
            BY <1>5, <3>1, <3>3, <5>1
          <5> QED BY <5>1, <5>2
        <4> HIDE DEF next
        <4> QED BY <2>3, <4>2, <4>3
      <3> QED BY <3>2, <3>3
    <2>4. CASE m[2] # c
      BY <2>2, <2>4 DEF Ahead
    <2> QED BY <2>3, <2>4
  <1> HIDE DEF next, raw, below
  <1>12. w \in Walks /\ w.step = "page" /\ w.full = walk.full /\ w.pending = walk.pending /\ w.media = media /\ w.raw = raw
         /\ w.next = next
    <2>1. walk \in Walks /\ walk.step = "page"
      BY <1>1, <1>4 DEF FeedOK
    <2>2. walk.fetched + Cardinality(media) \in Nat
      BY <1>9, <2>1 DEF Walks
    <2>3. media \in SUBSET Post /\ raw \in SUBSET Post /\ (media # {}) \in BOOLEAN
      BY <1>6
    <2> QED BY <1>8, <2>1, <2>2, <2>3 DEF Walks
  <1> HIDE DEF w, D, c
  <1>13. Last' = Last /\ AllPosts' = AllPosts /\ Post' = Post /\ Walks' = Walks
    BY <1>1, SameCategory
  <1>14. \A m : Done(m)' <=> Done(m)
    BY <1>1 DEF Done, Readable
  <1>15. CursorInv'
    BY <1>1, <1>14 DEF FeedInv, CursorInv, Ahead
  <1>16. Onward(walk.pending)
    BY <1>1, <1>4 DEF FeedOK
  <1>17. CASE media # {} \/ (category = "shared" /\ raw # {})
    <2>1. walk' = [w EXCEPT !.step = "file"]
      BY <1>3, <1>17 DEF w, next
    <2>2. walk' \in Walks /\ walk'.step = "file" /\ walk'.full = walk.full /\ walk'.pending = walk.pending /\ walk'.media = media
          /\ walk'.raw = raw /\ walk'.next = next
      BY <1>12, <2>1 DEF Walks, Steps
    <2>3. raw # {} /\ next >= 0
      BY <1>6, <1>8, <1>17
    <2>4. FeedOK'
      <3>1. Onward(walk.pending)'
        BY <1>1, <1>16, <2>2 DEF Onward
      <3>2. walk'.media \subseteq walk'.raw /\ walk'.raw # {} /\ walk'.next >= 0
        BY <1>6, <2>2, <2>3
      <3> QED BY <1>1, <1>4, <1>13, <2>2, <3>1, <3>2 DEF FeedOK
    <2>5. WalkInv'
      <3> SUFFICES ASSUME walk.full, NEW m \in due, ~Done(m) PROVE (InHand(m) \/ Later(m, walk))'
        BY <1>1, <1>14, <2>2 DEF WalkInv
      <3>1. m \in D
        BY DEF D
      <3> QED BY <1>11, <2>2, <3>1 DEF InHand, Later, c
    <2> QED BY <1>15, <2>4, <2>5 DEF FeedInv
  <1>18. CASE ~(media # {} \/ (category = "shared" /\ raw # {}))
    <2>1. walk' = Resumed(w)
      BY <1>3, <1>18 DEF w, next
    <2>2. Onward(w.pending)
      BY <1>12, <1>16
    <2>3. /\ walk' \in Walks /\ walk'.step \in {"page", "clear"} /\ walk'.full = walk.full
          /\ walk'.media = media /\ walk'.raw = raw /\ Onward(walk'.pending)
      BY <1>4, <1>12, <2>1, <2>2, ResumedIs
    <2>4. FeedOK'
      BY <1>1, <1>4, <1>6, <1>13, <2>3 DEF FeedOK, Onward
    <2>5. WalkInv'
      <3> SUFFICES ASSUME walk.full PROVE WalkInv'
        BY <2>3 DEF WalkInv
      <3>1. \A m \in D : Later(m, w)
        BY <1>11, <1>12, <1>18 DEF Later, c
      <3>2. D \in SUBSET due
        BY DEF D
      <3>3. /\ walk'.step = "page" => \A m \in D : Ahead(m, Min(walk'.pending), walk'.max_id)
            /\ walk'.step = "clear" => D = {}
        BY <1>4, <1>8, <1>12, <2>1, <2>2, <3>1, <3>2, ResumedIs
      <3>4. \A m \in due : Done(m)' \/ m \in D
        BY <1>14 DEF D
      <3> QED BY <1>1, <2>3, <3>3, <3>4 DEF WalkInv, Ahead
    <2> QED BY <1>15, <2>4, <2>5 DEF FeedInv
  <1> QED BY <1>17, <1>18

-----------------------------------------------------------------------------
(* A page is filed and recorded, and the cursor is set                     *)

LEMMA FileFeed ==
  ASSUME FeedsAssumption, FeedInv, File
  PROVE  FeedInv'
  <1> DEFINE c == Min(walk.pending)
  <1>1. category' = category /\ cols' = cols /\ listed' = listed /\ held' = held /\ cursor' = cursor
        /\ due' = due /\ cuts' = cuts /\ walk.step = "file" /\ walk' = [walk EXCEPT !.step = "insert"]
        /\ filed' = IF category = "saved" THEN filed \cup {<<p, c>> : p \in walk.media} ELSE filed
    BY DEF File
  <1>2. Last' = Last /\ AllPosts' = AllPosts /\ Post' = Post /\ Walks' = Walks
    BY <1>1, SameCategory
  <1>3. FeedOK /\ walk \in Walks /\ Onward(walk.pending)
    BY <1>1 DEF FeedInv, FeedOK
  <1>4. walk' \in Walks /\ walk'.step = "insert" /\ walk'.full = walk.full /\ walk'.pending = walk.pending
        /\ walk'.media = walk.media /\ walk'.raw = walk.raw /\ walk'.next = walk.next
    BY <1>1, <1>3 DEF Walks, Steps
  <1>5. filed \subseteq filed' /\ filed' \subseteq Post \X (1 .. Named + 1)
    <2>1. CASE category = "saved"
      <3>1. c \in 1 .. Named + 1
        <4>1. walk.pending \subseteq 1 .. AllPosts /\ walk.pending # {} /\ AllPosts = Named + 1 /\ Named \in Nat
          BY <1>3, <2>1, Numbers DEF FeedOK, Walks, Onward
        <4>2. walk.pending \subseteq Nat
          BY <4>1
        <4> QED BY <4>1, <4>2, MinOf
      <3>2. walk.media \subseteq Post /\ filed \subseteq Post \X (1 .. Named + 1)
        BY <1>3 DEF FeedOK, Walks
      <3> HIDE DEF c
      <3>3. \A p \in walk.media : <<p, c>> \in Post \X (1 .. Named + 1)
        BY <3>1, <3>2
      <3> QED BY <1>1, <2>1, <3>2, <3>3
    <2>2. CASE category # "saved"
      BY <1>1, <1>3, <2>2 DEF FeedOK
    <2> QED BY <2>1, <2>2
  <1>6. FeedOK'
    <2>1. Onward(walk.pending)'
      BY <1>1, <1>3, <1>4 DEF Onward
    <2>2. walk'.media \subseteq walk'.raw /\ walk'.raw # {} /\ walk'.next >= 0
      BY <1>1, <1>3, <1>4 DEF FeedOK
    <2> QED BY <1>1, <1>2, <1>3, <1>4, <1>5, <2>1, <2>2 DEF FeedOK
  <1>7. \A m : Done(m) => Done(m)'
    BY <1>1, <1>5, DoneStays
  <1>8. CursorInv'
    BY <1>1, <1>7 DEF FeedInv, CursorInv, Ahead
  <1>9. WalkInv'
    <2> SUFFICES ASSUME walk.full, NEW m \in due, ~Done(m) PROVE (InHand(m) \/ Later(m, walk))'
      BY <1>1, <1>4, <1>7 DEF WalkInv
    <2>1. InHand(m) \/ Later(m, walk)
      BY <1>1 DEF FeedInv, WalkInv
    <2>2. m = <<m[1], m[2]>>
      BY <1>3 DEF FeedOK
    <2>3. CASE InHand(m)
      <3>1. m[2] = c /\ m[1] \in walk.media
        BY <2>3 DEF InHand
      <3>2. category = "saved" => m \in filed'
        BY <1>1, <2>2, <3>1
      <3> QED BY <1>1, <1>4, <3>1, <3>2 DEF InHand
    <2>4. CASE Later(m, walk)
      BY <1>4, <2>4 DEF Later
    <2> QED BY <2>1, <2>3, <2>4
  <1> QED BY <1>6, <1>8, <1>9 DEF FeedInv

LEMMA InsertFeed ==
  ASSUME FeedsAssumption, FeedInv, NEW p \in Post, Insert(p)
  PROVE  FeedInv'
  <1>1. category' = category /\ cols' = cols /\ listed' = listed /\ filed' = filed /\ cursor' = cursor
        /\ due' = due /\ cuts' = cuts /\ walk.step = "insert" /\ held' = held \cup {p}
        /\ walk' = [walk EXCEPT !.media = @ \ {p}, !.new = @ \/ p \notin held]
    BY DEF Insert
  <1>2. Last' = Last /\ AllPosts' = AllPosts /\ Post' = Post /\ Walks' = Walks
    BY <1>1, SameCategory
  <1>3. FeedOK /\ walk \in Walks /\ Onward(walk.pending)
    BY <1>1 DEF FeedInv, FeedOK
  <1>4. walk' \in Walks /\ walk'.step = "insert" /\ walk'.full = walk.full /\ walk'.pending = walk.pending
        /\ walk'.media = walk.media \ {p} /\ walk'.raw = walk.raw /\ walk'.next = walk.next
    BY <1>1, <1>3 DEF Walks
  <1>5. FeedOK'
    <2>1. Onward(walk.pending)'
      BY <1>1, <1>3, <1>4 DEF Onward
    <2>2. walk'.media \subseteq walk'.raw /\ walk'.raw # {} /\ walk'.next >= 0
      BY <1>1, <1>3, <1>4 DEF FeedOK
    <2> QED BY <1>1, <1>2, <1>3, <1>4, <2>1, <2>2 DEF FeedOK
  <1>6. \A m : Done(m) => Done(m)'
    BY <1>1, DoneStays
  <1>7. CursorInv'
    BY <1>1, <1>6 DEF FeedInv, CursorInv, Ahead
  <1>8. WalkInv'
    <2> SUFFICES ASSUME walk.full, NEW m \in due, ~Done(m)' PROVE (InHand(m) \/ Later(m, walk))'
      BY <1>1, <1>4 DEF WalkInv
    <2>1. InHand(m) \/ Later(m, walk)
      BY <1>1, <1>6 DEF FeedInv, WalkInv
    <2>2. CASE InHand(m)
      <3>1. m[1] # p
        BY <1>1, <2>2 DEF InHand, Done
      <3> QED BY <1>1, <1>4, <2>2, <3>1 DEF InHand
    <2>3. CASE Later(m, walk)
      BY <1>4, <2>3 DEF Later
    <2> QED BY <2>1, <2>2, <2>3
  <1> QED BY <1>5, <1>7, <1>8 DEF FeedInv

\* The place that is saved is one from which all that is missing is ahead.
LEMMA PositionIs ==
  ASSUME FeedsAssumption, FeedOK, walk.step = "insert", NEW D \in SUBSET due, \A m \in D : Later(m, walk)
  PROVE  /\ NextPosition \in [col : 0 .. AllPosts, max_id : 0 .. Last]
         /\ NextPosition.col \in cols => \A m \in D : Ahead(m, NextPosition.col, NextPosition.max_id)
  <1> DEFINE c == Min(walk.pending)
             after == {d \in walk.pending : d > c}
  <1>1. walk.pending \subseteq 1 .. AllPosts /\ walk.pending \subseteq Nat /\ Onward(walk.pending) /\ AllPosts \in Nat
        /\ Last \in Nat /\ cols \subseteq 1 .. AllPosts /\ walk.next \in 0 .. Last /\ category \in Categories
    <2>1. walk.pending \subseteq 1 .. AllPosts /\ Onward(walk.pending) /\ AllPosts \in Nat /\ Last \in Nat
          /\ cols \subseteq 1 .. AllPosts /\ walk.next \in -2 .. Last /\ walk.next >= 0 /\ category \in Categories
      BY Numbers DEF FeedOK, Walks
    <2> QED BY <2>1
  <1>2. c \in 1 .. AllPosts
    BY <1>1, MinOf DEF Onward
  <1>3. after # {} => Min(after) \in after /\ Min(after) \in 1 .. AllPosts /\ \A d \in after : Min(after) <= d
    <2>1. after \subseteq Nat /\ after \subseteq 1 .. AllPosts
      BY <1>1
    <2> HIDE DEF after
    <2> QED BY <2>1, MinOf
  <1>4. \A m \in D : m[2] \in cols /\ m[2] \in Nat
    <2> TAKE m \in D
    <2>1. m \in Post \X cols
      BY DEF FeedOK
    <2>2. m[2] \in cols
      BY <2>1
    <2>3. cols \subseteq Nat
      BY <1>1
    <2> QED BY <2>2, <2>3
  <1>5. CASE walk.next # 0
    <2>1. NextPosition = [col |-> c, max_id |-> walk.next]
      BY <1>5 DEF NextPosition
    <2> HIDE DEF c
    <2> QED BY <1>1, <1>2, <1>5, <2>1 DEF Later, Ahead, c
  <1>6. CASE walk.next = 0 /\ category # "saved"
    <2>1. NextPosition = None /\ 0 \notin cols
      BY <1>1, <1>6 DEF NextPosition
    <2> QED BY <1>1, <2>1 DEF None
  <1>7. CASE walk.next = 0 /\ category = "saved"
    <2>1. NextPosition = [col |-> IF after = {} THEN c ELSE Min(after), max_id |-> 0]
      BY <1>7 DEF NextPosition
    <2>2. \A m \in D : m[2] \in after
      <3> TAKE m \in D
      <3>1. m[2] > c /\ m[2] \in cols /\ m[2] \in Nat
        BY <1>4, <1>7 DEF Later
      <3>2. m[2] \in walk.pending
        <4>1. c \in walk.pending /\ c \in Nat
          BY <1>1, MinOf DEF Onward
        <4> HIDE DEF c
        <4> QED BY <1>1, <3>1, <4>1 DEF Onward
      <3> QED BY <3>1, <3>2
    <2> HIDE DEF c, after
    <2>3. CASE after = {}
      BY <1>1, <1>2, <2>1, <2>2, <2>3
    <2>4. CASE after # {}
      <3>1. NextPosition = [col |-> Min(after), max_id |-> 0]
        BY <2>1, <2>4
      <3>2. \A m \in D : m[2] > Min(after) \/ m[2] = Min(after)
        <4> TAKE m \in D
        <4>1. Min(after) <= m[2] /\ Min(after) \in Nat /\ m[2] \in Nat
          BY <1>1, <1>3, <1>4, <2>2, <2>4
        <4> QED BY <4>1
      <3> QED BY <1>1, <1>3, <2>4, <3>1, <3>2 DEF Ahead
    <2> QED BY <2>3, <2>4
  <1> QED BY <1>5, <1>6, <1>7

LEMMA SetCursorFeed ==
  ASSUME FeedsAssumption, FeedInv, SetCursor
  PROVE  FeedInv'
  <1> DEFINE D == {m \in due : ~Done(m)}
             ends == ~walk.full /\ category \in Chronological /\ walk.yielded /\ ~walk.new
  <1>1. category' = category /\ cols' = cols /\ listed' = listed /\ filed' = filed /\ held' = held
        /\ due' = due /\ cuts' = cuts /\ walk.step = "insert" /\ walk.media = {}
        /\ cursor' = (IF walk.full THEN NextPosition ELSE cursor)
        /\ walk' = IF ends THEN Ended(walk) ELSE Resumed(walk)
    BY DEF SetCursor
  <1>2. Last' = Last /\ AllPosts' = AllPosts /\ Post' = Post /\ Walks' = Walks
    BY <1>1, SameCategory
  <1>3. FeedOK /\ walk \in Walks /\ Onward(walk.pending) /\ walk.raw # {}
    BY <1>1 DEF FeedInv, FeedOK
  <1>4. \A m : Done(m)' <=> Done(m)
    BY <1>1 DEF Done, Readable
  <1>5. D \in SUBSET due /\ (walk.full => \A m \in D : Later(m, walk))
    BY <1>1 DEF FeedInv, WalkInv, InHand
  <1> HIDE DEF D, ends
  <1>6. /\ walk' \in Walks /\ walk'.step \in {"page", "clear"} /\ walk'.full = walk.full
        /\ walk'.media = walk.media /\ walk'.raw = walk.raw /\ Onward(walk'.pending)
    <2>1. CASE ends
      <3>1. walk' = [walk EXCEPT !.step = "clear"]
        BY <1>1, <2>1 DEF Ended
      <3> QED BY <1>3, <3>1 DEF Walks, Steps
    <2>2. CASE ~ends
      <3>1. walk' = Resumed(walk)
        BY <1>1, <2>2
      <3> QED BY <1>3, <3>1, ResumedIs
    <2> QED BY <2>1, <2>2
  <1>7. cursor' \in [col : 0 .. AllPosts, max_id : 0 .. Last]
    BY <1>1, <1>3, <1>5, PositionIs DEF FeedOK
  <1>8. FeedOK'
    <2>1. Onward(walk.pending)'
      BY <1>1, <1>6 DEF Onward
    <2>2. walk'.media \subseteq walk'.raw /\ walk'.step \notin {"file", "insert"}
      BY <1>1, <1>6
    <2> QED BY <1>1, <1>2, <1>3, <1>6, <1>7, <2>1, <2>2 DEF FeedOK
  <1>9. \A m \in due : Done(m)' \/ m \in D
    BY <1>4 DEF D
  <1>10. CursorInv'
    <2>1. CASE walk.full
      <3>1. cursor' = NextPosition
        BY <1>1, <2>1
      <3>2. NextPosition.col \in cols => \A m \in D : Ahead(m, NextPosition.col, NextPosition.max_id)
        BY <1>1, <1>3, <1>5, <2>1, PositionIs
      <3> QED BY <1>1, <1>9, <3>1, <3>2 DEF CursorInv, Ahead
    <2>2. CASE ~walk.full
      BY <1>1, <1>4, <2>2 DEF FeedInv, CursorInv, Ahead
    <2> QED BY <2>1, <2>2
  <1>11. WalkInv'
    <2> SUFFICES ASSUME walk.full PROVE WalkInv'
      BY <1>6 DEF WalkInv
    <2>1. walk' = Resumed(walk)
      BY <1>1 DEF ends
    <2>2. /\ walk'.step = "page" => \A m \in D : Ahead(m, Min(walk'.pending), walk'.max_id)
          /\ walk'.step = "clear" => D = {}
      BY <1>3, <1>5, <2>1, ResumedIs
    <2> QED BY <1>1, <1>6, <1>9, <2>2 DEF WalkInv, Ahead
  <1> QED BY <1>8, <1>10, <1>11 DEF FeedInv

LEMMA ClearCursorFeed ==
  ASSUME FeedsAssumption, FeedInv, ClearCursor
  PROVE  FeedInv'
  <1>1. category' = category /\ cols' = cols /\ listed' = listed /\ filed' = filed /\ held' = held
        /\ due' = due /\ cuts' = cuts /\ walk' = Idle /\ cursor' = IF walk.full THEN None ELSE cursor
    BY DEF ClearCursor
  <1>2. Last' = Last /\ AllPosts' = AllPosts /\ Post' = Post /\ Walks' = Walks
    BY <1>1, SameCategory
  <1>3. Idle \in Walks /\ Idle.step = "idle" /\ Idle.full = FALSE /\ Idle.media = {} /\ Idle.raw = {}
    BY IdleIs DEF FeedInv, FeedOK
  <1>4. FeedOK /\ Last \in Nat /\ AllPosts \in Nat /\ cols \subseteq 1 .. AllPosts
    BY Numbers DEF FeedInv, FeedOK
  <1>5. None \in [col : 0 .. AllPosts, max_id : 0 .. Last] /\ None.col \notin cols
    BY <1>4 DEF None
  <1>6. cursor' \in [col : 0 .. AllPosts, max_id : 0 .. Last]
    BY <1>1, <1>4, <1>5 DEF FeedOK
  <1>7. FeedOK'
    BY <1>1, <1>2, <1>3, <1>4, <1>6 DEF FeedOK
  <1>8. CursorInv' /\ WalkInv'
    BY <1>1, <1>3, <1>5 DEF FeedInv, CursorInv, WalkInv, Done, Readable, Ahead
  <1> QED BY <1>7, <1>8 DEF FeedInv

-----------------------------------------------------------------------------
(* What holds of every state, and of every walk that ends                  *)

LEMMA NextFeed ==
  ASSUME FeedsAssumption, FeedInv, [Next]_vars
  PROVE  FeedInv'
  <1>1. CASE Account
    BY <1>1, AccountFeed
  <1>2. CASE Cut
    BY <1>2, CutFeed
  <1>3. CASE Page
    BY <1>3, PageFeed
  <1>4. CASE File
    BY <1>4, FileFeed
  <1>5. CASE \E p \in Post : Insert(p)
    BY <1>5, InsertFeed
  <1>6. CASE SetCursor
    BY <1>6, SetCursorFeed
  <1>7. CASE ClearCursor
    BY <1>7, ClearCursorFeed
  <1>8. CASE \E p \in Post : Other(p)
    BY <1>8, OtherFeed
  <1>9. CASE \E full \in BOOLEAN : Start(full)
    BY <1>9, StartFeed
  <1>10. CASE UNCHANGED vars
    <2>1. FeedOK'
      BY <1>10 DEF vars, FeedInv, FeedOK, Onward, Walks, Last, Post, AllPosts
    <2>2. CursorInv' /\ WalkInv'
      BY <1>10 DEF vars, FeedInv, CursorInv, WalkInv, Done, Readable, Ahead, InHand, Later
    <2> QED BY <2>1, <2>2 DEF FeedInv
  <1> QED BY <1>1, <1>2, <1>3, <1>4, <1>5, <1>6, <1>7, <1>8, <1>9, <1>10 DEF Next, Job

LEMMA FeedHolds ==
  ASSUME FeedsAssumption
  PROVE  Spec => []FeedInv
  <1>1. Init => FeedInv
    BY InitFeed
  <1>2. FeedInv /\ [Next]_vars => FeedInv'
    BY NextFeed
  <1> QED BY <1>1, <1>2, PTL DEF Spec

\* A walk of a feed has a place in it, and a page at hand is of what was listed.
THEOREM FeedsAreTyped ==
  ASSUME FeedsAssumption
  PROVE  Spec => []TypeOK
  <1>1. FeedInv => TypeOK
    BY DEF FeedInv, FeedOK, TypeOK, Walks, Steps, Onward, Last
  <1> QED BY <1>1, FeedHolds, PTL

\* However many runs it took, and whatever was added, moved or deleted meanwhile, a
\* full walk that ends has recorded what was there when it began, and filed it under
\* the collections it stayed in (archiver.py:34-38, database.py:656-657).
THEOREM FullWalksAreWhole ==
  ASSUME FeedsAssumption
  PROVE  Spec => FullWalkIsWhole
  <1>1. FeedInv =>
          [walk.step = "clear" /\ walk.full /\ walk'.step = "idle" /\ cuts' = cuts =>
             \A m \in due : Readable(m[1]) => m[1] \in held /\ (category = "saved" => m \in filed)]_vars
    BY DEF FeedInv, WalkInv, Done
  <1> QED BY <1>1, FeedHolds, PTL DEF FullWalkIsWhole

-----------------------------------------------------------------------------
(* The walk of a source                                                    *)

CONSTANTS Kinds, Drafts, Source, Cap, Batch, Shell, MaxCrashes, MaxPosts, NoPost

VARIABLES kind, shown, dropped, rows, trip, crashes

S == INSTANCE SourceWalk WITH Posts <- MaxPosts, None <- NoPost, walk <- trip

\* The bounds are numbers.
Sized == MaxPosts \in Nat /\ Batch \in Nat /\ MaxCrashes \in Nat

\* newest_source_item answers with a post, or with nothing.
LEMMA WatermarkIsAPost ==
  ASSUME Sized, NEW s
  PROVE  S!Watermark(s) \in S!Post \cup {NoPost}
  <1> DEFINE mine == {p \in S!Held : rows[p].source = s}
  <1>1. CASE mine = {}
    BY <1>1 DEF S!Watermark
  <1>2. CASE mine # {}
    <2>1. mine \subseteq 1 .. MaxPosts
      BY DEF S!Held, S!Post
    <2>2. \E p \in mine : \A q \in mine : q <= p
      <3> HIDE DEF mine
      <3> QED BY <1>2, <2>1, GreatestOne DEF Sized
    <2>3. S!Watermark(s) \in mine
      <3>1. S!Watermark(s) = CHOOSE p \in mine : \A q \in mine : q <= p
        BY <1>2 DEF S!Watermark
      <3> HIDE DEF mine
      <3> QED BY <2>2, <3>1
    <2> QED BY <2>1, <2>3 DEF S!Post
  <1> QED BY <1>1, <1>2

-----------------------------------------------------------------------------
(* Types                                                                   *)

\* What the types say nothing of: where the walk may be.
Placed ==
  /\ DOMAIN trip = DOMAIN S!Idle
  /\ trip.next \in Int /\ trip.top \in 0 .. shown /\ trip.last \in BOOLEAN
  /\ trip.step # "idle" => /\ trip.source \in Source
                           /\ kind = "profile" => trip.next <= shown
                           /\ kind = "subreddit" => trip.next >= 1
  /\ trip.step = "read" => ~trip.last

Typed == S!TypeOK /\ Placed

LEMMA InitTyped ==
  ASSUME Sized, S!Init
  PROVE  Typed
  BY DEF Sized, S!Init, Typed, S!TypeOK, Placed, S!Post, S!Row, S!Absent, S!Idle, S!Old

\* What Take leaves where it does not end the walk.
LEMMA TakeTyped ==
  ASSUME Typed, trip.step = "read", NEW batch \in SUBSET S!Post, NEW next \in Int, NEW last \in BOOLEAN,
         kind = "profile" => next <= shown, kind = "subreddit" => next >= 1,
         S!Take(batch, next, last), UNCHANGED <<kind, shown, dropped, rows, crashes>>
  PROVE  Typed'
  <1>1. CASE batch # {}
    <2>1. trip' = [trip EXCEPT !.step = "insert", !.batch = batch, !.next = next, !.last = last,
                               !.old = [p \in batch \cap S!Held |-> rows[p]]]
      BY <1>1 DEF S!Take
    <2>2. /\ DOMAIN trip' = DOMAIN S!Idle /\ trip'.step = "insert" /\ trip'.batch = batch /\ trip'.next = next
          /\ trip'.last = last /\ trip'.old = [p \in batch \cap S!Held |-> rows[p]]
          /\ trip'.source = trip.source /\ trip'.since = trip.since /\ trip'.top = trip.top
      BY <2>1 DEF Typed, Placed, S!Idle
    <2> QED BY <2>2 DEF Typed, S!TypeOK, Placed, S!Old
  <1>2. CASE batch = {} /\ last
    BY <1>2 DEF S!Take, Typed, S!TypeOK, Placed, S!Idle, S!Old
  <1>3. CASE batch = {} /\ ~last
    <2>1. trip' = [trip EXCEPT !.next = next]
      BY <1>3 DEF S!Take
    <2>2. /\ DOMAIN trip' = DOMAIN S!Idle /\ trip'.step = "read" /\ trip'.batch = trip.batch /\ trip'.next = next
          /\ trip'.last = trip.last /\ trip'.old = trip.old
          /\ trip'.source = trip.source /\ trip'.since = trip.since /\ trip'.top = trip.top
      BY <2>1 DEF Typed, Placed, S!Idle
    <2> QED BY <2>2 DEF Typed, S!TypeOK, Placed, S!Old
  <1> QED BY <1>1, <1>2, <1>3

\* A slice ends where the search has no more, or hands over what lies above since.
LEMMA SliceTakes ==
  ASSUME Typed, S!Slice
  PROVE  \/ /\ {p \in 1 .. trip.next : p \notin dropped} = {} /\ S!Take({}, 0, TRUE)
         \/ \E oldest \in 1 .. trip.next :
              S!Take({p \in oldest .. trip.next : p \notin dropped /\ (trip.since = NoPost \/ p > trip.since)}, oldest - 1,
                   trip.since # NoPost /\ oldest <= trip.since)
  <1> DEFINE below == {p \in 1 .. trip.next : p \notin dropped}
  <1>1. CASE below = {}
    BY <1>1 DEF S!Slice
  <1>2. CASE below # {}
    <2>1. PICK oldest \in below :
            S!Take({p \in {p \in below : p >= oldest} : trip.since = NoPost \/ p > trip.since}, oldest - 1,
                 trip.since # NoPost /\ oldest <= trip.since)
      BY <1>2 DEF S!Slice
    <2>2. {p \in {p \in below : p >= oldest} : trip.since = NoPost \/ p > trip.since}
            = {p \in oldest .. trip.next : p \notin dropped /\ (trip.since = NoPost \/ p > trip.since)}
      BY DEF Typed, Placed
    <2> QED BY <2>1, <2>2
  <1> QED BY <1>1, <1>2

\* The rows of a walk's commits are rows.
LEMMA NextTyped ==
  ASSUME Sized, Typed, [S!Next]_(S!vars)
  PROVE  Typed'
  <1> USE DEF Sized
  <1>1. CASE S!Publish
    <2>1. shown' \in 0 .. MaxPosts /\ shown' = shown + 1
      BY <1>1 DEF S!Publish, Typed, S!TypeOK
    <2>2. dropped' \subseteq 1 .. shown'
      <3>1. shown \in Int /\ shown >= 0 /\ dropped \subseteq 1 .. shown
        BY DEF Typed, S!TypeOK
      <3>2. dropped' \subseteq dropped \cup {shown + 1}
        BY <1>1 DEF S!Publish
      <3> QED BY <2>1, <3>1, <3>2
    <2>3. UNCHANGED <<kind, rows, trip, crashes>>
      BY <1>1 DEF S!Publish
    <2> QED BY <2>1, <2>2, <2>3 DEF Typed, S!TypeOK, Placed, S!Old
  <1>2. CASE S!Crash
    BY <1>2 DEF S!Crash, Typed, S!TypeOK, Placed, S!Old, S!Idle
  <1>3. ASSUME NEW p \in S!Post, S!Like(p) PROVE Typed'
    <2>1. rows' \in [S!Post -> S!Row]
      BY <1>3 DEF S!Like, Typed, S!TypeOK, S!Row, S!Absent
    <2> QED BY <1>3, <2>1 DEF S!Like, Typed, S!TypeOK, Placed, S!Old
  <1>4. ASSUME NEW p \in S!Post, S!Drop(p) PROVE Typed'
    BY <1>4 DEF S!Drop, Typed, S!TypeOK, Placed, S!Old
  <1>5. ASSUME NEW s \in Source, NEW full \in BOOLEAN, S!Start(s, full) PROVE Typed'
    <2>1. (IF full THEN NoPost ELSE S!Watermark(s)) \in S!Post \cup {NoPost}
      BY WatermarkIsAPost
    <2> DEFINE since == IF full THEN NoPost ELSE S!Watermark(s)
    <2>2. trip' = [S!Idle EXCEPT !.step = "read", !.source = s, !.since = since,
                               !.next = IF kind = "profile" THEN shown ELSE 1, !.top = shown]
      BY <1>5 DEF S!Start
    <2> HIDE DEF since
    <2>3. /\ DOMAIN trip' = DOMAIN S!Idle /\ trip'.step = "read" /\ trip'.batch = {} /\ ~trip'.last /\ trip'.last \in BOOLEAN
          /\ trip'.next = (IF kind = "profile" THEN shown ELSE 1)
          /\ trip'.source = s /\ trip'.since = since /\ trip'.top = shown /\ trip'.old = [p \in {} |-> S!Absent]
      BY <2>2 DEF S!Idle
    <2>4. UNCHANGED <<kind, shown, dropped, rows, crashes>> /\ since \in S!Post \cup {NoPost}
      BY <1>5, <2>1 DEF S!Start, since
    <2> QED BY <2>3, <2>4 DEF Typed, S!TypeOK, Placed, S!Old
  <1>6. CASE S!Slice
    <2>1. UNCHANGED <<kind, shown, dropped, rows, crashes>> /\ trip.step = "read" /\ kind = "profile"
      BY <1>6 DEF S!Slice
    <2>2. CASE S!Take({}, 0, TRUE)
      <3>1. {} \in SUBSET S!Post /\ 0 \in Int /\ TRUE \in BOOLEAN /\ 0 <= shown
        BY DEF Typed, S!TypeOK
      <3> QED BY <2>1, <2>2, <3>1, TakeTyped
    <2>3. ASSUME NEW oldest \in 1 .. trip.next,
                 S!Take({p \in oldest .. trip.next : p \notin dropped /\ (trip.since = NoPost \/ p > trip.since)},
                      oldest - 1, trip.since # NoPost /\ oldest <= trip.since)
          PROVE Typed'
      <3> DEFINE batch == {p \in oldest .. trip.next : p \notin dropped /\ (trip.since = NoPost \/ p > trip.since)}
                 last == trip.since # NoPost /\ oldest <= trip.since
      <3>1. batch \in SUBSET S!Post /\ oldest - 1 \in Int /\ oldest - 1 <= shown
        BY <2>1 DEF Typed, S!TypeOK, Placed, S!Post
      <3>2. last \in BOOLEAN /\ S!Take(batch, oldest - 1, last)
        BY <2>3
      <3> HIDE DEF batch, last
      <3> QED BY <2>1, <3>1, <3>2, TakeTyped
    <2> QED BY <1>6, <2>2, <2>3, SliceTakes
  <1>7. CASE S!Lines
    <2> DEFINE upto == IF trip.next + Batch - 1 <= shown THEN trip.next + Batch - 1 ELSE shown
    <2>1. /\ UNCHANGED <<kind, shown, dropped, rows, crashes>> /\ trip.step = "read" /\ kind = "subreddit"
          /\ S!Take(trip.next .. upto, upto + 1, upto - trip.next + 1 < Batch)
      BY <1>7 DEF S!Lines
    <2>2. upto \in Int /\ upto + 1 >= 1 /\ trip.next .. upto \in SUBSET S!Post
      BY <2>1 DEF Typed, S!TypeOK, Placed, S!Post
    <2>3. upto + 1 \in Int /\ (upto - trip.next + 1 < Batch) \in BOOLEAN
      BY <2>2 DEF Typed, Placed
    <2> HIDE DEF upto
    <2> QED BY <2>1, <2>2, <2>3, TakeTyped
  <1>8. CASE S!InsertMany
    <2>1. rows' \in [S!Post -> S!Row]
      BY <1>8 DEF S!InsertMany, S!Step, Typed, S!TypeOK, Placed, S!Row, S!Text
    <2>2. trip' = [trip EXCEPT !.step = "restore"] /\ trip.step = "insert"
      BY <1>8 DEF S!InsertMany, S!Step
    <2> QED BY <1>8, <2>1, <2>2 DEF S!InsertMany, Typed, S!TypeOK, Placed, S!Old, S!Idle
  <1>9. CASE S!Restore
    <2>1. rows' \in [S!Post -> S!Row]
      BY <1>9 DEF S!Restore, Typed, S!TypeOK, S!Row
    <2>2. trip' = [trip EXCEPT !.step = "file"] /\ trip.step = "restore"
      BY <1>9 DEF S!Restore, S!Step
    <2> QED BY <1>9, <2>1, <2>2 DEF S!Restore, Typed, S!TypeOK, Placed, S!Old, S!Idle
  <1>10. CASE S!AddCategories
    <2>1. rows' \in [S!Post -> S!Row]
      BY <1>10 DEF S!AddCategories, Typed, S!TypeOK, S!Row
    <2>2. trip' = [trip EXCEPT !.step = "attribute"] /\ trip.step = "file"
      BY <1>10 DEF S!AddCategories, S!Step
    <2> QED BY <1>10, <2>1, <2>2 DEF S!AddCategories, Typed, S!TypeOK, Placed, S!Old, S!Idle
  <1>11. CASE S!Attribute
    <2>1. rows' \in [S!Post -> S!Row]
      BY <1>11 DEF S!Attribute, Typed, S!TypeOK, Placed, S!Row
    <2>2. CASE trip.last
      BY <1>11, <2>1, <2>2 DEF S!Attribute, Typed, S!TypeOK, Placed, S!Old, S!Idle
    <2>3. CASE ~trip.last
      <3>1. trip' = [trip EXCEPT !.step = "read", !.batch = {}, !.old = S!Idle.old]
        BY <1>11, <2>3 DEF S!Attribute
      <3>2. /\ DOMAIN trip' = DOMAIN S!Idle /\ trip'.step = "read" /\ trip'.batch = {} /\ trip'.next = trip.next
            /\ trip'.last = trip.last /\ trip'.old = [p \in {} |-> S!Absent]
            /\ trip'.source = trip.source /\ trip'.since = trip.since /\ trip'.top = trip.top
        BY <3>1 DEF Typed, Placed, S!Idle
      <3> QED BY <1>11, <2>1, <2>3, <3>2 DEF S!Attribute, Typed, S!TypeOK, Placed, S!Old
    <2> QED BY <2>2, <2>3
  <1>12. CASE UNCHANGED S!vars
    BY <1>12 DEF S!vars, Typed, S!TypeOK, Placed, S!Old
  <1> QED
    BY <1>1, <1>2, <1>3, <1>4, <1>5, <1>6, <1>7, <1>8, <1>9, <1>10, <1>11, <1>12 DEF S!Next

\* A walk asks for posts there are, from where it has come, and holds of a batch
\* what it found of it (sources.py:112-133).
THEOREM WalksAreTyped ==
  ASSUME Sized
  PROVE  S!Spec => []S!TypeOK
  <1>1. S!Init => Typed
    BY InitTyped
  <1>2. Typed /\ [S!Next]_(S!vars) => Typed'
    BY NextTyped
  <1>3. Typed => S!TypeOK
    BY DEF Typed
  <1> QED BY <1>1, <1>2, <1>3, PTL DEF S!Spec
-----------------------------------------------------------------------------
(* Nothing is taken back                                                   *)

\* Whatever a walk or anybody else commits, a row that has its text, a source or
\* the category keeps it; also while likes are archived beside the walk
\* (database.py:783-793, :1289-1295).
THEOREM WalksTakeNothingBack ==
  ASSUME Sized
  PROVE  S!Spec => S!NothingIsTakenBack
  <1> DEFINE Kept == \A p \in S!Held : /\ rows[p].text = "post" => rows'[p].text = "post"
                                       /\ rows[p].source # NoPost => rows'[p].source = rows[p].source
                                       /\ rows[p].filed => rows'[p].filed
  <1>1. S!Init => Typed
    BY InitTyped
  <1>2. Typed /\ [S!Next]_(S!vars) => Typed'
    BY NextTyped
  <1>3. ASSUME Typed, [S!Next]_(S!vars)
        PROVE  [Kept]_(S!vars)
    <2>1. rows \in [S!Post -> S!Row]
      BY <1>3 DEF Typed, S!TypeOK
    <2>2. ASSUME NEW p \in S!Post, S!Like(p) PROVE Kept
      BY <2>1, <2>2 DEF S!Like, S!Held
    <2>3. CASE S!InsertMany
      BY <2>1, <2>3 DEF S!InsertMany, S!Held, S!Row
    <2>4. CASE S!Restore
      BY <2>1, <2>4 DEF S!Restore, S!Held, S!Row
    <2>5. CASE S!AddCategories
      BY <2>1, <2>5 DEF S!AddCategories, S!Held, S!Row
    <2>6. CASE S!Attribute
      BY <2>1, <2>6 DEF S!Attribute, S!Held, S!Row
    <2>7. CASE UNCHANGED rows
      BY <2>7
    <2>8. S!Publish \/ S!Crash \/ S!Slice \/ S!Lines => UNCHANGED rows
      BY DEF S!Publish, S!Crash, S!Slice, S!Lines
    <2>9. \A p \in S!Post : S!Drop(p) => UNCHANGED rows
      BY DEF S!Drop
    <2>10. \A s \in Source, full \in BOOLEAN : S!Start(s, full) => UNCHANGED rows
      BY DEF S!Start
    <2> HIDE DEF Kept
    <2> QED BY <1>3, <2>2, <2>3, <2>4, <2>5, <2>6, <2>7, <2>8, <2>9, <2>10 DEF S!Next
  <1>4. (Typed /\ [S!Next]_(S!vars) => [Kept]_(S!vars))
    BY <1>3
  <1> HIDE DEF Kept
  <1>5. S!Spec => [][Kept]_(S!vars)
    BY <1>1, <1>2, <1>4, PTL DEF S!Spec
  <1> QED BY <1>5 DEF S!NothingIsTakenBack, Kept

-----------------------------------------------------------------------------
(* A walk that ends is whole                                               *)

\* What the walk has come past.
Behind(p) == IF kind = "subreddit" THEN p < trip.next ELSE p > trip.next

Recorded(p) == rows[p].filed /\ rows[p].source # NoPost

\* A post that was come past is recorded, or what is left of its batch records it.
Settled(p) ==
  \/ Recorded(p)
  \/ trip.step = "insert" /\ p \in trip.batch
  \/ trip.step \in {"restore", "file"} /\ p \in S!Old
  \/ trip.step = "attribute" /\ p \in S!Old /\ rows[p].filed

WholeInv ==
  /\ Typed
  /\ trip.step = "insert" => S!Old = trip.batch \cap S!Held
  /\ trip.step # "idle" => \A p \in S!Due(trip.since) : Behind(p) \/ trip.last => Settled(p)

\* A walk's answers range over posts there were when it started.
LEMMA DueIsShown ==
  ASSUME Sized, Typed, NEW p \in S!Due(trip.since)
  PROVE  p \in 1 .. trip.top /\ p \in S!Post /\ p <= shown /\ p \in Int
  <1>1. p \in 1 .. trip.top
    BY DEF S!Due
  <1> QED BY <1>1 DEF Sized, Typed, S!TypeOK, Placed, S!Post
\* What Take hands on: where every post above the batch's end is in the batch or
\* settled, none is forgotten.
LEMMA TakeForgetsNone ==
  ASSUME Sized, WholeInv, trip.step = "read", NEW batch, NEW next \in Int, NEW last \in BOOLEAN,
         S!Take(batch, next, last), UNCHANGED <<kind, shown, dropped, rows, crashes>>, Typed',
         \A p \in S!Due(trip.since) :
           (IF kind = "subreddit" THEN p < next ELSE p > next) \/ last => Recorded(p) \/ p \in batch
  PROVE  WholeInv' /\ (S!Ends => \A p \in S!Due(trip.since) : Recorded(p)')
  <1>1. CASE batch # {}
    <2>1. trip' = [trip EXCEPT !.step = "insert", !.batch = batch, !.next = next, !.last = last,
                               !.old = [p \in batch \cap S!Held |-> rows[p]]]
      BY <1>1 DEF S!Take
    <2>2. /\ trip'.step = "insert" /\ trip'.batch = batch /\ trip'.next = next
          /\ trip'.last = last /\ trip'.old = [p \in batch \cap S!Held |-> rows[p]]
          /\ trip'.since = trip.since /\ trip'.top = trip.top
      BY <2>1 DEF WholeInv, Typed, Placed, S!Idle
    <2>3. S!Due(trip.since)' = S!Due(trip.since)
      BY <2>2 DEF S!Due
    <2>4. S!Old' = trip'.batch \cap S!Held'
      BY <2>2 DEF S!Old, S!Held
    <2>5. ASSUME NEW p \in S!Due(trip.since), Behind(p)' \/ trip'.last PROVE Settled(p)'
      BY <2>2, <2>5 DEF Behind, Settled, Recorded
    <2>6. ~S!Ends
      BY <2>2 DEF S!Ends
    <2> QED BY <2>2, <2>3, <2>4, <2>5, <2>6 DEF WholeInv
  <1>2. CASE batch = {} /\ last
    <2>1. trip' = S!Idle
      BY <1>2 DEF S!Take
    <2>2. \A p \in S!Due(trip.since) : Recorded(p)'
      BY <1>2 DEF Recorded
    <2> QED BY <2>1, <2>2 DEF WholeInv, S!Idle
  <1>3. CASE batch = {} /\ ~last
    <2>1. trip' = [trip EXCEPT !.next = next]
      BY <1>3 DEF S!Take
    <2>2. /\ trip'.step = "read" /\ trip'.next = next /\ trip'.last = trip.last /\ ~trip.last
          /\ trip'.since = trip.since /\ trip'.top = trip.top
      BY <2>1 DEF WholeInv, Typed, Placed, S!Idle
    <2>3. S!Due(trip.since)' = S!Due(trip.since)
      BY <2>2 DEF S!Due
    <2>4. ASSUME NEW p \in S!Due(trip.since), Behind(p)' PROVE Settled(p)'
      BY <1>3, <2>2, <2>4 DEF Behind, Settled, Recorded
    <2> QED BY <2>2, <2>3, <2>4 DEF WholeInv, S!Ends
  <1> QED BY <1>1, <1>2, <1>3

\* Nothing a walk leaves to the end of a batch stands between its commits and the
\* rows they are for.
LEMMA NextWhole ==
  ASSUME Sized, Kinds \subseteq {"profile", "subreddit"}, NoPost \notin Source, ~Shell, WholeInv, [S!Next]_(S!vars)
  PROVE  WholeInv' /\ (S!Ends => \A p \in S!Due(trip.since) : Recorded(p)')
  <1> USE DEF Sized
  <1>1. Typed /\ Typed'
    BY NextTyped DEF WholeInv
  <1>2. rows \in [S!Post -> S!Row]
    BY <1>1 DEF Typed, S!TypeOK
  <1>3. CASE S!Publish
    <2>1. UNCHANGED <<kind, rows, trip, crashes>>
      BY <1>3 DEF S!Publish
    <2>2. S!Due(trip.since)' \subseteq S!Due(trip.since)
      BY <1>3 DEF S!Publish, S!Due
    <2>3. \A p : (Behind(p)' <=> Behind(p)) /\ (Settled(p)' <=> Settled(p))
      BY <2>1 DEF Behind, Settled, Recorded, S!Old
    <2> QED BY <1>1, <2>1, <2>2, <2>3 DEF WholeInv, S!Old, S!Held, S!Ends
  <1>4. CASE S!Crash
    <2>1. trip' = S!Idle /\ crashes' # crashes
      BY <1>1, <1>4 DEF S!Crash, Typed, S!TypeOK
    <2> QED BY <1>1, <2>1 DEF WholeInv, S!Idle, S!Ends
  <1>5. ASSUME NEW q \in S!Post, S!Like(q)
        PROVE  WholeInv' /\ (S!Ends => \A p \in S!Due(trip.since) : Recorded(p)')
    <2>1. trip.step = "idle" /\ trip' = trip
      BY <1>5 DEF S!Like
    <2> QED BY <1>1, <2>1 DEF WholeInv, S!Ends
  <1>6. ASSUME NEW q \in S!Post, S!Drop(q)
        PROVE  WholeInv' /\ (S!Ends => \A p \in S!Due(trip.since) : Recorded(p)')
    <2>1. UNCHANGED <<kind, rows, trip, crashes>>
      BY <1>6 DEF S!Drop
    <2>2. S!Due(trip.since)' \subseteq S!Due(trip.since)
      BY <1>6 DEF S!Drop, S!Due
    <2>3. \A p : (Behind(p)' <=> Behind(p)) /\ (Settled(p)' <=> Settled(p))
      BY <2>1 DEF Behind, Settled, Recorded, S!Old
    <2> QED BY <1>1, <2>1, <2>2, <2>3 DEF WholeInv, S!Old, S!Held, S!Ends
  <1>7. ASSUME NEW s \in Source, NEW full \in BOOLEAN, S!Start(s, full)
        PROVE  WholeInv' /\ (S!Ends => \A p \in S!Due(trip.since) : Recorded(p)')
    <2> DEFINE since == IF full THEN NoPost ELSE S!Watermark(s)
    <2>1. trip' = [S!Idle EXCEPT !.step = "read", !.source = s, !.since = since,
                               !.next = IF kind = "profile" THEN shown ELSE 1, !.top = shown]
      BY <1>7 DEF S!Start
    <2> HIDE DEF since
    <2>2. /\ trip'.step = "read" /\ ~trip'.last /\ trip'.top = shown /\ trip'.since = since
          /\ trip'.next = (IF kind = "profile" THEN shown ELSE 1)
      BY <2>1 DEF S!Idle
    <2>3. UNCHANGED <<kind, shown, dropped, rows, crashes>> /\ trip.step = "idle"
      BY <1>7 DEF S!Start
    <2>4. ASSUME NEW p \in S!Due(trip.since)' PROVE ~Behind(p)'
      <3>1. p \in 1 .. shown /\ shown \in Int
        BY <1>1, <2>2, <2>3 DEF S!Due, Typed, S!TypeOK
      <3>2. kind \in {"profile", "subreddit"}
        BY <1>1 DEF Typed, S!TypeOK
      <3> QED BY <2>2, <2>3, <3>1, <3>2 DEF Behind
    <2> QED BY <1>1, <2>2, <2>3, <2>4 DEF WholeInv, S!Ends
  <1>8. CASE S!Slice
    <2>1. UNCHANGED <<kind, shown, dropped, rows, crashes>> /\ trip.step = "read" /\ kind = "profile"
      BY <1>8 DEF S!Slice
    <2>2. \A p \in S!Due(trip.since) : p > trip.next => Recorded(p)
      BY <2>1 DEF WholeInv, Behind, Settled
    <2>3. \A p \in S!Due(trip.since) : /\ p \in Int /\ p >= 1 /\ p \notin dropped
                                       /\ trip.since = NoPost \/ p > trip.since
      BY <1>1, <2>1, DueIsShown DEF S!Due
    <2>4. trip.next \in Int
      BY <1>1 DEF Typed, Placed
    <2>5. CASE {p \in 1 .. trip.next : p \notin dropped} = {} /\ S!Take({}, 0, TRUE)
      <3>1. \A p \in S!Due(trip.since) : Recorded(p)
        <4> TAKE p \in S!Due(trip.since)
        <4>1. p \notin 1 .. trip.next
          BY <2>3, <2>5
        <4>2. p > trip.next
          BY <2>3, <2>4, <4>1
        <4> QED BY <2>2, <4>2
      <3>2. 0 \in Int /\ TRUE \in BOOLEAN
        OBVIOUS
      <3>3. \A p \in S!Due(trip.since) : Recorded(p) \/ p \in {}
        BY <3>1
      <3> QED BY <1>1, <2>1, <2>5, <3>2, <3>3, TakeForgetsNone
    <2>6. ASSUME NEW oldest \in 1 .. trip.next,
                 S!Take({p \in oldest .. trip.next : p \notin dropped /\ (trip.since = NoPost \/ p > trip.since)},
                      oldest - 1, trip.since # NoPost /\ oldest <= trip.since)
          PROVE  WholeInv' /\ (S!Ends => \A p \in S!Due(trip.since) : Recorded(p)')
      <3> DEFINE batch == {p \in oldest .. trip.next : p \notin dropped /\ (trip.since = NoPost \/ p > trip.since)}
                 last == trip.since # NoPost /\ oldest <= trip.since
      <3>1. \A p \in S!Due(trip.since) : p >= oldest => Recorded(p) \/ p \in batch
        <4> TAKE p \in S!Due(trip.since)
        <4> HAVE p >= oldest
        <4>1. CASE p > trip.next
          BY <2>2, <4>1
        <4>2. CASE p <= trip.next
          BY <2>3, <2>4, <4>2
        <4> QED BY <2>3, <2>4, <4>1, <4>2
      <3>2. \A p \in S!Due(trip.since) : p > oldest - 1 \/ last => p >= oldest
        <4> TAKE p \in S!Due(trip.since)
        <4>1. CASE p > oldest - 1
          BY <2>3, <2>4, <4>1
        <4>2. CASE last
          <5>1. trip.since \in Int
            BY <1>1, <4>2 DEF Typed, S!TypeOK, S!Post
          <5> QED BY <2>3, <2>4, <4>2, <5>1
        <4> QED BY <4>1, <4>2
      <3>3. last \in BOOLEAN /\ oldest - 1 \in Int /\ S!Take(batch, oldest - 1, last)
        BY <2>4, <2>6
      <3> HIDE DEF batch, last
      <3> QED BY <1>1, <2>1, <3>1, <3>2, <3>3, TakeForgetsNone
    <2> QED BY <1>1, <1>8, <2>5, <2>6, SliceTakes
  <1>9. CASE S!Lines
    <2> DEFINE upto == IF trip.next + Batch - 1 <= shown THEN trip.next + Batch - 1 ELSE shown
               last == upto - trip.next + 1 < Batch
    <2>1. /\ UNCHANGED <<kind, shown, dropped, rows, crashes>> /\ trip.step = "read" /\ kind = "subreddit"
          /\ S!Take(trip.next .. upto, upto + 1, last)
      BY <1>9 DEF S!Lines
    <2>2. trip.next \in Int /\ shown \in Int /\ upto \in Int /\ upto + 1 \in Int /\ last \in BOOLEAN
      BY <1>1 DEF Typed, S!TypeOK, Placed
    <2>3. last => upto = shown
      BY <2>2
    <2>4. \A p \in S!Due(trip.since) : p < trip.next => Recorded(p)
      BY <2>1 DEF WholeInv, Behind, Settled
    <2>5. \A p \in S!Due(trip.since) : p \in Int /\ p <= shown
      BY <1>1, DueIsShown
    <2> HIDE DEF upto, last
    <2>6. \A p \in S!Due(trip.since) : p < upto + 1 \/ last => Recorded(p) \/ p \in trip.next .. upto
      BY <2>2, <2>3, <2>4, <2>5
    <2> QED BY <1>1, <2>1, <2>2, <2>6, TakeForgetsNone
  <1>10. CASE S!InsertMany
    <2>1. trip.step = "insert" /\ trip' = [trip EXCEPT !.step = "restore"] /\ UNCHANGED <<kind, shown, dropped, crashes>>
      BY <1>10 DEF S!InsertMany, S!Step
    <2>2. trip'.step = "restore" /\ \A f \in {"batch", "since", "next", "last", "top", "old"} : trip'[f] = trip[f]
      BY <1>1, <2>1 DEF Typed, Placed, S!Idle
    <2>3. S!Due(trip.since)' = S!Due(trip.since) /\ S!Old' = S!Old /\ \A p : Behind(p)' <=> Behind(p)
      BY <2>1, <2>2 DEF S!Due, S!Old, Behind
    <2>4. trip.source # NoPost
      BY <1>1, <2>1 DEF Typed, Placed
    <2>5. ASSUME NEW p \in S!Due(trip.since), Settled(p) PROVE Settled(p)'
      <3>1. p \in S!Post
        BY <1>1, DueIsShown
      <3>2. CASE p \in trip.batch \ S!Old
        <4>1. p \notin S!Held
          BY <2>1, <3>2 DEF WholeInv
        <4>2. rows'[p] = [text |-> S!Text(p), source |-> trip.source, filed |-> TRUE]
          BY <1>10, <3>1, <3>2, <4>1 DEF S!InsertMany
        <4> QED BY <2>4, <4>2 DEF Settled, Recorded
      <3>3. CASE p \notin trip.batch \ S!Old
        <4>1. rows'[p] = rows[p]
          BY <1>10, <3>1, <3>3 DEF S!InsertMany
        <4> QED BY <2>1, <2>2, <2>3, <2>5, <3>3, <4>1 DEF Settled, Recorded
      <3> QED BY <3>2, <3>3
    <2>6. ~S!Ends
      BY <2>2 DEF S!Ends
    <2> QED BY <1>1, <2>1, <2>2, <2>3, <2>5, <2>6 DEF WholeInv
  <1>11. CASE S!Restore
    <2>1. trip.step = "restore" /\ trip' = [trip EXCEPT !.step = "file"] /\ UNCHANGED <<kind, shown, dropped, crashes>>
      BY <1>11 DEF S!Restore, S!Step
    <2>2. trip'.step = "file" /\ \A f \in {"batch", "since", "next", "last", "top", "old"} : trip'[f] = trip[f]
      BY <1>1, <2>1 DEF Typed, Placed, S!Idle
    <2>3. S!Due(trip.since)' = S!Due(trip.since) /\ S!Old' = S!Old /\ \A p : Behind(p)' <=> Behind(p)
      BY <2>1, <2>2 DEF S!Due, S!Old, Behind
    <2>4. ASSUME NEW p \in S!Due(trip.since), Settled(p) PROVE Settled(p)'
      <3>1. p \in S!Post
        BY <1>1, DueIsShown
      <3>2. rows'[p].filed = rows[p].filed /\ rows'[p].source = rows[p].source
        BY <1>2, <1>11, <3>1 DEF S!Restore, S!Row
      <3> QED BY <2>1, <2>2, <2>3, <2>4, <3>2 DEF Settled, Recorded
    <2>5. ~S!Ends
      BY <2>2 DEF S!Ends
    <2> QED BY <1>1, <2>1, <2>2, <2>3, <2>4, <2>5 DEF WholeInv
  <1>12. CASE S!AddCategories
    <2>1. trip.step = "file" /\ trip' = [trip EXCEPT !.step = "attribute"] /\ UNCHANGED <<kind, shown, dropped, crashes>>
      BY <1>12 DEF S!AddCategories, S!Step
    <2>2. trip'.step = "attribute" /\ \A f \in {"batch", "since", "next", "last", "top", "old"} : trip'[f] = trip[f]
      BY <1>1, <2>1 DEF Typed, Placed, S!Idle
    <2>3. S!Due(trip.since)' = S!Due(trip.since) /\ S!Old' = S!Old /\ \A p : Behind(p)' <=> Behind(p)
      BY <2>1, <2>2 DEF S!Due, S!Old, Behind
    <2>4. ASSUME NEW p \in S!Due(trip.since), Settled(p) PROVE Settled(p)'
      <3>1. p \in S!Post
        BY <1>1, DueIsShown
      <3>2. /\ rows'[p].source = rows[p].source
            /\ rows[p].filed => rows'[p].filed
            /\ p \in S!Old => rows'[p].filed
        BY <1>2, <1>12, <3>1 DEF S!AddCategories, S!Row
      <3> QED BY <2>1, <2>2, <2>3, <2>4, <3>2 DEF Settled, Recorded
    <2>5. ~S!Ends
      BY <2>2 DEF S!Ends
    <2> QED BY <1>1, <2>1, <2>2, <2>3, <2>4, <2>5 DEF WholeInv
  <1>13. CASE S!Attribute
    <2>1. trip.step = "attribute" /\ UNCHANGED <<kind, shown, dropped, crashes>>
      BY <1>13 DEF S!Attribute
    <2>2. trip.source # NoPost
      BY <1>1, <2>1 DEF Typed, Placed
    <2>3. ASSUME NEW p \in S!Due(trip.since), Settled(p) PROVE Recorded(p)'
      <3>1. p \in S!Post
        BY <1>1, DueIsShown
      <3>2. Recorded(p) \/ (p \in S!Old /\ rows[p].filed)
        BY <2>1, <2>3 DEF Settled
      <3>3. rows'[p].filed = rows[p].filed
        BY <1>2, <1>13, <3>1 DEF S!Attribute, S!Row
      <3>4. rows'[p].source # NoPost
        BY <1>2, <1>13, <2>2, <3>1, <3>2 DEF S!Attribute, S!Row, Recorded
      <3> QED BY <3>2, <3>3, <3>4 DEF Recorded
    <2>4. CASE trip.last
      <3>1. \A p \in S!Due(trip.since) : Recorded(p)'
        BY <2>1, <2>3, <2>4 DEF WholeInv
      <3>2. trip' = S!Idle
        BY <1>13, <2>4 DEF S!Attribute
      <3> QED BY <1>1, <3>1, <3>2 DEF WholeInv, S!Idle
    <2>5. CASE ~trip.last
      <3>1. trip' = [trip EXCEPT !.step = "read", !.batch = {}, !.old = S!Idle.old]
        BY <1>13, <2>5 DEF S!Attribute
      <3>2. trip'.step = "read" /\ \A f \in {"since", "next", "last", "top"} : trip'[f] = trip[f]
        BY <1>1, <3>1 DEF Typed, Placed, S!Idle
      <3>3. S!Due(trip.since)' = S!Due(trip.since) /\ \A p : Behind(p)' <=> Behind(p)
        BY <2>1, <3>2 DEF S!Due, Behind
      <3>4. \A p \in S!Due(trip.since) : Behind(p) => Recorded(p)'
        BY <2>1, <2>3 DEF WholeInv
      <3> QED BY <1>1, <2>5, <3>2, <3>3, <3>4 DEF WholeInv, Settled, Recorded, S!Ends
    <2> QED BY <2>4, <2>5
  <1>14. CASE UNCHANGED S!vars
    <2>1. UNCHANGED <<kind, shown, dropped, rows, trip, crashes>>
      BY <1>14 DEF S!vars
    <2> QED BY <1>1, <2>1 DEF WholeInv, S!Old, S!Held, S!Due, Behind, Settled, Recorded, S!Ends
  <1> QED
    BY <1>3, <1>4, <1>5, <1>6, <1>7, <1>8, <1>9, <1>10, <1>11, <1>12, <1>13, <1>14 DEF S!Next

\* A walk that ends has everything there was to have above the post it stops at,
\* in the category and under a source: whichever earlier walks were cut short, in
\* batches of whichever size, and however few posts a search deigns to return.
\* Likes are not archived meanwhile: the worker runs the one or the other, and a
\* post liked between held() and insert_many would go without its source.
THEOREM WalksEndWhole ==
  ASSUME Sized, Kinds \subseteq {"profile", "subreddit"}, NoPost \notin Source, ~Shell
  PROVE  S!Spec => S!WalkIsWhole
  <1> DEFINE Whole == S!Ends => \A p \in S!Due(trip.since) : rows'[p].filed /\ rows'[p].source # NoPost
  <1>1. S!Init => WholeInv
    BY InitTyped DEF WholeInv, S!Init, S!Idle
  <1>2. WholeInv /\ [S!Next]_(S!vars) => WholeInv'
    BY NextWhole
  <1>3. WholeInv /\ [S!Next]_(S!vars) => [Whole]_(S!vars)
    BY NextWhole DEF Recorded
  <1> HIDE DEF Whole
  <1>4. S!Spec => [][Whole]_(S!vars)
    BY <1>1, <1>2, <1>3, PTL DEF S!Spec
  <1> QED BY <1>4 DEF S!WalkIsWhole, Whole

-----------------------------------------------------------------------------
(* The rounds of an expansion                                              *)

CONSTANTS Things, Parent, Submission, Lists, Votes, Export, Fragile, MaxDepth, MaxFaults, Nothing

VARIABLES voted, gone, items, labels, run, faults

R == INSTANCE RedditArchive WITH Categories <- Lists, None <- Nothing, filed <- labels

\* A round, where gone is G.
Round(G, last) ==
  LET found == last.frontier \ G
      known == last.known \cup found
  IN  [known |-> known, frontier |-> (UNION {R!Above(t) : t \in found}) \ known]

\* The rounds of an expansion, one after the other.
Rounds(G, seeds, tombs) ==
  LET round[n \in 0 .. MaxDepth] == IF n = 0 THEN R!Lacking(seeds, tombs) ELSE Round(G, round[n - 1])
  IN  round

LEMMA ExpandedIs ==
  ASSUME NEW seeds, NEW tombs
  PROVE  R!Expanded(seeds, tombs) = Rounds(gone, seeds, tombs)[MaxDepth].known
  BY DEF R!Expanded, Rounds, Round, R!Further, R!Hydrated

LEMMA ContextIs ==
  ASSUME NEW t
  PROVE  R!ContextOf(t)' = Rounds(gone', {t}, {})[MaxDepth].known \ {t}
  BY DEF R!ContextOf, R!Expanded, Rounds, Round, R!Further, R!Hydrated

\* What holds at first, and of each number after one it holds of, holds up to the last.
LEMMA UpTo ==
  ASSUME NEW m \in Nat, NEW T, 0 \in T, \A k \in 1 .. m : k - 1 \in T => k \in T
  PROVE  \A k \in 0 .. m : k \in T
  <1> DEFINE U == {k \in 0 .. m : k \notin T}
  <1> SUFFICES ASSUME U # {} PROVE FALSE
    OBVIOUS
  <1>1. PICK k \in U : \A j \in U : k <= j
    <2>1. U \subseteq Nat
      OBVIOUS
    <2> HIDE DEF U
    <2> QED BY <2>1, LeastOne
  <1>2. k \in 1 .. m /\ k \notin T /\ k - 1 \notin T
    OBVIOUS
  <1>3. k - 1 \in U /\ ~ (k <= k - 1)
    BY <1>2
  <1> HIDE DEF U
  <1> QED BY <1>1, <1>3

\* The recursion has a function, which the rounds are.
LEMMA RoundsAre ==
  ASSUME MaxDepth \in Nat, NEW G, NEW seeds, NEW tombs
  PROVE  Rounds(G, seeds, tombs) =
           [n \in 0 .. MaxDepth |-> IF n = 0 THEN R!Lacking(seeds, tombs) ELSE Round(G, Rounds(G, seeds, tombs)[n - 1])]
  <1> DEFINE first == R!Lacking(seeds, tombs)
             Of(g, m) == g = [n \in 0 .. m |-> IF n = 0 THEN first ELSE Round(G, g[n - 1])]
             T == {m \in Nat : \E g : Of(g, m)}
  <1> HIDE DEF first
  <1>1. 0 \in T
    <2> DEFINE g == [n \in 0 .. 0 |-> first]
    <2>1. Of(g, 0)
      OBVIOUS
    <2> QED BY <2>1
  <1>2. ASSUME NEW m \in 1 .. MaxDepth, m - 1 \in T PROVE m \in T
    <2>1. PICK h : Of(h, m - 1)
      BY <1>2
    <2> DEFINE g == [n \in 0 .. m |-> IF n = m THEN Round(G, h[m - 1]) ELSE h[n]]
    <2>2. \A n \in 0 .. m : g[n] = IF n = 0 THEN first ELSE Round(G, g[n - 1])
      BY <2>1
    <2>3. Of(g, m)
      BY <2>2
    <2>4. m \in Nat
      OBVIOUS
    <2> QED BY <2>3, <2>4
  <1>3. MaxDepth \in T
    <2> HIDE DEF T
    <2> QED BY <1>1, <1>2, UpTo
  <1>4. \E g : Of(g, MaxDepth)
    BY <1>3
  <1> QED BY <1>4 DEF Rounds, first

-----------------------------------------------------------------------------
(* What an expansion knows                                                 *)

LEMMA AboveTyped ==
  ASSUME R!RedditAssumption, NEW t \in Things
  PROVE  R!Above(t) \subseteq Things
  BY DEF R!RedditAssumption, R!Above

\* A round adds what of the frontier is there.
LEMMA RoundIs ==
  ASSUME NEW G, NEW last
  PROVE  /\ Round(G, last).known = last.known \cup (last.frontier \ G)
         /\ Round(G, last).frontier = (UNION {R!Above(u) : u \in last.frontier \ G}) \ (last.known \cup (last.frontier \ G))
  BY DEF Round

LEMMA RoundsTyped ==
  ASSUME R!RedditAssumption, NEW G, NEW some \in SUBSET Things, NEW tombs
  PROVE  LET last == Rounds(G, some, tombs)[MaxDepth] IN some \subseteq last.known /\ last.known \subseteq Things
  <1> DEFINE a == Rounds(G, some, tombs)
             T == {m \in 0 .. MaxDepth : some \subseteq a[m].known /\ a[m].known \subseteq Things /\ a[m].frontier \subseteq Things}
  <1>1. MaxDepth \in Nat
    BY DEF R!RedditAssumption
  <1>2. a[0] = R!Lacking(some, tombs) /\ \A m \in 1 .. MaxDepth : a[m] = Round(G, a[m - 1])
    BY <1>1, RoundsAre
  <1> HIDE DEF a
  <1>3. 0 \in T
    BY <1>1, <1>2, AboveTyped DEF R!Lacking
  <1>4. ASSUME NEW m \in 1 .. MaxDepth, m - 1 \in T PROVE m \in T
    BY <1>2, <1>4, AboveTyped, RoundIs
  <1>5. MaxDepth \in T
    <2> HIDE DEF T
    <2> QED BY <1>1, <1>3, <1>4, UpTo
  <1> QED BY <1>5 DEF a

\* Of a thing among some, the expansion lies in theirs: what hangs on what they know
\* is known, looked for, or gone.
LEMMA RoundsGrow ==
  ASSUME R!RedditAssumption, NEW G, NEW some, NEW t \in some
  PROVE  Rounds(G, {t}, {})[MaxDepth].known \subseteq Rounds(G, some, {})[MaxDepth].known
  <1> DEFINE a == Rounds(G, {t}, {})
             b == Rounds(G, some, {})
             Met(m) == b[m].known \cup b[m].frontier \cup G
             T == {m \in 0 .. MaxDepth : /\ a[m].known \subseteq b[m].known /\ a[m].frontier \subseteq Met(m)
                                         /\ \A u \in b[m].known : R!Above(u) \subseteq Met(m)}
  <1>1. MaxDepth \in Nat
    BY DEF R!RedditAssumption
  <1>2. a[0] = R!Lacking({t}, {}) /\ b[0] = R!Lacking(some, {})
    BY <1>1, RoundsAre
  <1>3. \A m \in 1 .. MaxDepth : a[m] = Round(G, a[m - 1]) /\ b[m] = Round(G, b[m - 1])
    BY <1>1, RoundsAre
  <1> HIDE DEF a, b
  <1>4. 0 \in T
    BY <1>1, <1>2 DEF R!Lacking
  <1>5. ASSUME NEW m \in 1 .. MaxDepth, m - 1 \in T PROVE m \in T
    <2>1. /\ a[m].known = a[m - 1].known \cup (a[m - 1].frontier \ G)
          /\ a[m].frontier = (UNION {R!Above(u) : u \in a[m - 1].frontier \ G}) \ a[m].known
          /\ b[m].known = b[m - 1].known \cup (b[m - 1].frontier \ G)
          /\ b[m].frontier = (UNION {R!Above(u) : u \in b[m - 1].frontier \ G}) \ b[m].known
      BY <1>3, RoundIs
    <2>2. \A u \in b[m].known : R!Above(u) \subseteq Met(m)
      BY <1>5, <2>1
    <2>3. a[m].known \subseteq b[m].known
      BY <1>5, <2>1
    <2>4. a[m].frontier \subseteq Met(m)
      BY <1>5, <2>1, <2>2
    <2> QED BY <2>2, <2>3, <2>4
  <1>6. MaxDepth \in T
    <2> HIDE DEF T
    <2> QED BY <1>1, <1>4, <1>5, UpTo
  <1> QED BY <1>6 DEF a, b

-----------------------------------------------------------------------------
(* Listings and seeds                                                      *)

\* Of some things, those at some of their positions are among them.
LEMMA RestrictRange ==
  ASSUME NEW f, NEW P, P \subseteq DOMAIN f
  PROVE  R!Range(R!Restrict(f, P)) \subseteq R!Range(f)
  BY DEF R!Range, R!Restrict

\* A category has a listing of things there are, and an export of them.
LEMMA CategoryTyped ==
  ASSUME R!RedditAssumption, NEW c \in R!Seed
  PROVE  /\ Votes[c] \in Seq(Things) /\ R!Range(Export[c]) \subseteq Things /\ c \notin {"none", "found"}
  BY DEF R!RedditAssumption, R!Range

LEMMA ListingTyped ==
  ASSUME R!RedditAssumption, NEW c \in R!Seed, voted[c] \in 0 .. Len(Votes[c])
  PROVE  R!Range(R!Listing(c)) \subseteq Things
  <1> DEFINE newest == [i \in 1 .. voted[c] |-> Votes[c][voted[c] + 1 - i]]
             P == R!Leading(Cap, {i \in DOMAIN newest : newest[i] \notin gone})
  <1>1. Votes[c] \in Seq(Things)
    BY CategoryTyped
  <1>2. \A i \in 1 .. voted[c] : newest[i] \in Things
    BY <1>1
  <1>3. P \subseteq 1 .. voted[c]
    BY DEF R!Leading
  <1>4. R!Listing(c) = [i \in P |-> newest[i]]
    BY DEF R!Listing, R!Restrict
  <1> HIDE DEF newest, P
  <1> QED BY <1>2, <1>3, <1>4 DEF R!Range

\* The live listing is part of the listing, and all of it where nothing is known.
LEMMA LiveTyped ==
  ASSUME NEW c, NEW known
  PROVE  /\ R!Range(R!Live(c, known)) \subseteq R!Range(R!Listing(c))
         /\ known = {} => R!Range(R!Live(c, known)) = R!Range(R!Listing(c))
         /\ DOMAIN R!Live(c, known) = {} => R!Range(R!Live(c, known)) = {}
  <1> DEFINE listing == R!Listing(c)
             P == {i \in DOMAIN listing : \A j \in DOMAIN listing : listing[j] \in known => i < j}
  <1>1. R!Live(c, known) = [i \in P |-> listing[i]]
    BY DEF R!Live, R!Restrict
  <1>2. P \subseteq DOMAIN listing /\ (known = {} => P = DOMAIN listing)
    OBVIOUS
  <1> HIDE DEF listing, P
  <1>3. R!Range(R!Live(c, known)) = {listing[i] : i \in P} /\ DOMAIN R!Live(c, known) = P
    BY <1>1 DEF R!Range
  <1> QED BY <1>2, <1>3 DEF R!Range, listing

-----------------------------------------------------------------------------
(* What a run keeps                                                        *)

Working == {"attribute", "chunk", "expand", "upgrade", "insert"}

\* Where a run may be.
Sited ==
  /\ DOMAIN run = DOMAIN R!Idle /\ run.live \in BOOLEAN /\ run.full \in BOOLEAN
  /\ run.queue \in Seq(R!Seed) /\ (run.step \in Working => run.queue # <<>>)
  /\ R!Range(run.seeds) \subseteq Things /\ run.listed \subseteq Things
  /\ run.step = "chunk" => ~run.live
  /\ run.step # "upgrade" => run.upgrade = {}
  /\ \A c \in R!Seed : voted[c] <= Len(Votes[c])

\* Every ref is filed before the first of them is looked for.
RefsFiled ==
  run.step \in Working \ {"attribute"} /\ ~run.live =>
    \A t \in R!Range(Export[R!Category]) : <<t, R!Category>> \in labels

\* What is inserted has no row; a listing that is expanded has no tombstones.
Fresh ==
  /\ run.step = "insert" => run.found \cap R!Held = {}
  /\ run.live \/ run.step \in {"category", "attribute", "chunk"} => run.tombs = {}

\* The row of a seed, no mere find.
Own(t) == t \in R!Held /\ items[t].origin \in R!Seed

\* How far the listing of a full run has come.
ListingKept ==
  run.full /\ run.step \in Working =>
    \A t \in run.listed :
      /\ <<t, R!Category>> \in labels
      /\ IF run.live /\ run.step = "expand" THEN t \in R!Range(run.seeds)
         ELSE IF run.live /\ run.step = "upgrade"
         THEN /\ t \in R!Range(run.seeds) /\ t \in run.found /\ R!ContextOf(t) \subseteq run.found
              /\ t \in R!Held => t \in run.upgrade \/ Own(t)
         ELSE IF run.live /\ run.step = "insert"
         THEN /\ t \in R!Range(run.seeds) /\ (t \in run.found \/ Own(t))
              /\ R!ContextOf(t) \subseteq run.found \cup R!Held
         ELSE Own(t) /\ R!ContextOf(t) \subseteq R!Held

RedditInv == R!TypeOK /\ Sited /\ RefsFiled /\ Fresh /\ ListingKept

LEMMA RedditInit ==
  ASSUME R!RedditAssumption, R!Init
  PROVE  RedditInv
  <1>1. R!Range(<<>>) = {}
    BY DEF R!Range
  <1>2. R!TypeOK
    BY <1>1 DEF R!RedditAssumption, R!Init, R!TypeOK, R!Idle, R!Absent
  <1>3. Sited
    BY <1>1 DEF R!RedditAssumption, R!Init, R!Idle, Sited, Working
  <1> QED BY <1>2, <1>3 DEF RedditInv, R!Init, R!Idle, RefsFiled, Fresh, ListingKept, Working

\* A listed thing's context is what it was while Reddit resolves the same.
LEMMA ContextStays ==
  ASSUME UNCHANGED gone, NEW t
  PROVE  R!ContextOf(t)' = R!ContextOf(t)
  <1>1. R!ContextOf(t) = Rounds(gone, {t}, {})[MaxDepth].known \ {t}
    BY ExpandedIs DEF R!ContextOf
  <1> QED BY <1>1, ContextIs

\* Nothing, whose range is nothing.
LEMMA EmptyRange == R!Range(<<>>) = {}
  BY DEF R!Range

LEMMA HeadOfQueue ==
  ASSUME Sited, run.queue # <<>>
  PROVE  R!Category \in R!Seed
  BY DEF Sited, R!Category

LEMMA RestKept ==
  ASSUME R!RedditAssumption, RedditInv, NEW c \in R!Seed, R!Vote(c)
  PROVE  RedditInv'
  <1>1. voted' \in [R!Seed -> Nat] /\ \A d \in R!Seed : voted'[d] <= Len(Votes[d])
    BY CategoryTyped DEF RedditInv, R!TypeOK, Sited, R!Vote
  <1>2. UNCHANGED <<gone, items, labels, run, faults>>
    BY DEF R!Vote
  <1>3. \A t : R!ContextOf(t)' = R!ContextOf(t)
    BY <1>2, ContextStays
  <1>4. R!Held' = R!Held /\ R!Category' = R!Category /\ \A t : Own(t)' <=> Own(t)
    BY <1>2 DEF R!Held, R!Category, Own
  <1>5. R!TypeOK' /\ Sited'
    BY <1>1, <1>2 DEF RedditInv, R!TypeOK, Sited
  <1>6. RefsFiled' /\ Fresh' /\ ListingKept'
    BY <1>2, <1>3, <1>4 DEF RedditInv, RefsFiled, Fresh, ListingKept
  <1> QED BY <1>5, <1>6 DEF RedditInv

LEMMA ChangeKept ==
  ASSUME RedditInv, NEW t \in Things, R!Change(t)
  PROVE  RedditInv'
  BY DEF RedditInv, R!TypeOK, Sited, RefsFiled, Fresh, ListingKept, Working, R!Change

\* A run that starts, or goes on with other categories, has nothing in hand.
LEMMA ResetKept ==
  ASSUME R!RedditAssumption, RedditInv, UNCHANGED <<voted, gone, items, labels>>, faults' \in 0 .. MaxFaults,
         NEW full \in BOOLEAN, NEW queue \in Seq(R!Seed),
         \/ run' = R!Idle
         \/ run' = [R!Idle EXCEPT !.step = "category", !.full = full, !.queue = queue]
  PROVE  RedditInv'
  <1>1. /\ run'.step \in {"idle", "category"} /\ run'.seeds = <<>> /\ run'.tombs = {} /\ run'.found = {} /\ run'.upgrade = {}
        /\ run'.listed = {} /\ run'.queue \in Seq(R!Seed) /\ run'.live = FALSE /\ run'.full \in BOOLEAN
        /\ DOMAIN run' = DOMAIN R!Idle
    <2>1. CASE run' = R!Idle
      <3>1. <<>> \in Seq(R!Seed)
        OBVIOUS
      <3> QED BY <2>1, <3>1 DEF R!Idle
    <2>2. CASE run' = [R!Idle EXCEPT !.step = "category", !.full = full, !.queue = queue]
      <3>1. /\ run'.step = "category" /\ run'.seeds = <<>> /\ run'.tombs = {} /\ run'.found = {} /\ run'.upgrade = {}
            /\ run'.listed = {} /\ run'.queue = queue /\ run'.live = FALSE /\ run'.full = full
            /\ DOMAIN run' = DOMAIN R!Idle
        BY <2>2 DEF R!Idle
      <3> QED BY <3>1
    <2> QED BY <2>1, <2>2
  <1>2. R!TypeOK' /\ Sited'
    BY <1>1, EmptyRange DEF RedditInv, R!TypeOK, Sited, Working
  <1>3. RefsFiled' /\ Fresh' /\ ListingKept'
    BY <1>1 DEF RefsFiled, Fresh, ListingKept, Working
  <1> QED BY <1>2, <1>3 DEF RedditInv

LEMMA StartKept ==
  ASSUME R!RedditAssumption, RedditInv, NEW full \in BOOLEAN,
         NEW queue \in {Lists} \cup {<<c>> : c \in R!Seed}, R!Start(full, queue)
  PROVE  RedditInv'
  <1>1. queue \in Seq(R!Seed)
    <2>1. \A c \in R!Seed : <<c>> \in Seq(R!Seed)
      OBVIOUS
    <2>2. Lists \in Seq(R!Seed)
      BY DEF R!RedditAssumption
    <2> QED BY <2>1, <2>2
  <1>2. UNCHANGED <<voted, gone, items, labels, faults>> /\ faults \in 0 .. MaxFaults
    BY DEF R!Start, RedditInv, R!TypeOK
  <1>3. run' = [R!Idle EXCEPT !.step = "category", !.full = full, !.queue = queue]
    BY DEF R!Start
  <1> QED BY <1>1, <1>2, <1>3, ResetKept

LEMMA FaultKept ==
  ASSUME R!RedditAssumption, RedditInv, R!Fault
  PROVE  RedditInv'
  <1>1. UNCHANGED <<voted, gone, items, labels>> /\ faults' \in 0 .. MaxFaults
    BY DEF R!Fault, RedditInv, R!TypeOK, R!RedditAssumption
  <1>2. CASE run' = R!Idle
    <2>1. <<>> \in Seq(R!Seed)
      OBVIOUS
    <2> QED BY <1>1, <1>2, <2>1, ResetKept
  <1>3. CASE run.queue # <<>> /\ run' = [R!Idle EXCEPT !.step = "category", !.full = run.full, !.queue = Tail(run.queue)]
    <2>1. Tail(run.queue) \in Seq(R!Seed)
      BY <1>3 DEF RedditInv, Sited
    <2>2. run.full \in BOOLEAN
      BY DEF RedditInv, Sited
    <2> QED BY <1>1, <1>3, <2>1, <2>2, ResetKept
  <1> QED BY <1>2, <1>3 DEF R!Fault

-----------------------------------------------------------------------------
(* The steps of the run                                                    *)

\* What the steps that record nothing leave as it was.
LEMMA SameRows ==
  ASSUME UNCHANGED <<gone, items>>
  PROVE  R!Held' = R!Held /\ \A t : R!ContextOf(t)' = R!ContextOf(t) /\ (Own(t)' <=> Own(t))
  BY ContextStays DEF R!Held, Own

LEMMA ListKept ==
  ASSUME R!RedditAssumption, RedditInv, R!List
  PROVE  RedditInv'
  <1>1. UNCHANGED <<voted, gone, items, faults>> /\ run.step = "category"
    BY DEF R!List
  <1>2. CASE run.queue = <<>>
    <2>1. run' = R!Idle /\ UNCHANGED labels
      BY <1>2 DEF R!List
    <2>2. faults' \in 0 .. MaxFaults /\ <<>> \in Seq(R!Seed)
      BY <1>1 DEF RedditInv, R!TypeOK
    <2> QED BY <1>1, <2>1, <2>2, ResetKept
  <1>3. CASE run.queue # <<>>
    <2> DEFINE c == R!Category
               live == R!Live(c, IF run.full THEN {} ELSE R!KnownOf(c))
    <2>1. /\ labels' = labels \cup {<<t, c>> : t \in R!Range(live)}
          /\ run' = [run EXCEPT !.step = IF DOMAIN live = {} THEN "attribute" ELSE "expand", !.live = TRUE, !.seeds = live,
                                  !.listed = R!Range(R!Listing(c))]
      BY <1>3 DEF R!List
    <2>2. c \in R!Seed
      BY <1>3, HeadOfQueue DEF RedditInv
    <2>3. R!Range(R!Listing(c)) \subseteq Things
      BY <2>2, ListingTyped DEF RedditInv, Sited, R!TypeOK
    <2>4. /\ R!Range(live) \subseteq R!Range(R!Listing(c))
          /\ run.full => R!Range(live) = R!Range(R!Listing(c))
          /\ DOMAIN live = {} => R!Range(live) = {}
      BY LiveTyped
    <2>5. R!Category' = c /\ run'.queue = run.queue
      BY <2>1 DEF R!Category, RedditInv, Sited
    <2> HIDE DEF c, live
    <2>6. /\ DOMAIN run' = DOMAIN R!Idle /\ run'.step \in {"attribute", "expand"} /\ (run'.step = "attribute" <=> DOMAIN live = {})
          /\ run'.live = TRUE /\ run'.seeds = live /\ run'.listed = R!Range(R!Listing(c))
          /\ run'.full = run.full /\ run'.tombs = run.tombs /\ run'.found = run.found /\ run'.upgrade = run.upgrade
      BY <2>1 DEF RedditInv, Sited, R!Idle
    <2>7. R!TypeOK' /\ Sited'
      BY <1>1, <1>3, <2>1, <2>2, <2>3, <2>4, <2>5, <2>6 DEF RedditInv, R!TypeOK, Sited, Working
    <2>8. RefsFiled' /\ Fresh'
      BY <1>1, <2>6 DEF RedditInv, RefsFiled, Fresh
    <2>9. ListingKept'
      BY <2>1, <2>4, <2>5, <2>6 DEF ListingKept
    <2> QED BY <2>7, <2>8, <2>9 DEF RedditInv
  <1> QED BY <1>2, <1>3

LEMMA AttributeKept ==
  ASSUME R!RedditAssumption, RedditInv, R!Attribute
  PROVE  RedditInv'
  <1> DEFINE c == R!Category
  <1>1. /\ UNCHANGED <<voted, gone, items, faults>> /\ run.step = "attribute"
        /\ labels' = labels \cup {<<t, c>> : t \in R!Range(Export[c])}
        /\ run' = [run EXCEPT !.step = "chunk", !.live = FALSE]
    BY DEF R!Attribute
  <1>2. c \in R!Seed
    BY <1>1, HeadOfQueue DEF RedditInv, Sited, Working
  <1>3. /\ DOMAIN run' = DOMAIN R!Idle /\ run'.step = "chunk" /\ run'.live = FALSE /\ run'.queue = run.queue
        /\ run'.seeds = run.seeds /\ run'.listed = run.listed /\ run'.full = run.full /\ run'.tombs = run.tombs
        /\ run'.found = run.found /\ run'.upgrade = run.upgrade
    BY <1>1 DEF RedditInv, Sited, R!Idle
  <1>4. R!Category' = c
    BY <1>3 DEF R!Category
  <1> HIDE DEF c
  <1>5. R!TypeOK' /\ Sited'
    BY <1>1, <1>2, <1>3, CategoryTyped DEF RedditInv, R!TypeOK, Sited, Working
  <1>6. RefsFiled' /\ Fresh'
    BY <1>1, <1>3, <1>4 DEF RedditInv, RefsFiled, Fresh
  <1>7. ListingKept'
    BY <1>1, <1>3, <1>4, SameRows DEF RedditInv, ListingKept, Working, c
  <1> QED BY <1>5, <1>6, <1>7 DEF RedditInv

LEMMA ChunkKept ==
  ASSUME R!RedditAssumption, RedditInv, R!Chunk
  PROVE  RedditInv'
  <1> DEFINE c == R!Category
             refs == Export[c]
             queued == {i \in DOMAIN refs : refs[i] \notin R!Held}
             chunk == R!Restrict(refs, R!Leading(Batch, queued))
             tombs == R!Tombstones(R!Range(chunk))
             P == {i \in DOMAIN chunk : chunk[i] \in R!Hydrated(R!Range(chunk)) \cup tombs}
  <1>1. UNCHANGED <<voted, gone, items, labels, faults>> /\ run.step = "chunk"
    BY DEF R!Chunk
  <1>2. c \in R!Seed
    BY <1>1, HeadOfQueue DEF RedditInv, Sited, Working
  <1>3. CASE queued = {}
    <2>1. run' = [run EXCEPT !.step = "category", !.queue = Tail(@), !.seeds = <<>>, !.listed = {}]
      BY <1>3 DEF R!Chunk
    <2>2. /\ DOMAIN run' = DOMAIN R!Idle /\ run'.step = "category" /\ run'.live = run.live /\ run'.queue = Tail(run.queue)
          /\ run'.seeds = <<>> /\ run'.listed = {} /\ run'.full = run.full /\ run'.tombs = run.tombs
          /\ run'.found = run.found /\ run'.upgrade = run.upgrade
      BY <2>1 DEF RedditInv, Sited, R!Idle
    <2>3. Tail(run.queue) \in Seq(R!Seed)
      BY <1>1 DEF RedditInv, Sited, Working
    <2>4. R!TypeOK' /\ Sited'
      BY <1>1, <2>2, <2>3, EmptyRange DEF RedditInv, R!TypeOK, Sited, Working
    <2>5. RefsFiled' /\ Fresh' /\ ListingKept'
      BY <1>1, <2>2 DEF RedditInv, RefsFiled, Fresh, ListingKept, Working
    <2> QED BY <2>4, <2>5 DEF RedditInv
  <1>4. CASE queued # {}
    <2>1. run' = [run EXCEPT !.step = "expand", !.tombs = tombs, !.seeds = R!Restrict(chunk, P)]
      BY <1>4 DEF R!Chunk
    <2>2. R!Range(R!Restrict(chunk, P)) \subseteq Things
      <3>1. R!Leading(Batch, queued) \subseteq DOMAIN refs
        BY DEF R!Leading
      <3>2. R!Range(refs) \subseteq Things
        BY <1>2, CategoryTyped
      <3>3. P \subseteq DOMAIN chunk
        OBVIOUS
      <3>4. R!Range(chunk) \subseteq R!Range(refs)
        <4> HIDE DEF refs, queued
        <4> QED BY <3>1, RestrictRange
      <3>5. R!Range(R!Restrict(chunk, P)) \subseteq R!Range(chunk)
        <4> HIDE DEF chunk, P
        <4> QED BY <3>3, RestrictRange
      <3> QED BY <3>2, <3>4, <3>5
    <2> DEFINE seeds == R!Restrict(chunk, P)
    <2> HIDE DEF tombs, seeds
    <2>3. /\ DOMAIN run' = DOMAIN R!Idle /\ run'.step = "expand" /\ run'.live = run.live /\ run'.queue = run.queue
          /\ run'.seeds = seeds /\ run'.listed = run.listed /\ run'.full = run.full
          /\ run'.found = run.found /\ run'.upgrade = run.upgrade
      BY <2>1 DEF RedditInv, Sited, R!Idle, seeds
    <2>4. R!Range(seeds) \subseteq Things
      BY <2>2 DEF seeds
    <2>5. R!Category' = c /\ ~run.live
      BY <1>1, <2>3 DEF R!Category, RedditInv, Sited
    <2> HIDE DEF c
    <2>6. R!TypeOK' /\ Sited'
      BY <1>1, <2>3, <2>4 DEF RedditInv, R!TypeOK, Sited, Working
    <2>7. RefsFiled' /\ Fresh'
      BY <1>1, <2>3, <2>5 DEF RedditInv, RefsFiled, Fresh, Working, c
    <2>8. ListingKept'
      BY <1>1, <2>3, <2>5, SameRows DEF RedditInv, ListingKept, Working, c
    <2> QED BY <2>6, <2>7, <2>8 DEF RedditInv
  <1> QED BY <1>3, <1>4

\* What is expanded is known with the contexts of what was listed.
LEMMA ExpandKept ==
  ASSUME R!RedditAssumption, RedditInv, R!Expand
  PROVE  RedditInv'
  <1> DEFINE seeds == R!Range(run.seeds)
             found == R!Expanded(seeds, run.tombs)
  <1>1. /\ UNCHANGED <<voted, gone, items, labels, faults>> /\ run.step = "expand"
        /\ run' = [run EXCEPT !.step = "upgrade", !.found = found, !.upgrade = seeds \cap R!Held]
    BY DEF R!Expand
  <1>2. /\ DOMAIN run' = DOMAIN R!Idle /\ run'.step = "upgrade" /\ run'.live = run.live /\ run'.queue = run.queue
        /\ run'.seeds = run.seeds /\ run'.listed = run.listed /\ run'.full = run.full /\ run'.tombs = run.tombs
        /\ run'.found = found /\ run'.upgrade = seeds \cap R!Held
    <2> HIDE DEF found, seeds
    <2> QED BY <1>1 DEF RedditInv, Sited, R!Idle
  <1>3. seeds \subseteq Things
    BY DEF RedditInv, Sited
  <1>4. found = Rounds(gone, seeds, run.tombs)[MaxDepth].known
    BY ExpandedIs
  <1>5. seeds \subseteq found /\ found \subseteq Things
    <2> HIDE DEF seeds, found
    <2> QED BY <1>3, <1>4, RoundsTyped
  <1>6. ASSUME run.tombs = {}, NEW t \in seeds PROVE R!ContextOf(t) \subseteq found
    <2>1. R!ContextOf(t) = Rounds(gone, {t}, {})[MaxDepth].known \ {t}
      BY ExpandedIs DEF R!ContextOf
    <2> HIDE DEF seeds, found
    <2> QED BY <1>4, <1>6, <2>1, RoundsGrow
  <1>7. R!Category' = R!Category
    BY <1>2 DEF R!Category
  <1> HIDE DEF found
  <1>8. R!TypeOK' /\ Sited'
    BY <1>1, <1>2, <1>5 DEF RedditInv, R!TypeOK, Sited, Working
  <1>9. RefsFiled' /\ Fresh'
    BY <1>1, <1>2, <1>7 DEF RedditInv, RefsFiled, Fresh, Working
  <1>10. ListingKept'
    <2> SUFFICES ASSUME run.full, NEW t \in run.listed
                 PROVE  /\ <<t, R!Category>> \in labels
                        /\ IF run.live
                           THEN t \in seeds /\ t \in found /\ R!ContextOf(t) \subseteq found /\ (t \in R!Held => t \in seeds \cap R!Held)
                           ELSE Own(t) /\ R!ContextOf(t) \subseteq R!Held
      BY <1>1, <1>2, <1>7, SameRows DEF ListingKept
    <2>1. /\ <<t, R!Category>> \in labels
          /\ IF run.live THEN t \in seeds ELSE Own(t) /\ R!ContextOf(t) \subseteq R!Held
      BY <1>1 DEF RedditInv, ListingKept, Working
    <2>2. run.live => run.tombs = {}
      BY DEF RedditInv, Fresh
    <2> HIDE DEF seeds
    <2> QED BY <1>5, <1>6, <2>1, <2>2
  <1> QED BY <1>8, <1>9, <1>10 DEF RedditInv

\* The listed rows that are there already become the category's own, before any is inserted.
LEMMA UpgradeKept ==
  ASSUME R!RedditAssumption, RedditInv, R!Upgrade
  PROVE  RedditInv'
  <1>1. UNCHANGED <<voted, gone, labels, faults>> /\ run.step = "upgrade"
    BY DEF R!Upgrade
  <1>2. \A t : R!ContextOf(t)' = R!ContextOf(t)
    BY <1>1, ContextStays
  <1>3. CASE run.upgrade = {}
    <2>1. run' = [run EXCEPT !.step = "insert", !.found = run.found \ R!Held] /\ UNCHANGED items
      BY <1>3 DEF R!Upgrade
    <2>2. /\ DOMAIN run' = DOMAIN R!Idle /\ run'.step = "insert" /\ run'.live = run.live /\ run'.queue = run.queue
          /\ run'.seeds = run.seeds /\ run'.listed = run.listed /\ run'.full = run.full /\ run'.tombs = run.tombs
          /\ run'.found = run.found \ R!Held /\ run'.upgrade = run.upgrade
      BY <2>1 DEF RedditInv, Sited, R!Idle
    <2>3. R!Category' = R!Category /\ R!Held' = R!Held /\ \A t : Own(t)' <=> Own(t)
      BY <1>1, <2>1, <2>2, SameRows DEF R!Category
    <2>4. R!TypeOK' /\ Sited'
      BY <1>1, <1>3, <2>1, <2>2 DEF RedditInv, R!TypeOK, Sited, Working
    <2>5. RefsFiled' /\ Fresh'
      BY <1>1, <2>2, <2>3 DEF RedditInv, RefsFiled, Fresh, Working
    <2>6. ListingKept'
      BY <1>1, <1>2, <1>3, <2>2, <2>3 DEF RedditInv, ListingKept, Working
    <2> QED BY <2>4, <2>5, <2>6 DEF RedditInv
  <1>4. CASE run.upgrade # {}
    <2>1. PICK t \in run.upgrade :
            /\ items' = IF items[t].origin = "found" THEN [items EXCEPT ![t].origin = R!Category] ELSE items
            /\ run' = [run EXCEPT !.upgrade = @ \ {t}]
      BY <1>4 DEF R!Upgrade
    <2>2. /\ DOMAIN run' = DOMAIN R!Idle /\ run'.step = "upgrade" /\ run'.live = run.live /\ run'.queue = run.queue
          /\ run'.seeds = run.seeds /\ run'.listed = run.listed /\ run'.full = run.full /\ run'.tombs = run.tombs
          /\ run'.found = run.found /\ run'.upgrade = run.upgrade \ {t}
      BY <1>1, <2>1 DEF RedditInv, Sited, R!Idle
    <2>3. R!Category' = R!Category
      BY <2>2 DEF R!Category
    <2>4. R!Category \in R!Seed /\ R!Category \notin {"none", "found"} /\ t \in Things
      BY <1>1, <2>1, HeadOfQueue, CategoryTyped DEF RedditInv, Sited, Working, R!TypeOK
    <2>5. /\ items' \in [Things -> [origin : R!Seed \cup {"none", "found"}, tombstone : BOOLEAN]]
          /\ \A u \in Things : items'[u].origin = IF u = t /\ items[t].origin = "found" THEN R!Category ELSE items[u].origin
      BY <2>1, <2>4 DEF RedditInv, R!TypeOK
    <2>6. R!Held' = R!Held
      BY <2>4, <2>5 DEF R!Held
    <2>7. (\A u : Own(u) => Own(u)') /\ (t \in R!Held => Own(t)')
      <3>1. \A u \in Things : items[u].origin \in R!Seed \cup {"none", "found"}
        BY DEF RedditInv, R!TypeOK
      <3> QED BY <2>4, <2>5, <2>6, <3>1 DEF Own, R!Held
    <2>8. R!TypeOK' /\ Sited'
      BY <1>1, <2>2, <2>5 DEF RedditInv, R!TypeOK, Sited, Working
    <2>9. RefsFiled' /\ Fresh'
      BY <1>1, <2>2, <2>3 DEF RedditInv, RefsFiled, Fresh, Working
    <2>10. ListingKept'
      BY <1>1, <1>2, <2>2, <2>3, <2>6, <2>7 DEF RedditInv, ListingKept, Working
    <2> QED BY <2>8, <2>9, <2>10 DEF RedditInv
  <1> QED BY <1>3, <1>4

\* The first of some seeds is one of them.
LEMMA FirstIs ==
  ASSUME NEW T
  PROVE  R!First(T) \subseteq T
  BY DEF R!First, R!Leading

\* A row that is inserted is new, and the category's own where it was listed.
LEMMA InsertKept ==
  ASSUME R!RedditAssumption, RedditInv, R!Insert
  PROVE  RedditInv'
  <1>1. UNCHANGED <<voted, gone, faults>> /\ run.step = "insert"
    BY DEF R!Insert
  <1>2. \A t : R!ContextOf(t)' = R!ContextOf(t)
    BY <1>1, ContextStays
  <1>3. CASE run.found = {}
    <2>1. /\ run' = [run EXCEPT !.step = IF run.live THEN "attribute" ELSE "chunk", !.seeds = <<>>, !.tombs = {}]
          /\ UNCHANGED <<items, labels>>
      BY <1>3 DEF R!Insert
    <2>2. /\ DOMAIN run' = DOMAIN R!Idle /\ run'.step = (IF run.live THEN "attribute" ELSE "chunk") /\ run'.live = run.live
          /\ run'.queue = run.queue /\ run'.seeds = <<>> /\ run'.listed = run.listed /\ run'.full = run.full
          /\ run'.tombs = {} /\ run'.found = run.found /\ run'.upgrade = run.upgrade
      BY <2>1 DEF RedditInv, Sited, R!Idle
    <2>3. R!Category' = R!Category /\ R!Held' = R!Held /\ \A t : Own(t)' <=> Own(t)
      BY <1>1, <2>1, <2>2, SameRows DEF R!Category
    <2>4. R!TypeOK' /\ Sited'
      BY <1>1, <2>1, <2>2, EmptyRange DEF RedditInv, R!TypeOK, Sited, Working
    <2>5. RefsFiled' /\ Fresh'
      BY <1>1, <2>1, <2>2, <2>3 DEF RedditInv, RefsFiled, Fresh, Working
    <2>6. ListingKept'
      BY <1>1, <1>2, <1>3, <2>1, <2>2, <2>3 DEF RedditInv, ListingKept, Working
    <2> QED BY <2>4, <2>5, <2>6 DEF RedditInv
  <1>4. CASE run.found # {}
    <2>1. PICK t \in run.found :
            /\ items' = [items EXCEPT ![t] = [origin |-> IF t \in R!Range(run.seeds) THEN R!Category ELSE "found",
                                              tombstone |-> t \in run.tombs]]
            /\ labels' = labels \cup {<<t, R!Category>>}
            /\ run' = [run EXCEPT !.found = @ \ {t}]
      BY <1>4, FirstIs DEF R!Insert
    <2>2. /\ DOMAIN run' = DOMAIN R!Idle /\ run'.step = "insert" /\ run'.live = run.live /\ run'.queue = run.queue
          /\ run'.seeds = run.seeds /\ run'.listed = run.listed /\ run'.full = run.full /\ run'.tombs = run.tombs
          /\ run'.found = run.found \ {t} /\ run'.upgrade = run.upgrade
      BY <1>1, <2>1 DEF RedditInv, Sited, R!Idle
    <2>3. R!Category' = R!Category
      BY <2>2 DEF R!Category
    <2>4. R!Category \in R!Seed /\ R!Category \notin {"none", "found"} /\ t \in Things /\ t \notin R!Held
      BY <1>1, <2>1, HeadOfQueue, CategoryTyped DEF RedditInv, Sited, Working, R!TypeOK, Fresh
    <2>5. /\ items' \in [Things -> [origin : R!Seed \cup {"none", "found"}, tombstone : BOOLEAN]]
          /\ items'[t].origin = (IF t \in R!Range(run.seeds) THEN R!Category ELSE "found")
          /\ \A u \in Things : u # t => items'[u] = items[u]
      BY <2>1, <2>4 DEF RedditInv, R!TypeOK
    <2>6. R!Held' = R!Held \cup {t}
      BY <2>4, <2>5 DEF R!Held
    <2>7. (\A u : Own(u) => Own(u)') /\ (t \in R!Range(run.seeds) => Own(t)')
      BY <2>4, <2>5, <2>6 DEF Own, R!Held
    <2>8. R!TypeOK' /\ Sited'
      BY <1>1, <2>1, <2>2, <2>4, <2>5 DEF RedditInv, R!TypeOK, Sited, Working
    <2>9. RefsFiled' /\ Fresh'
      BY <1>1, <2>1, <2>2, <2>3, <2>6 DEF RedditInv, RefsFiled, Fresh, Working
    <2>10. ListingKept'
      BY <1>1, <1>2, <2>1, <2>2, <2>3, <2>6, <2>7 DEF RedditInv, ListingKept, Working
    <2> QED BY <2>8, <2>9, <2>10 DEF RedditInv
  <1> QED BY <1>3, <1>4

-----------------------------------------------------------------------------
(* What a category is left with                                            *)

LEMMA RedditHolds ==
  ASSUME R!RedditAssumption
  PROVE  R!Spec => []RedditInv
  <1>1. R!Init => RedditInv
    BY RedditInit
  <1>2. RedditInv /\ [R!Next]_(R!vars) => RedditInv'
    <2> SUFFICES ASSUME RedditInv, [R!Next]_(R!vars) PROVE RedditInv'
      OBVIOUS
    <2>1. CASE R!Next
      BY <2>1, ListKept, AttributeKept, ChunkKept, ExpandKept, UpgradeKept, InsertKept, FaultKept, RestKept, ChangeKept, StartKept
         DEF R!Next, R!Job
    <2>2. CASE UNCHANGED R!vars
      <3>1. UNCHANGED <<voted, gone, items, labels, run, faults>>
        BY <2>2 DEF R!vars
      <3>2. R!Category' = R!Category /\ R!TypeOK' /\ Sited'
        BY <3>1 DEF RedditInv, R!TypeOK, Sited, R!Category
      <3> QED BY <3>1, <3>2, SameRows DEF RedditInv, RefsFiled, Fresh, ListingKept
    <2> QED BY <2>1, <2>2
  <1> QED BY <1>1, <1>2, PTL DEF R!Spec

\* A run of Reddit files and records things there are, and upgrades none but what it
\* was given (archiver.py:134-142), whatever Reddit lists, resolves or refuses.
THEOREM CategoriesAreTyped ==
  ASSUME R!RedditAssumption
  PROVE  R!Spec => []R!TypeOK
  <1>1. RedditInv => R!TypeOK
    BY DEF RedditInv
  <1> QED BY <1>1, RedditHolds, PTL

\* However runs before it were cut short, a category that is walked to its end has
\* every ref of the export recorded and filed; a full run has all of the listing too,
\* none of it as a mere find, with what it hangs on (archiver.py:84-105).
THEOREM CategoriesEndWhole ==
  ASSUME R!RedditAssumption
  PROVE  R!Spec => R!CategoryIsWhole
  <1>1. RedditInv /\ [R!Next]_(R!vars) =>
          [R!CategoryEnds =>
             /\ \A t \in R!Range(Export[R!Category]) : R!Filed(t, R!Category)
             /\ run.full => \A t \in run.listed :
                  R!Filed(t, R!Category) /\ items[t].origin \in R!Seed /\ R!ContextOf(t) \subseteq R!Held]_(R!vars)
    <2> SUFFICES ASSUME RedditInv, R!Next, R!CategoryEnds
                 PROVE  /\ \A t \in R!Range(Export[R!Category]) : R!Filed(t, R!Category)
                        /\ run.full => \A t \in run.listed :
                             R!Filed(t, R!Category) /\ items[t].origin \in R!Seed /\ R!ContextOf(t) \subseteq R!Held
      OBVIOUS
    <2>1. ~run.live /\ run.step = "chunk"
      BY DEF R!CategoryEnds, RedditInv, Sited
    <2>2. \A t \in R!Range(Export[R!Category]) : t \in R!Held
      <3>1. R!Chunk
        BY <2>1 DEF R!Next, R!Job, R!CategoryEnds, RedditInv, R!TypeOK, R!List, R!Attribute, R!Expand, R!Upgrade, R!Insert, R!Fault,
                    R!Vote, R!Change, R!Start
      <3> DEFINE queued == {i \in DOMAIN Export[R!Category] : Export[R!Category][i] \notin R!Held}
      <3>2. CASE queued # {}
        <4>1. run'.step = "expand"
          BY <3>1, <3>2 DEF R!Chunk, RedditInv, Sited, R!Idle
        <4> QED BY <4>1 DEF R!CategoryEnds
      <3> QED BY <3>2 DEF R!Range
    <2> QED BY <2>1, <2>2 DEF RedditInv, RefsFiled, ListingKept, Own, R!Filed, Working
  <1> QED BY <1>1, RedditHolds, PTL DEF R!CategoryIsWhole, R!Spec
=============================================================================
