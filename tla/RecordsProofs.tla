---------------------------- MODULE RecordsProofs ----------------------------
(***************************************************************************)
(* What is recorded.  Bringing a file forward, one process at a time:      *)
(* whichever builds open it, and wherever they die, its schema is the one  *)
(* its version says, and up to the tenth version its content is in a copy  *)
(* before a step runs.  And the people behind the items: the latest        *)
(* version of each says what was last said of it, a picture named again is *)
(* tried again, and a refresh that ends leaves nobody to be asked about.   *)
(***************************************************************************)
EXTENDS Migrations, Sequences, FiniteSetTheorems, WellFoundedInduction, TLAPS

-----------------------------------------------------------------------------
(* A file brought forward (Migrations)                                     *)

\* The builds there are know some of the steps; the clock does not begin in the past.
Sized == Builds \subseteq Version /\ Kept \in Nat \ {0} /\ MaxNow \in Nat /\ MaxDeaths \in Nat

Stages == {"out", "copy", "copying", "prune", "apply"}

Locals == [step : Stages, build : Version, version : Version, index : Version, full : BOOLEAN, at : 0 .. MaxNow]

Shaped ==
  /\ DOMAIN file = {"version", "schema"} /\ file.version \in Version
  /\ proc \in [Process -> Locals]
  /\ now \in 0 .. MaxNow /\ deaths \in 0 .. MaxDeaths
  /\ backups \subseteq [name : [version : Version, at : 0 .. now], whole : BOOLEAN]

\* One at a time, and it is where the file is.
OneMoves ==
  \A p \in Process : ~At(p, "out") =>
    /\ \A q \in Process \ {p} : At(q, "out")
    /\ proc[p].index = file.version /\ proc[p].version <= file.version /\ file.version <= proc[p].build
    /\ proc[p].version < proc[p].build /\ proc[p].build \in Builds
    /\ ~At(p, "apply") => proc[p].version = file.version

\* How p's copy is named.
Mine(p) == [version |-> proc[p].version, at |-> proc[p].at]

TruthInv == Shaped /\ OneMoves /\ VersionIsTruth

-----------------------------------------------------------------------------
(* The steps                                                               *)

\* A step makes of one version's schema the next one's, also where the first of
\* them finds its tables there.
LEMMA StepsAddUp ==
  ASSUME NEW v \in Version, v + 1 \in Version
  PROVE  /\ SchemaAt(v + 1) = (SchemaAt(v) \ Drops(v + 1)) \cup Creates[v + 1]
         /\ v = 0 => SchemaAt(v + 1) = (Creates[1] \ Drops(v + 1)) \cup Creates[v + 1]
  <1>1. v \in Int /\ v >= 0 /\ 1 .. (v + 1) = (1 .. v) \cup {v + 1}
    BY DEF Version
  <1>2. SchemaAt(v + 1) = SchemaAt(v) \cup Creates[v + 1]
    BY <1>1 DEF SchemaAt
  <1>3. Drops(v + 1) \subseteq Creates[v + 1]
    <2>1. CASE v + 1 = 10
      <3>1. Drops(v + 1) = {"items_fts"} /\ Creates[10] = {"items_fts"}
        BY <2>1 DEF Drops, Creates
      <3> QED BY <2>1, <3>1
    <2>2. CASE v + 1 # 10
      BY <2>2 DEF Drops
    <2> QED BY <2>1, <2>2
  <1>4. v = 0 => SchemaAt(v) = {}
    BY <1>1 DEF SchemaAt
  <1> HIDE DEF SchemaAt, Drops, Creates
  <1>5. v = 0 => Creates[v + 1] = Creates[1]
    OBVIOUS
  <1> QED BY <1>2, <1>3, <1>4, <1>5

LEMMA InitIsTrue ==
  ASSUME Sized, Init
  PROVE  TruthInv
  <1>1. SchemaAt(0) = {}
    BY DEF SchemaAt
  <1>2. PICK schema \in {{}, Creates[1]} : file = [version |-> 0, schema |-> schema]
    BY DEF Init
  <1>3. VersionIsTruth
    BY <1>1, <1>2 DEF VersionIsTruth
  <1>4. Shaped
    BY <1>2 DEF Init, Shaped, Locals, Sized, Version, Stages, Outside
  <1>5. OneMoves
    BY DEF Init, OneMoves, At, Outside
  <1> QED BY <1>3, <1>4, <1>5 DEF TruthInv

\* A process moves on, and the rest is where it was.
LEMMA OneGoes ==
  ASSUME Sized, TruthInv, NEW p \in Process, NEW step \in Stages \ {"out"}, ~At(p, "out"),
         proc' = [proc EXCEPT ![p].step = step], file' = file, step = "apply" \/ proc[p].version = file.version
  PROVE  OneMoves'
  <1>1. /\ \A q \in Process \ {p} : proc'[q] = proc[q]
        /\ proc'[p].step = step /\ proc'[p].index = proc[p].index /\ proc'[p].version = proc[p].version
        /\ proc'[p].build = proc[p].build
    BY DEF TruthInv, Shaped, Locals
  <1> QED BY <1>1 DEF TruthInv, OneMoves, At

\* A process that leaves, or that raises.
LEMMA OneLeaves ==
  ASSUME Sized, TruthInv, NEW p \in Process, proc' = [proc EXCEPT ![p] = Outside], file' = file
  PROVE  OneMoves'
  BY DEF TruthInv, Shaped, Locals, OneMoves, At, Outside

LEMMA NextIsTrue ==
  ASSUME Sized, ~Together, TruthInv, [Next]_vars
  PROVE  TruthInv'
  <1> USE DEF Sized
  <1>1. CASE Tick
    BY <1>1 DEF Tick, TruthInv, Shaped, Locals, OneMoves, VersionIsTruth, At
  <1>2. ASSUME NEW p \in Process, Die(p) PROVE TruthInv'
    <2>1. OneMoves'
      BY <1>2, OneLeaves DEF Die
    <2> QED BY <1>2, <2>1 DEF Die, TruthInv, Shaped, Locals, VersionIsTruth, Outside, Version, Stages
  <1>3. ASSUME NEW p \in Process, Copy(p) PROVE TruthInv'
    <2> DEFINE name == [version |-> proc[p].version, at |-> now]
    <2>1. CASE proc' = [proc EXCEPT ![p] = Outside] /\ UNCHANGED backups
      <3>1. OneMoves'
        BY <1>3, <2>1, OneLeaves DEF Copy
      <3> QED BY <1>3, <2>1, <3>1 DEF Copy, TruthInv, Shaped, Locals, VersionIsTruth, Outside, Version, Stages
    <2>2. CASE /\ proc' = [proc EXCEPT ![p].step = "copying", ![p].at = now]
               /\ backups' = backups \cup {[name |-> name, whole |-> FALSE]}
      <3>1. /\ \A q \in Process \ {p} : proc'[q] = proc[q]
            /\ proc'[p].step = "copying" /\ proc'[p].index = proc[p].index /\ proc'[p].version = proc[p].version
            /\ proc'[p].build = proc[p].build
        BY <2>2 DEF TruthInv, Shaped, Locals
      <3>2. OneMoves'
        BY <1>3, <3>1 DEF Copy, TruthInv, OneMoves, At
      <3>3. Shaped'
        <4>1. proc' \in [Process -> Locals]
          <5>1. proc \in [Process -> Locals] /\ now \in 0 .. MaxNow
            BY DEF TruthInv, Shaped, Locals
          <5>2. [proc[p] EXCEPT !.step = "copying", !.at = now] \in Locals
            BY <5>1 DEF Locals, Stages
          <5>3. proc' = [proc EXCEPT ![p] = [proc[p] EXCEPT !.step = "copying", !.at = now]]
            BY <2>2, <5>1
          <5> QED BY <5>1, <5>2, <5>3
        <4>2. name \in [version : Version, at : 0 .. now] /\ now \in 0 .. MaxNow
          BY DEF TruthInv, Shaped, Locals
        <4>3. [name |-> name, whole |-> FALSE] \in [name : [version : Version, at : 0 .. now], whole : BOOLEAN]
          <5> HIDE DEF name
          <5> QED BY <4>2
        <4>4. backups' \subseteq [name : [version : Version, at : 0 .. now], whole : BOOLEAN]
          <5> HIDE DEF name
          <5> QED BY <2>2, <4>3 DEF TruthInv, Shaped, Locals
        <4>5. UNCHANGED <<file, now, deaths>>
          BY <1>3 DEF Copy
        <4> QED BY <4>1, <4>4, <4>5 DEF TruthInv, Shaped, Locals
      <3> QED BY <1>3, <3>2, <3>3 DEF Copy, TruthInv, VersionIsTruth
    <2> QED BY <1>3, <2>1, <2>2 DEF Copy
  <1>4. ASSUME NEW p \in Process, Copied(p) PROVE TruthInv'
    <2>1. OneMoves'
      BY <1>4, OneGoes DEF Copied, Go, At, TruthInv, OneMoves, Stages
    <2>2. Shaped'
      <3>1. backups' \subseteq [name : [version : Version, at : 0 .. now], whole : BOOLEAN]
        <4>1. ASSUME NEW b \in backups
              PROVE  [b EXCEPT !.whole = @ \/ b.name = Mine(p)]
                       \in [name : [version : Version, at : 0 .. now], whole : BOOLEAN]
          <5>1. b \in [name : [version : Version, at : 0 .. now], whole : BOOLEAN]
            BY DEF TruthInv, Shaped
          <5> DEFINE whole == b.whole \/ b.name = Mine(p)
          <5>2. whole \in BOOLEAN
            OBVIOUS
          <5>3. [b EXCEPT !.whole = whole] \in [name : [version : Version, at : 0 .. now], whole : BOOLEAN]
            <6> HIDE DEF whole
            <6> QED BY <5>1, <5>2
          <5> QED BY <5>3
        <4>2. backups' = {[b EXCEPT !.whole = @ \/ b.name = Mine(p)] : b \in backups}
          BY <1>4 DEF Copied, Mine
        <4> QED BY <4>1, <4>2
      <3> QED BY <1>4, <3>1 DEF Copied, Go, TruthInv, Shaped, Locals, Stages
    <2> QED BY <1>4, <2>1, <2>2 DEF Copied, TruthInv, VersionIsTruth
  <1>5. ASSUME NEW p \in Process, Prune(p) PROVE TruthInv'
    <2>1. OneMoves'
      BY <1>5, OneGoes DEF Prune, Go, At, Stages
    <2>2. Shaped'
      <3>1. backups' \subseteq backups
        BY <1>5 DEF Prune
      <3> QED BY <1>5, <3>1 DEF Prune, Go, TruthInv, Shaped, Locals, Stages
    <2> QED BY <1>5, <2>1, <2>2 DEF Prune, TruthInv, VersionIsTruth
  <1>6. ASSUME NEW p \in Process, Apply(p) PROVE TruthInv'
    <2> DEFINE step == proc[p].index + 1
    <2>1. CASE proc' = [proc EXCEPT ![p] = Outside] /\ UNCHANGED file
      <3>1. OneMoves'
        BY <1>6, <2>1, OneLeaves
      <3> QED BY <1>6, <2>1, <3>1 DEF Apply, TruthInv, Shaped, Locals, VersionIsTruth, Outside, Version, Stages
    <2>2. CASE /\ file' = [version |-> step, schema |-> (file.schema \ Drops(step)) \cup Creates[step]]
               /\ proc' = Advanced(p)
      <3>1. /\ proc[p].index = file.version /\ At(p, "apply") /\ file.version < proc[p].build
            /\ file.version \in Version /\ file.version + 1 \in Version
        BY <1>6 DEF Apply, At, TruthInv, OneMoves, Shaped, Locals, Version
      <3>2. file'.version = file.version + 1 /\ file'.schema = (file.schema \ Drops(step)) \cup Creates[step]
        BY <2>2, <3>1
      <3>3. VersionIsTruth'
        BY <3>1, <3>2, StepsAddUp DEF TruthInv, VersionIsTruth
      <3>4. /\ \A q \in Process \ {p} : proc'[q] = proc[q]
            /\ proc'[p].step = "apply" /\ proc'[p].index = file.version + 1 /\ proc'[p].version = proc[p].version
            /\ proc'[p].build = proc[p].build
        BY <2>2, <3>1 DEF Advanced, TruthInv, Shaped, Locals
      <3>5. OneMoves'
        BY <3>1, <3>2, <3>4 DEF TruthInv, OneMoves, Shaped, Locals, Version, At
      <3>6. Shaped'
        <4>1. proc' \in [Process -> Locals]
          <5>1. proc \in [Process -> Locals] /\ proc[p].index + 1 \in Version
            BY <3>1 DEF TruthInv, Shaped, Locals
          <5>2. [proc[p] EXCEPT !.index = proc[p].index + 1, !.step = "apply"] \in Locals
            BY <5>1 DEF Locals, Stages
          <5>3. proc' = [proc EXCEPT ![p] = [proc[p] EXCEPT !.index = proc[p].index + 1, !.step = "apply"]]
            BY <2>2, <5>1 DEF Advanced
          <5> QED BY <5>1, <5>2, <5>3
        <4> QED BY <1>6, <2>2, <3>1, <4>1 DEF Apply, TruthInv, Shaped, Locals
      <3> QED BY <3>3, <3>5, <3>6 DEF TruthInv
    <2> QED BY <1>6, <2>1, <2>2 DEF Apply
  <1>7. ASSUME NEW p \in Process, Finish(p) PROVE TruthInv'
    <2>1. OneMoves'
      BY <1>7, OneLeaves DEF Finish
    <2> QED BY <1>7, <2>1 DEF Finish, TruthInv, Shaped, Locals, VersionIsTruth, Outside, Version, Stages
  <1>8. ASSUME NEW p \in Process, NEW build \in Builds, Open(p, build) PROVE TruthInv'
    <2> DEFINE new == [step |-> IF file.schema = {} THEN "apply" ELSE "copy", build |-> build,
                       version |-> file.version, index |-> file.version,
                       full |-> file.schema # {}, at |-> now]
    <2>1. /\ proc' = [proc EXCEPT ![p] = new] /\ UNCHANGED <<file, backups, now, deaths>>
          /\ \A q \in Process : At(q, "out")
          /\ file.version < build
      BY <1>8 DEF Open
    <2>2. Shaped'
      <3>1. new \in Locals
        BY DEF TruthInv, Shaped, Locals, Stages
      <3> HIDE DEF new
      <3> QED BY <2>1, <3>1 DEF TruthInv, Shaped, Locals
    <2>3. OneMoves'
      <3>1. proc'[p] = new /\ \A q \in Process \ {p} : proc'[q] = proc[q]
        BY <2>1 DEF TruthInv, Shaped, Locals
      <3>2. build \in Int /\ file.version \in Int
        BY DEF TruthInv, Shaped, Locals, Version
      <3> QED BY <2>1, <3>1, <3>2 DEF TruthInv, OneMoves, At
    <2> QED BY <2>1, <2>2, <2>3 DEF TruthInv, VersionIsTruth
  <1>9. CASE UNCHANGED vars
    BY <1>9 DEF vars, TruthInv, Shaped, Locals, OneMoves, VersionIsTruth, At
  <1> QED
    BY <1>1, <1>2, <1>3, <1>4, <1>5, <1>6, <1>7, <1>8, <1>9 DEF Next

\* Whichever builds open a file one after the other, and wherever they die, the
\* version it reports is what its schema is: a step and the version that records
\* it are one commit (migrations.py:9-12).
THEOREM VersionsAreTrue ==
  ASSUME Sized, ~Together
  PROVE  Spec => []VersionIsTruth
  <1>1. Init => TruthInv
    BY InitIsTrue
  <1>2. TruthInv /\ [Next]_vars => TruthInv'
    BY NextIsTrue
  <1>3. TruthInv => VersionIsTruth
    BY DEF TruthInv
  <1> QED BY <1>1, <1>2, <1>3, PTL DEF Spec
-----------------------------------------------------------------------------
(* The copy                                                                *)

\* A copy of p's version that the sort of the names puts last.
Last(p) ==
  \A b \in backups : b.name.version <= proc[p].version /\ b.name.at <= proc[p].at

\* No copy is of a version the file has not had, and p's is there from when it was
\* begun, the last of them until the others were pruned, and whole before a step.
CopyInv ==
  /\ TruthInv
  /\ \A b \in backups : b.name.version <= file.version
  /\ \A p \in Process :
       /\ At(p, "copying") => Last(p) /\ \E b \in backups : b.name = Mine(p)
       /\ At(p, "prune") => Last(p) /\ \E b \in backups : b.name = Mine(p) /\ b.whole
  /\ CopiedFirst

\* Digit by digit is in order up to the ninth version.
LEMMA LastIsLast ==
  ASSUME Sized, TruthInv, NEW p \in Process, proc[p].version <= 9, Last(p), NEW b \in backups
  PROVE  ~Before(Mine(p), b.name)
  <1>1. /\ b.name.version \in Nat /\ b.name.at \in Nat /\ proc[p].version \in Nat /\ proc[p].at \in Nat
        /\ b.name.version <= proc[p].version /\ b.name.at <= proc[p].at
    BY DEF TruthInv, Shaped, Locals, Version, Last, Sized
  <1>2. Mine(p).version = proc[p].version /\ Mine(p).at = proc[p].at
    BY DEF Mine
  <1>3. Digits(b.name.version) <= Digits(Mine(p).version)
    BY <1>1, <1>2 DEF Digits
  <1>4. Digits(b.name.version) \in Int /\ Digits(Mine(p).version) \in Int
    BY <1>1, <1>2 DEF Digits
  <1> QED BY <1>1, <1>2, <1>3, <1>4 DEF Before

\* While one moves the others are out, so what is said of the others is nothing.
LEMMA OthersAreOut ==
  ASSUME TruthInv, NEW p \in Process, ~At(p, "out"), NEW q \in Process \ {p}
  PROVE  At(q, "out") /\ ~At(q, "copying") /\ ~At(q, "prune") /\ ~At(q, "apply")
  BY DEF TruthInv, OneMoves, At

LEMMA NextKeepsCopies ==
  ASSUME Sized, Builds \subseteq 0 .. 10, ~Together, CopyInv, [Next]_vars
  PROVE  CopyInv'
  <1> USE DEF Sized
  <1>1. TruthInv /\ TruthInv'
    BY NextIsTrue DEF CopyInv
  <1>2. CASE Tick \/ UNCHANGED vars
    BY <1>1, <1>2 DEF Tick, vars, CopyInv, CopiedFirst, At, Last, Mine
  <1>3. ASSUME NEW p \in Process, proc' = [proc EXCEPT ![p] = Outside], UNCHANGED <<file, backups>>
        PROVE  CopyInv'
    <2>1. /\ \A q \in Process \ {p} : proc'[q] = proc[q]
          /\ proc'[p].step = "out"
      BY <1>1, <1>3 DEF TruthInv, Shaped, Locals, Outside
    <2> QED BY <1>1, <1>3, <2>1 DEF CopyInv, CopiedFirst, At, Last, Mine
  <1>4. ASSUME NEW p \in Process, Copy(p) PROVE CopyInv'
    <2> DEFINE name == [version |-> proc[p].version, at |-> now]
    <2>1. CASE proc' = [proc EXCEPT ![p] = Outside] /\ UNCHANGED backups
      BY <1>3, <1>4, <2>1 DEF Copy
    <2>2. CASE /\ proc' = [proc EXCEPT ![p].step = "copying", ![p].at = now]
               /\ backups' = backups \cup {[name |-> name, whole |-> FALSE]}
      <3>1. /\ \A q \in Process \ {p} : proc'[q] = proc[q] /\ At(q, "out")
            /\ proc'[p].step = "copying" /\ proc'[p].version = proc[p].version /\ proc'[p].at = now
        BY <1>1, <1>4, <2>2, OthersAreOut DEF Copy, At, TruthInv, Shaped, Locals
      <3>2. proc[p].version = file.version /\ file' = file
        BY <1>4 DEF Copy, CopyInv, TruthInv, OneMoves, At
      <3>3. Mine(p)' = name /\ name.version = file.version /\ name.at = now
        BY <3>1, <3>2 DEF Mine
      <3>4. \A b \in backups : b.name.at <= now /\ b.name.version <= file.version
        BY DEF CopyInv, TruthInv, Shaped, Locals
      <3>5. now \in Int /\ file.version \in Int
        BY DEF CopyInv, TruthInv, Shaped, Locals, Version
      <3>6. /\ \A b \in backups' : b.name.at <= now /\ b.name.version <= file.version
            /\ \E b \in backups' : b.name = name
        <4> DEFINE new == [name |-> name, whole |-> FALSE]
        <4>1. new.name = name /\ new.name.at <= now /\ new.name.version <= file.version
          BY <3>3, <3>5
        <4>2. backups' = backups \cup {new}
          BY <2>2
        <4> HIDE DEF name, new
        <4> QED BY <3>4, <4>1, <4>2
      <3>7. Last(p)' /\ \E b \in backups' : b.name = Mine(p)'
        BY <3>1, <3>2, <3>3, <3>6 DEF Last
      <3>8. ~At(p, "prune")' /\ ~At(p, "apply")' /\ \A q \in Process \ {p} : At(q, "out")'
        BY <3>1 DEF At
      <3> HIDE DEF name
      <3> QED BY <1>1, <3>2, <3>6, <3>7, <3>8 DEF CopyInv, CopiedFirst, At
    <2> QED BY <1>4, <2>1, <2>2 DEF Copy
  <1>5. ASSUME NEW p \in Process, Copied(p) PROVE CopyInv'
    <2>1. /\ \A q \in Process \ {p} : proc'[q] = proc[q] /\ At(q, "out")
          /\ proc'[p].step = "prune" /\ proc'[p].version = proc[p].version /\ proc'[p].at = proc[p].at
          /\ file' = file
      BY <1>1, <1>5, OthersAreOut DEF Copied, Go, At, TruthInv, Shaped, Locals
    <2>2. backups' = {[b EXCEPT !.whole = @ \/ b.name = Mine(p)] : b \in backups}
      BY <1>5 DEF Copied, Mine
    <2>3. \A b \in backups : [b EXCEPT !.whole = @ \/ b.name = Mine(p)].name = b.name
      BY <1>1 DEF TruthInv, Shaped, Locals
    <2>4. ASSUME NEW b \in backups' PROVE \E c \in backups : b.name = c.name
      <3>1. PICK c \in backups : b = [c EXCEPT !.whole = @ \/ c.name = Mine(p)]
        BY <2>2
      <3>2. b.name = c.name
        BY <1>1, <3>1 DEF TruthInv, Shaped, Locals
      <3> QED BY <3>2
    <2>5. PICK b \in backups : b.name = Mine(p)
      BY <1>5 DEF Copied, CopyInv
    <2>6. Last(p)
      BY <1>5 DEF Copied, CopyInv
    <2>7. \E c \in backups' : c.name = Mine(p) /\ c.whole
      <3>1. [b EXCEPT !.whole = @ \/ b.name = Mine(p)].whole
        BY <1>1, <2>5 DEF TruthInv, Shaped, Locals
      <3> QED BY <2>2, <2>3, <2>5, <3>1
    <2>8. Mine(p)' = Mine(p) /\ Last(p)'
      BY <2>1, <2>4, <2>6 DEF Mine, Last
    <2>9. ~At(p, "copying")' /\ ~At(p, "apply")' /\ \A q \in Process \ {p} : At(q, "out")'
      BY <2>1 DEF At
    <2> QED BY <1>1, <2>1, <2>4, <2>7, <2>8, <2>9 DEF CopyInv, CopiedFirst, At
  <1>6. ASSUME NEW p \in Process, Prune(p) PROVE CopyInv'
    <2>1. /\ \A q \in Process \ {p} : proc'[q] = proc[q] /\ At(q, "out")
          /\ proc'[p].step = "apply" /\ proc'[p].version = proc[p].version /\ proc'[p].at = proc[p].at
          /\ file' = file
      BY <1>1, <1>6, OthersAreOut DEF Prune, Go, At, TruthInv, Shaped, Locals
    <2>2. backups' = {b \in backups : Cardinality({c \in backups : Before(b.name, c.name)}) < Kept}
      BY <1>6 DEF Prune
    <2>3. PICK b \in backups : b.name = Mine(p) /\ b.whole
      BY <1>6 DEF Prune, CopyInv
    <2>4. proc[p].version <= 9
      <3>1. At(p, "prune")
        BY <1>6 DEF Prune
      <3>2. proc[p].build \in Builds /\ proc[p].version < proc[p].build /\ proc[p].version \in Int
        BY <1>1, <3>1 DEF TruthInv, OneMoves, At, Shaped, Locals, Version
      <3>3. proc[p].build \in 0 .. 10
        BY <3>2
      <3>4. \A m \in Int, n \in 0 .. 10 : m < n => m <= 9
        OBVIOUS
      <3> QED BY <3>2, <3>3, <3>4, Zenon
    <2> DEFINE later == {c \in backups : Before(b.name, c.name)}
    <2>5. Cardinality(later) < Kept
      <3>1. later = {}
        <4>1. \A c \in backups : ~Before(Mine(p), c.name)
          BY <1>1, <1>6, <2>4, LastIsLast DEF Prune, CopyInv
        <4> QED BY <2>3, <4>1
      <3> HIDE DEF later
      <3>2. Cardinality(later) = 0
        BY <3>1, FS_EmptySet
      <3>3. Kept \in Nat \ {0}
        OBVIOUS
      <3> QED BY ONLY <3>2, <3>3
    <2>6. b \in backups' /\ b.name.version = proc'[p].version
      BY <2>1, <2>2, <2>3, <2>5 DEF Mine
    <2>7. ~At(p, "copying")' /\ ~At(p, "prune")' /\ \A q \in Process \ {p} : At(q, "out")'
      BY <2>1 DEF At
    <2>8. \A c \in backups' : c.name.version <= file'.version
      BY <2>1, <2>2 DEF CopyInv
    <2> QED BY <1>1, <2>3, <2>6, <2>7, <2>8 DEF CopyInv, CopiedFirst, At
  <1>7. ASSUME NEW p \in Process, Apply(p), proc' = Advanced(p),
               file'.version = proc[p].index + 1, UNCHANGED backups
        PROVE  CopyInv'
    <2>1. /\ \A q \in Process \ {p} : proc'[q] = proc[q] /\ At(q, "out")
          /\ proc'[p].step = "apply" /\ proc'[p].version = proc[p].version /\ proc'[p].full = proc[p].full
      BY <1>1, <1>7, OthersAreOut DEF Apply, Advanced, At, TruthInv, Shaped, Locals
    <2>2. file'.version = file.version + 1 /\ file.version \in Int
      BY <1>1, <1>7 DEF Apply, At, TruthInv, OneMoves, Shaped, Locals, Version
    <2>3. \A b \in backups : b.name.version \in Int
      BY <1>1 DEF TruthInv, Shaped, Locals, Version
    <2>4. ~At(p, "copying")' /\ ~At(p, "prune")' /\ \A q \in Process \ {p} : At(q, "out")'
      BY <2>1 DEF At
    <2>5. At(p, "apply")
      BY <1>7 DEF Apply
    <2> QED BY <1>1, <1>7, <2>1, <2>2, <2>3, <2>4, <2>5 DEF CopyInv, CopiedFirst, At
  <1>8. ASSUME NEW p \in Process, NEW build \in Builds, Open(p, build) PROVE CopyInv'
    <2>1. /\ \A q \in Process : At(q, "out")
          /\ \A q \in Process \ {p} : proc'[q] = proc[q]
          /\ proc'[p].step \in {"apply", "copy"}
          /\ proc'[p].step = "apply" => ~proc'[p].full
          /\ UNCHANGED <<file, backups>>
      BY <1>1, <1>8 DEF Open, TruthInv, Shaped, Locals
    <2> QED BY <1>1, <2>1 DEF CopyInv, CopiedFirst, At
  <1>9. ASSUME NEW p \in Process, Apply(p) PROVE CopyInv'
    BY <1>3, <1>7, <1>9 DEF Apply
  <1>10. ASSUME NEW p \in Process, Die(p) \/ Finish(p) PROVE CopyInv'
    BY <1>3, <1>10 DEF Die, Finish
  <1> QED
    BY <1>2, <1>4, <1>5, <1>6, <1>8, <1>9, <1>10 DEF Next

\* Up to the tenth version, a file with content is in a whole copy while steps run
\* on it, however many copies earlier processes left and however few are kept: the
\* one just made sorts last.  Past it the names sort by digits, and it does not
\* (migrations.py:17, :84).
THEOREM ContentIsCopied ==
  ASSUME Sized, Builds \subseteq 0 .. 10, ~Together
  PROVE  Spec => []CopiedFirst
  <1>1. Init => CopyInv
    BY InitIsTrue DEF Init, CopyInv, CopiedFirst, At, Outside
  <1>2. CopyInv /\ [Next]_vars => CopyInv'
    BY NextKeepsCopies
  <1>3. CopyInv => CopiedFirst
    BY DEF CopyInv
  <1> QED BY <1>1, <1>2, <1>3, PTL DEF Spec

-----------------------------------------------------------------------------
(* Numbers                                                                 *)

LEMMA LeastOne ==
  ASSUME NEW T, T \subseteq Nat, T # {}
  PROVE  \E x \in T : \A y \in T : x <= y
  <1> DEFINE R == {ss \in Nat \X Nat : ss[1] < ss[2]}
  <1>1. IsWellFoundedOn(R, Nat)
    BY NatLessThanWellFounded DEF OpToRel
  <1> HIDE DEF R
  <1>2. PICK x \in T : \A y \in T : ~ (<<y, x>> \in R)
    BY <1>1, WFMin
  <1>3. \A y \in T : x <= y
    <2> TAKE y \in T
    <2>1. <<y, x>> \in Nat \X Nat
      OBVIOUS
    <2>2. ~ (y < x)
      BY <1>2, <2>1 DEF R
    <2> QED BY <2>2
  <1> QED BY <1>3

-----------------------------------------------------------------------------
(* The people behind the items (Profiles)                                  *)

CONSTANTS Accounts, Handles, Bios, Keys, Posts, Attempts, Batch, Seeds, Shell, MaxClock, MaxChanges, None

VARIABLES shows, clock, versions, observed, images, refresh, fetching, seen, changes

P == INSTANCE Profiles WITH now <- clock, MaxNow <- MaxClock

LEMMA GreatestOne ==
  ASSUME NEW n \in Nat, NEW S, S \subseteq 0 .. n, S # {}
  PROVE  \E x \in S : \A y \in S : y <= x
  <1> DEFINE T == {n - s : s \in S}
  <1>1. T \subseteq Nat /\ T # {}
    <2>1. \A s \in S : n - s \in Nat
      OBVIOUS
    <2> QED BY <2>1
  <1>2. PICK x \in T : \A y \in T : x <= y
    <2> HIDE DEF T
    <2> QED BY <1>1, LeastOne
  <1>3. PICK s \in S : x = n - s
    BY <1>2
  <1>4. \A r \in S : r <= s
    <2> TAKE r \in S
    <2>1. n - r \in T
      OBVIOUS
    <2>2. n - s <= n - r
      BY <1>2, <1>3, <2>1
    <2>3. r \in Int /\ s \in Int
      OBVIOUS
    <2> HIDE DEF T
    <2> QED BY <2>2, <2>3
  <1> QED BY <1>4

\* i is the last of the versions last seen.
IsLatest(vs, i) == i \in DOMAIN vs /\ \A j \in DOMAIN vs : vs[j].last < vs[i].last \/ (vs[j].last = vs[i].last /\ j <= i)

\* ORDER BY last_seen DESC, version_id DESC names one version.
LEMMA LatestIs ==
  ASSUME NEW vs \in Seq(P!Version), vs # <<>>, MaxClock \in Nat
  PROVE  IsLatest(vs, P!Latest(vs)) /\ \A i : IsLatest(vs, i) => P!Latest(vs) = i
  <1>1. DOMAIN vs = 1 .. Len(vs) /\ Len(vs) \in Nat /\ Len(vs) > 0 /\ \A i \in DOMAIN vs : vs[i] \in P!Version
    OBVIOUS
  <1>2. \A i \in DOMAIN vs : vs[i].last \in 0 .. MaxClock
    BY <1>1 DEF P!Version
  <1>3. \E i : IsLatest(vs, i)
    <2> DEFINE S == {vs[i].last : i \in DOMAIN vs}
    <2>1. S \subseteq 0 .. MaxClock /\ S # {}
      BY <1>1, <1>2
    <2> HIDE DEF S
    <2>2. PICK x \in S : \A y \in S : y <= x
      BY <2>1, GreatestOne
    <2> DEFINE T == {i \in DOMAIN vs : vs[i].last = x}
    <2>3. T \subseteq 0 .. Len(vs) /\ T # {}
      <3>1. \E i \in DOMAIN vs : vs[i].last = x
        BY DEF S
      <3> QED BY <1>1, <3>1
    <2>4. PICK i \in T : \A j \in T : j <= i
      <3> HIDE DEF T
      <3> QED BY <1>1, <2>3, GreatestOne
    <2>5. ASSUME NEW j \in DOMAIN vs
          PROVE  vs[j].last < vs[i].last \/ (vs[j].last = vs[i].last /\ j <= i)
      <3>1. vs[j].last \in S /\ vs[j].last <= x /\ x \in Int /\ vs[j].last \in Int
        BY <1>2, <2>1, <2>2 DEF S
      <3>2. vs[i].last = x
        BY <2>4
      <3> QED BY <2>4, <3>1, <3>2
    <2> QED BY <2>4, <2>5 DEF IsLatest
  <1>4. ASSUME NEW i, NEW j, IsLatest(vs, i), IsLatest(vs, j)
        PROVE  i = j
    <2>1. i \in Int /\ j \in Int /\ vs[i].last \in Int /\ vs[j].last \in Int
      BY <1>1, <1>2, <1>4 DEF IsLatest
    <2> QED BY <1>4, <2>1 DEF IsLatest
  <1>5. P!Latest(vs) = CHOOSE i : IsLatest(vs, i)
    BY Zenon DEF P!Latest, IsLatest
  <1>6. IsLatest(vs, P!Latest(vs))
    BY <1>3, <1>5
  <1> QED BY <1>4, <1>6

\* What is said of an account: a handle, and perhaps the rest.
Known == {s \in [P!Fields -> Handles \cup Bios \cup Keys \cup {None}] :
            s["handle"] \in Handles /\ s["bio"] \in Bios \cup {None} /\ s["avatar"] \in Keys \cup {None}}

\* The versions of an account, none of which is of the future.
History == {vs \in Seq(P!Version) : vs # <<>> /\ \A i \in DOMAIN vs : vs[i].last <= clock}

LEMMA FieldsAre ==
  /\ P!Fields = {"handle", "bio", "avatar"}
  /\ \A s, t : s \in Known /\ t \in Known => P!Said(s, t) \in Known
  /\ \A v \in P!Version : P!Shown(v) \in Known
  BY DEF P!Fields, Known, P!Said, P!Shown, P!Version

\* A sighting leaves of an account what was known, and what it says beside it.
LEMMA RecordedShows ==
  ASSUME NEW vs \in History, NEW s \in Known, MaxClock \in Nat, clock \in 0 .. MaxClock
  PROVE  /\ P!Recorded(vs, s) \in History
         /\ P!Shown(P!Recorded(vs, s)[P!Latest(P!Recorded(vs, s))]) = P!Said(s, P!Shown(vs[P!Latest(vs)]))
  <1> DEFINE i == P!Latest(vs)
             said == P!Said(s, vs[i])
             v == [handle |-> said["handle"], bio |-> said["bio"], avatar |-> said["avatar"], last |-> clock]
             r == P!Recorded(vs, s)
  <1>1. vs \in Seq(P!Version) /\ vs # <<>> /\ \A j \in DOMAIN vs : vs[j].last <= clock
    BY DEF History
  <1>2. IsLatest(vs, i)
    BY <1>1, LatestIs
  <1>3. DOMAIN vs = 1 .. Len(vs) /\ Len(vs) \in Nat /\ i \in DOMAIN vs /\ \A j \in DOMAIN vs : vs[j] \in P!Version
    BY <1>1, <1>2 DEF IsLatest
  <1>4. said = P!Said(s, P!Shown(vs[i])) /\ P!Shown(vs[i]) \in Known
    BY <1>3, FieldsAre DEF P!Said, P!Shown
  <1>5. said \in Known
    BY <1>4, FieldsAre
  <1>6. v \in P!Version /\ P!Shown(v) = said /\ v.last = clock
    BY <1>5, FieldsAre DEF P!Version, Known, P!Shown
  <1>7. \A j \in DOMAIN vs : vs[j].last \in 0 .. MaxClock
    BY <1>3 DEF P!Version
  <1> HIDE DEF v, said, i
  <1>8. CASE r = Append(vs, v)
    <2>1. r \in Seq(P!Version) /\ r # <<>> /\ DOMAIN r = 1 .. Len(vs) + 1 /\ r[Len(vs) + 1] = v
          /\ \A j \in DOMAIN vs : r[j] = vs[j]
      BY <1>1, <1>3, <1>6, <1>8
    <2> HIDE DEF r
    <2>2. \A j \in DOMAIN r : r[j].last <= clock
      BY <1>1, <1>3, <1>6, <2>1
    <2>3. IsLatest(r, Len(vs) + 1)
      <3>1. ASSUME NEW j \in DOMAIN r PROVE r[j].last < clock \/ (r[j].last = clock /\ j <= Len(vs) + 1)
        <4>1. CASE j \in DOMAIN vs
          BY <1>1, <1>3, <1>7, <2>1, <4>1
        <4>2. CASE j = Len(vs) + 1
          BY <1>3, <1>6, <2>1, <4>2
        <4> QED BY <1>3, <2>1, <4>1, <4>2
      <3> QED BY <1>3, <1>6, <2>1, <3>1 DEF IsLatest
    <2>4. P!Latest(r) = Len(vs) + 1
      BY <2>1, <2>3, LatestIs
    <2> QED BY <1>4, <1>6, <2>1, <2>2, <2>4 DEF History, r, i
  <1>9. CASE r = [vs EXCEPT ![i] = v]
    <2>1. r \in Seq(P!Version) /\ r # <<>> /\ DOMAIN r = DOMAIN vs /\ r[i] = v
          /\ \A j \in DOMAIN vs \ {i} : r[j] = vs[j]
      BY <1>1, <1>3, <1>6, <1>9
    <2> HIDE DEF r
    <2>2. \A j \in DOMAIN r : r[j].last <= clock
      BY <1>1, <1>3, <1>6, <2>1
    <2>3. IsLatest(r, i)
      <3>1. ASSUME NEW j \in DOMAIN r PROVE r[j].last < clock \/ (r[j].last = clock /\ j <= i)
        <4>1. CASE j = i
          BY <1>3, <1>6, <2>1, <4>1
        <4>2. CASE j # i
          <5>1. vs[j].last < vs[i].last \/ (vs[j].last = vs[i].last /\ j <= i)
            BY <1>2, <2>1 DEF IsLatest
          <5>2. r[j].last = vs[j].last /\ vs[j].last <= clock /\ vs[i].last <= clock
                /\ vs[j].last \in Int /\ vs[i].last \in Int
            BY <1>1, <1>3, <1>7, <2>1, <4>2
          <5> QED BY <5>1, <5>2
        <4> QED BY <4>1, <4>2
      <3> QED BY <1>3, <1>6, <2>1, <3>1 DEF IsLatest
    <2>4. P!Latest(r) = i
      BY <2>1, <2>3, LatestIs
    <2> QED BY <1>4, <1>6, <2>1, <2>2, <2>4 DEF History, r, i
  <1>10. r = Append(vs, v) \/ r = [vs EXCEPT ![i] = v]
    BY DEF P!Recorded, r, v, said, i
  <1> QED BY <1>8, <1>9, <1>10

\* Accounts a refresh asks about.
Entry == [account : Accounts, handle : Handles, left : Nat]

Image == [known : BOOLEAN, path : BOOLEAN, error : BOOLEAN, fresh : BOOLEAN]

\* What the variables range over.
PeopleOK ==
  /\ shows \in [Accounts -> [handle : Handles, bio : Bios, avatar : Keys]]
  /\ clock \in 1 .. MaxClock
  /\ versions \in [Accounts -> History] /\ seen \in [Accounts -> Known]
  /\ observed \subseteq Accounts /\ images \in [Accounts -> [Keys -> Image]]
  /\ refresh \in [step : {"idle", "ask", "read"}, queue : SUBSET Entry, asked : SUBSET Entry, all : SUBSET Accounts]
  /\ fetching \subseteq Accounts \X Keys

\* Of an account: what was last said, and its pictures.
AccountInv(a) ==
  /\ P!Shown(versions[a][P!Latest(versions[a])]) = seen[a]
  /\ \A k \in Keys : /\ images[a][k].path => images[a][k].known
                     /\ images[a][k].fresh => ~images[a][k].path /\ ~images[a][k].error
                     /\ <<a, k>> \in fetching => images[a][k].known /\ ~images[a][k].fresh
                     /\ seen[a]["avatar"] = k => images[a][k].known

\* A refresh asks about an account once at a time, by the name it has, and of those
\* it began with none is forgotten.
Queued == refresh.queue \cup refresh.asked

RefreshInv ==
  /\ \A e, f \in Queued : e.account = f.account => e = f
  /\ refresh.queue \cap refresh.asked = {}
  /\ refresh.step # "read" => refresh.asked = {}
  /\ refresh.step = "idle" => refresh.queue = {}
  /\ \A e \in refresh.queue : e.left > 0
  /\ fetching # {} => refresh.step = "idle"
  /\ refresh.step # "idle" => refresh.all \subseteq observed \cup {e.account : e \in Queued}

NamesInv == \A e \in Queued : e.handle = seen[e.account]["handle"]

\* No archive job runs beside the others.
PeopleInv == PeopleOK /\ RefreshInv /\ (~Shell => NamesInv /\ \A a \in Accounts : AccountInv(a))

LEMMA InitPeople ==
  ASSUME P!ProfilesAssumption, P!Init
  PROVE  PeopleInv
  <1>1. MaxClock \in Nat \ {0} /\ 1 \in 1 .. MaxClock
    BY DEF P!ProfilesAssumption
  <1>2. clock = 1 /\ versions \in [Accounts -> Seeds]
        /\ images = [a \in Accounts |-> [k \in Keys |-> P!Unknown]]
        /\ seen = [a \in Accounts |-> P!Shown(versions[a][P!Latest(versions[a])])]
        /\ observed = {} /\ fetching = {} /\ refresh = P!NoRefresh
        /\ shows \in [Accounts -> [handle : Handles, bio : Bios, avatar : Keys]]
    BY DEF P!Init
  <1>3. versions \in [Accounts -> History]
    BY <1>2 DEF P!ProfilesAssumption, History
  <1>4. ASSUME NEW a \in Accounts
        PROVE  seen[a] \in Known /\ seen[a]["avatar"] = None
    <2> DEFINE i == P!Latest(versions[a])
    <2>1. versions[a] \in Seq(P!Version) /\ versions[a] # <<>>
      BY <1>3 DEF History
    <2>2. i \in DOMAIN versions[a]
      BY <1>1, <2>1, LatestIs DEF IsLatest
    <2>3. versions[a][i] \in P!Version /\ versions[a][i].avatar = None
      BY <1>2, <2>1, <2>2 DEF P!ProfilesAssumption
    <2> QED BY <1>2, <2>3, FieldsAre DEF P!Shown
  <1>5. PeopleOK
    BY <1>1, <1>2, <1>3, <1>4 DEF PeopleOK, P!Unknown, P!NoRefresh, Image
  <1>6. RefreshInv /\ NamesInv
    BY <1>2 DEF RefreshInv, NamesInv, Queued, P!NoRefresh
  <1>7. \A a \in Accounts : AccountInv(a)
    BY <1>2, <1>4 DEF AccountInv, P!Unknown, P!ProfilesAssumption
  <1> QED BY <1>5, <1>6, <1>7 DEF PeopleInv

\* An account observed, or not.
Told(a, s) ==
  /\ versions'[a] = P!Recorded(versions[a], s)
  /\ images'[a] = [k \in Keys |-> IF s["avatar"] = k THEN P!Renewed(images[a][k]) ELSE images[a][k]]

Untold(a) == versions'[a] = versions[a] /\ images'[a] = images[a]

LEMMA ToldKeeps ==
  ASSUME MaxClock \in Nat, None \notin Keys, PeopleOK, clock' = clock, fetching' = fetching, NEW a \in Accounts, NEW s \in Known,
         Told(a, s)
  PROVE  /\ versions'[a] \in History /\ images'[a] \in [Keys -> Image] /\ P!Said(s, seen[a]) \in Known
         /\ AccountInv(a) /\ fetching = {} /\ seen'[a] = P!Said(s, seen[a]) => AccountInv(a)'
  <1>1. versions[a] \in History /\ seen[a] \in Known /\ clock \in 0 .. MaxClock /\ images[a] \in [Keys -> Image]
    BY DEF PeopleOK
  <1>2. /\ versions'[a] \in History
        /\ P!Shown(versions'[a][P!Latest(versions'[a])]) = P!Said(s, P!Shown(versions[a][P!Latest(versions[a])]))
    BY <1>1, RecordedShows DEF Told
  <1>3. P!Said(s, seen[a]) \in Known
    BY <1>1, FieldsAre
  <1>4. ASSUME NEW k \in Keys
        PROVE  /\ images'[a][k] \in Image
               /\ images'[a][k] = IF s["avatar"] = k THEN P!Renewed(images[a][k]) ELSE images[a][k]
    <2>1. images'[a][k] = IF s["avatar"] = k THEN P!Renewed(images[a][k]) ELSE images[a][k]
      BY DEF Told
    <2>2. images[a][k] \in Image
      BY <1>1
    <2> QED BY <2>1, <2>2 DEF P!Renewed, Image
  <1>5. images'[a] \in [Keys -> Image]
    BY <1>4 DEF Told
  <1>6. ASSUME AccountInv(a), fetching = {}, seen'[a] = P!Said(s, seen[a])
        PROVE  AccountInv(a)'
    <2>1. P!Shown(versions'[a][P!Latest(versions'[a])]) = seen'[a]
      BY <1>2, <1>6 DEF Told, AccountInv
    <2>2. ASSUME NEW k \in Keys
          PROVE  /\ images'[a][k].path => images'[a][k].known
                 /\ images'[a][k].fresh => ~images'[a][k].path /\ ~images'[a][k].error
                 /\ seen'[a]["avatar"] = k => images'[a][k].known
      <3>1. images[a][k] \in Image /\ (images[a][k].path => images[a][k].known)
            /\ (images[a][k].fresh => ~images[a][k].path /\ ~images[a][k].error)
            /\ (seen[a]["avatar"] = k => images[a][k].known)
        BY <1>1, <1>6 DEF AccountInv
      <3>2. seen'[a]["avatar"] = k => s["avatar"] = k \/ seen[a]["avatar"] = k
        BY <1>6 DEF P!Said, P!Fields
      <3> QED BY <1>4, <3>1, <3>2 DEF P!Renewed, Image
    <2> QED BY <1>6, <2>1, <2>2 DEF AccountInv
  <1> QED BY <1>2, <1>3, <1>5, <1>6

LEMMA UntoldKeeps ==
  ASSUME PeopleOK, clock' = clock, fetching' = fetching, NEW a \in Accounts, Untold(a)
  PROVE  /\ versions'[a] \in History /\ images'[a] \in [Keys -> Image]
         /\ AccountInv(a) /\ seen'[a] = seen[a] => AccountInv(a)'
  <1>1. versions'[a] \in History /\ images'[a] \in [Keys -> Image]
    BY DEF PeopleOK, Untold
  <1>2. AccountInv(a) /\ seen'[a] = seen[a] => AccountInv(a)'
    BY DEF AccountInv, Untold
  <1> QED BY <1>1, <1>2

\* Sightings of some accounts.
LEMMA ObserveTells ==
  ASSUME NEW ss, P!Observe(ss), NEW a \in Accounts
  PROVE  /\ observed' = observed \cup DOMAIN ss
         /\ versions' \in [Accounts -> {versions'[b] : b \in Accounts}] /\ images' \in [Accounts -> {images'[b] : b \in Accounts}]
         /\ a \in DOMAIN ss => Told(a, ss[a])
         /\ images \in [Accounts -> [Keys -> Image]] /\ a \notin DOMAIN ss => Untold(a)
  <1>1. versions' = [b \in Accounts |-> IF b \in DOMAIN ss THEN P!Recorded(versions[b], ss[b]) ELSE versions[b]]
        /\ images' = [b \in Accounts |-> [k \in Keys |-> IF b \in DOMAIN ss /\ ss[b]["avatar"] = k
                                                   THEN P!Renewed(images[b][k]) ELSE images[b][k]]]
        /\ observed' = observed \cup DOMAIN ss
    BY DEF P!Observe
  <1>2. images'[a] = [k \in Keys |-> IF a \in DOMAIN ss /\ ss[a]["avatar"] = k
                                     THEN P!Renewed(images[a][k]) ELSE images[a][k]]
    BY <1>1
  <1>3. versions'[a] = IF a \in DOMAIN ss THEN P!Recorded(versions[a], ss[a]) ELSE versions[a]
    BY <1>1
  <1>6. versions' \in [Accounts -> {versions'[b] : b \in Accounts}] /\ images' \in [Accounts -> {images'[b] : b \in Accounts}]
    BY <1>1
  <1>4. CASE a \in DOMAIN ss
    <2>1. images'[a] = [k \in Keys |-> IF ss[a]["avatar"] = k THEN P!Renewed(images[a][k]) ELSE images[a][k]]
      BY <1>2, <1>4
    <2> QED BY <1>1, <1>3, <1>4, <2>1, <1>6 DEF Told
  <1>5. CASE a \notin DOMAIN ss
    <2>1. images \in [Accounts -> [Keys -> Image]] => images'[a] = images[a]
      <3>1. images'[a] = [k \in Keys |-> images[a][k]]
        BY <1>2, <1>5
      <3> QED BY <3>1
    <2> QED BY <1>1, <1>3, <1>5, <2>1, <1>6 DEF Untold
  <1> QED BY <1>4, <1>5

-----------------------------------------------------------------------------
(* The accounts and the clock                                              *)

LEMMA TickPeople ==
  ASSUME P!ProfilesAssumption, PeopleInv, P!Tick
  PROVE  PeopleInv'
  <1>1. clock \in 1 .. MaxClock /\ MaxClock \in Nat /\ clock < MaxClock /\ clock' = clock + 1
    BY DEF PeopleInv, PeopleOK, P!Tick, P!ProfilesAssumption
  <1>2. shows' = shows /\ versions' = versions /\ observed' = observed /\ images' = images
        /\ refresh' = refresh /\ fetching' = fetching /\ seen' = seen
    BY DEF P!Tick
  <1>3. clock' \in 1 .. MaxClock
    BY <1>1
  <1>4. History \subseteq History'
    <2> SUFFICES ASSUME NEW vs \in History PROVE vs \in History'
      OBVIOUS
    <2>1. vs \in Seq(P!Version) /\ vs # <<>> /\ \A i \in DOMAIN vs : vs[i].last <= clock /\ vs[i] \in P!Version
      BY DEF History
    <2>2. \A i \in DOMAIN vs : vs[i].last <= clock'
      <3> TAKE i \in DOMAIN vs
      <3>1. vs[i].last \in Int /\ vs[i].last <= clock
        BY <2>1 DEF P!Version
      <3> QED BY <1>1, <3>1
    <2> QED BY <2>1, <2>2 DEF History
  <1>5. PeopleOK'
    BY <1>2, <1>3, <1>4 DEF PeopleInv, PeopleOK
  <1>6. RefreshInv' /\ (NamesInv => NamesInv') /\ \A a \in Accounts : AccountInv(a) => AccountInv(a)'
    BY <1>2 DEF PeopleInv, RefreshInv, NamesInv, Queued, AccountInv
  <1> QED BY <1>5, <1>6 DEF PeopleInv

LEMMA ChangePeople ==
  ASSUME PeopleInv, NEW a \in Accounts, P!Change(a)
  PROVE  PeopleInv'
  <1>1. PICK f \in P!Fields : \E v \in CASE f = "handle" -> Handles [] f = "bio" -> Bios [] f = "avatar" -> Keys :
          shows' = [shows EXCEPT ![a][f] = v]
    BY DEF P!Change
  <1>2. clock' = clock /\ versions' = versions /\ observed' = observed /\ images' = images
        /\ refresh' = refresh /\ fetching' = fetching /\ seen' = seen
    BY DEF P!Change
  <1>3. shows' \in [Accounts -> [handle : Handles, bio : Bios, avatar : Keys]]
    <2>1. shows \in [Accounts -> [handle : Handles, bio : Bios, avatar : Keys]]
      BY DEF PeopleInv, PeopleOK
    <2>2. CASE f = "handle"
      BY <1>1, <2>1, <2>2
    <2>3. CASE f = "bio"
      BY <1>1, <2>1, <2>3
    <2>4. CASE f = "avatar"
      BY <1>1, <2>1, <2>4
    <2> QED BY <2>2, <2>3, <2>4, FieldsAre
  <1>4. PeopleOK'
    BY <1>2, <1>3 DEF PeopleInv, PeopleOK, History
  <1>5. RefreshInv' /\ (NamesInv => NamesInv') /\ \A b \in Accounts : AccountInv(b) => AccountInv(b)'
    BY <1>2 DEF PeopleInv, RefreshInv, NamesInv, Queued, AccountInv
  <1> QED BY <1>4, <1>5 DEF PeopleInv

\* What a payload says of an account.
LEMMA SnapshotIs ==
  ASSUME PeopleOK, NEW a \in Accounts, NEW carried
  PROVE  P!Snapshot(a, carried) \in Known
  <1>1. shows[a] \in [handle : Handles, bio : Bios, avatar : Keys]
    BY DEF PeopleOK
  <1> QED BY <1>1, FieldsAre DEF P!Snapshot, Known

LEMMA SightPeople ==
  ASSUME P!ProfilesAssumption, PeopleInv, NEW a \in Accounts, NEW carried \in SUBSET P!Fields, P!Sight(a, carried)
  PROVE  PeopleInv'
  <1> DEFINE s == P!Snapshot(a, carried)
             ss == [b \in {a} |-> s]
  <1>1. P!Observe(ss) /\ seen' = [seen EXCEPT ![a] = P!Said(s, @)]
        /\ shows' = shows /\ clock' = clock /\ refresh' = refresh /\ fetching' = fetching
        /\ (Shell \/ P!Quiet)
    BY DEF P!Sight
  <1>2. PeopleOK /\ MaxClock \in Nat /\ None \notin Keys
    BY DEF PeopleInv, P!ProfilesAssumption
  <1>3. s \in Known
    BY <1>2, SnapshotIs
  <1>4. DOMAIN ss = {a} /\ ss[a] = s
    OBVIOUS
  <1>5. seen' = [seen EXCEPT ![a] = P!Said(s, seen[a])] /\ seen \in [Accounts -> Known]
    BY <1>1, <1>2 DEF PeopleOK
  <1> HIDE DEF ss, s
  <1>6. observed' = observed \cup {a} /\ Told(a, s)
    BY <1>1, <1>4, ObserveTells
  <1>7. \A b \in Accounts \ {a} : Untold(b) /\ seen'[b] = seen[b]
    <2> TAKE b \in Accounts \ {a}
    <2>1. images \in [Accounts -> [Keys -> Image]]
      BY <1>2 DEF PeopleOK
    <2> QED BY <1>1, <1>4, <1>5, <2>1, ObserveTells
  <1>8. seen'[a] = P!Said(s, seen[a]) /\ P!Said(s, seen[a]) \in Known
    BY <1>1, <1>2, <1>3, <1>5, <1>6, ToldKeeps
  <1>9. \A b \in Accounts : versions'[b] \in History /\ images'[b] \in [Keys -> Image]
    <2> TAKE b \in Accounts
    <2>1. CASE b = a
      BY <1>1, <1>2, <1>3, <1>6, <2>1, ToldKeeps
    <2>2. CASE b # a
      BY <1>1, <1>2, <1>7, <2>2, UntoldKeeps
    <2> QED BY <2>1, <2>2
  <1>10. PeopleOK'
    <2>1. versions' \in [Accounts -> History] /\ images' \in [Accounts -> [Keys -> Image]]
      BY <1>1, <1>9, ObserveTells
    <2>2. seen' \in [Accounts -> Known]
      BY <1>5, <1>8
    <2>3. History' = History
      BY <1>1 DEF History
    <2> QED BY <1>1, <1>2, <1>6, <2>1, <2>2, <2>3 DEF PeopleOK
  <1>11. RefreshInv'
    BY <1>1, <1>6 DEF PeopleInv, RefreshInv, Queued
  <1>12. ASSUME ~Shell
         PROVE  NamesInv' /\ \A b \in Accounts : AccountInv(b)'
    <2>1. refresh.step = "idle" /\ fetching = {}
      BY <1>1, <1>12 DEF P!Quiet
    <2>2. NamesInv'
      BY <1>1, <2>1 DEF PeopleInv, RefreshInv, NamesInv, Queued
    <2>3. ASSUME NEW b \in Accounts
          PROVE  AccountInv(b)'
      <3>1. AccountInv(b)
        BY <1>12 DEF PeopleInv
      <3>2. CASE b = a
        BY <1>1, <1>2, <1>3, <1>6, <1>8, <2>1, <3>1, <3>2, ToldKeeps
      <3>3. CASE b # a
        BY <1>1, <1>2, <1>7, <3>1, <3>3, UntoldKeeps
      <3> QED BY <3>2, <3>3
    <2> QED BY <2>2, <2>3
  <1> QED BY <1>10, <1>11, <1>12 DEF PeopleInv

-----------------------------------------------------------------------------
(* The refresh of the accounts nothing described                           *)

\* A step of the refresh that records nothing.
LEMMA RefreshMoves ==
  ASSUME PeopleInv, shows' = shows, clock' = clock, versions' = versions, observed' = observed, images' = images,
         seen' = seen, fetching' = fetching,
         refresh' \in [step : {"idle", "ask", "read"}, queue : SUBSET Entry, asked : SUBSET Entry, all : SUBSET Accounts],
         RefreshInv', ~Shell => NamesInv'
  PROVE  PeopleInv'
  <1>1. PeopleOK'
    BY DEF PeopleInv, PeopleOK, History
  <1>2. \A b \in Accounts : AccountInv(b) => AccountInv(b)'
    BY DEF AccountInv
  <1> QED BY <1>1, <1>2 DEF PeopleInv

\* The account names itself by the handle its latest version has.
LEMMA HandleOf ==
  ASSUME PeopleOK, MaxClock \in Nat, NEW a \in Accounts
  PROVE  /\ versions[a][P!Latest(versions[a])].handle \in Handles
         /\ AccountInv(a) => versions[a][P!Latest(versions[a])].handle = seen[a]["handle"]
  <1>1. versions[a] \in Seq(P!Version) /\ versions[a] # <<>>
    BY DEF PeopleOK, History
  <1>2. P!Latest(versions[a]) \in DOMAIN versions[a]
    BY <1>1, LatestIs DEF IsLatest
  <1>3. versions[a][P!Latest(versions[a])] \in P!Version
    BY <1>1, <1>2
  <1> QED BY <1>3 DEF P!Version, P!Shown, P!Fields, AccountInv

LEMMA StartRefreshPeople ==
  ASSUME P!ProfilesAssumption, PeopleInv, P!StartRefresh
  PROVE  PeopleInv'
  <1> DEFINE due == {a \in Accounts : a \notin observed /\ Posts[a] > 0}
             entry(a) == [account |-> a, handle |-> versions[a][P!Latest(versions[a])].handle,
                          left |-> IF Posts[a] < Attempts THEN Posts[a] ELSE Attempts]
  <1>1. shows' = shows /\ clock' = clock /\ versions' = versions /\ observed' = observed /\ images' = images
        /\ seen' = seen /\ fetching' = fetching /\ fetching = {}
    BY DEF P!StartRefresh, P!Quiet
  <1>2. refresh' = [step |-> "ask", asked |-> {}, all |-> due, queue |-> {entry(a) : a \in due}]
    BY Zenon DEF P!StartRefresh
  <1>3. \A a \in due : entry(a) \in Entry /\ entry(a).left > 0 /\ entry(a).account = a
                       /\ (~Shell => entry(a).handle = seen[a]["handle"])
    <2> TAKE a \in due
    <2>1. PeopleOK /\ MaxClock \in Nat /\ (~Shell => AccountInv(a))
      BY DEF PeopleInv, P!ProfilesAssumption
    <2>2. Posts[a] \in Nat /\ Posts[a] > 0 /\ Attempts \in Nat /\ Attempts > 0
      BY DEF P!ProfilesAssumption
    <2>3. versions[a][P!Latest(versions[a])].handle \in Handles
          /\ (~Shell => versions[a][P!Latest(versions[a])].handle = seen[a]["handle"])
      BY <2>1, HandleOf
    <2> QED BY <2>2, <2>3 DEF Entry
  <1> HIDE DEF entry
  <1>4. refresh'.step = "ask" /\ refresh'.asked = {} /\ refresh'.all = due /\ refresh'.queue = {entry(a) : a \in due}
        /\ refresh' \in [step : {"idle", "ask", "read"}, queue : SUBSET Entry, asked : SUBSET Entry, all : SUBSET Accounts]
    BY <1>2, <1>3
  <1>5. Queued' = {entry(a) : a \in due}
    BY <1>4 DEF Queued
  <1>6. due \subseteq {e.account : e \in Queued'}
    BY <1>3, <1>5
  <1>7. RefreshInv'
    <2>1. ASSUME NEW e \in Queued', NEW f \in Queued', e.account = f.account
          PROVE  e = f
      <3>1. PICK a \in due : e = entry(a)
        BY <1>5
      <3>2. PICK b \in due : f = entry(b)
        BY <1>5
      <3> QED BY <1>3, <2>1, <3>1, <3>2
    <2>2. \A e \in refresh'.queue : e.left > 0
      BY <1>3, <1>4
    <2>3. refresh'.all \subseteq observed' \cup {e.account : e \in Queued'}
      BY <1>4, <1>6
    <2> QED BY <1>1, <1>4, <2>1, <2>2, <2>3 DEF RefreshInv
  <1>8. ~Shell => NamesInv'
    BY <1>1, <1>3, <1>5 DEF NamesInv
  <1> QED BY <1>1, <1>4, <1>7, <1>8, RefreshMoves

\* An entry that was asked about is one of the queue.
LEMMA AskPeople ==
  ASSUME PeopleInv, P!Ask
  PROVE  PeopleInv'
  <1>1. shows' = shows /\ clock' = clock /\ versions' = versions /\ observed' = observed /\ images' = images
        /\ seen' = seen /\ fetching' = fetching /\ refresh.step = "ask"
    BY DEF P!Ask
  <1>2. refresh \in [step : {"idle", "ask", "read"}, queue : SUBSET Entry, asked : SUBSET Entry, all : SUBSET Accounts]
        /\ RefreshInv /\ (~Shell => NamesInv)
    BY DEF PeopleInv, PeopleOK
  <1>3. CASE refresh.queue = {} /\ refresh' = P!NoRefresh
    <2>1. refresh' \in [step : {"idle", "ask", "read"}, queue : SUBSET Entry, asked : SUBSET Entry, all : SUBSET Accounts]
          /\ RefreshInv' /\ NamesInv'
      BY <1>1, <1>3 DEF P!NoRefresh, RefreshInv, NamesInv, Queued
    <2> QED BY <1>1, <2>1, RefreshMoves
  <1>4. ASSUME NEW batch \in SUBSET refresh.queue,
               refresh' = [refresh EXCEPT !.step = "read", !.queue = @ \ batch,
                                          !.asked = {[e EXCEPT !.left = @ - 1] : e \in batch}]
        PROVE  PeopleInv'
    <2> DEFINE less(e) == [e EXCEPT !.left = @ - 1]
    <2>1. \A e \in batch : less(e) \in Entry /\ less(e).account = e.account /\ less(e).handle = e.handle
      <3> TAKE e \in batch
      <3>1. e \in Entry /\ e.left > 0
        BY <1>2 DEF RefreshInv
      <3> QED BY <3>1 DEF Entry
    <2> HIDE DEF less
    <2>2. refresh'.step = "read" /\ refresh'.queue = refresh.queue \ batch /\ refresh'.asked = {less(e) : e \in batch}
          /\ refresh'.all = refresh.all
      BY <1>2, <1>4 DEF less
    <2>3. refresh' \in [step : {"idle", "ask", "read"}, queue : SUBSET Entry, asked : SUBSET Entry, all : SUBSET Accounts]
      <3>1. {less(e) : e \in batch} \subseteq Entry
        BY <2>1
      <3>2. refresh.queue \ batch \subseteq Entry
        BY <1>2
      <3> QED BY <1>2, <1>4, <2>2, <3>1, <3>2
    <2>4. Queued = refresh.queue /\ Queued' = (refresh.queue \ batch) \cup {less(e) : e \in batch}
      BY <1>1, <1>2, <2>2 DEF Queued, RefreshInv
    <2>5. \A e \in Queued' : \E o \in Queued : /\ o.account = e.account /\ o.handle = e.handle
                                               /\ (o \in batch /\ e = less(o)) \/ (o \notin batch /\ e = o)
      BY <2>1, <2>4
    <2>6. ASSUME NEW e \in Queued', NEW f \in Queued', e.account = f.account
          PROVE  e = f
      <3>1. PICK o \in Queued : o.account = e.account /\ ((o \in batch /\ e = less(o)) \/ (o \notin batch /\ e = o))
        BY <2>5
      <3>2. PICK p \in Queued : p.account = f.account /\ ((p \in batch /\ f = less(p)) \/ (p \notin batch /\ f = p))
        BY <2>5
      <3>3. o = p
        BY <1>2, <2>6, <3>1, <3>2 DEF RefreshInv
      <3> QED BY <3>1, <3>2, <3>3
    <2>7. {e.account : e \in Queued} \subseteq {e.account : e \in Queued'}
      <3> SUFFICES ASSUME NEW o \in Queued PROVE \E e \in Queued' : e.account = o.account
        OBVIOUS
      <3>1. CASE o \in batch
        BY <2>1, <2>4, <3>1
      <3>2. CASE o \notin batch
        BY <2>4, <3>2
      <3> QED BY <3>1, <3>2
    <2>8. RefreshInv'
      <3>1. \A e \in refresh'.queue : e.left > 0
        BY <1>2, <2>2 DEF RefreshInv
      <3>2. fetching = {}
        BY <1>1, <1>2 DEF RefreshInv
      <3>3. refresh'.all \subseteq observed' \cup {e.account : e \in Queued'}
        BY <1>1, <1>2, <2>2, <2>7 DEF RefreshInv
      <3>4. refresh'.queue \cap refresh'.asked = {}
        <4>1. ASSUME NEW e \in batch, less(e) \in refresh.queue
              PROVE  less(e) \in batch
          BY <1>2, <2>1, <2>4, <4>1 DEF RefreshInv
        <4> QED BY <2>2, <4>1
      <3> QED BY <1>1, <2>2, <2>6, <3>1, <3>2, <3>3, <3>4 DEF RefreshInv
    <2>9. ~Shell => NamesInv'
      <3> SUFFICES ASSUME ~Shell, NEW e \in Queued' PROVE e.handle = seen'[e.account]["handle"]
        BY DEF NamesInv
      <3>1. PICK o \in Queued : o.account = e.account /\ o.handle = e.handle
        BY <2>5
      <3> QED BY <1>1, <1>2, <3>1 DEF NamesInv
    <2> QED BY <1>1, <2>3, <2>8, <2>9, RefreshMoves
  <1> QED BY <1>3, <1>4 DEF P!Ask

LEMMA AbortPeople ==
  ASSUME PeopleInv, P!Abort
  PROVE  PeopleInv'
  <1>1. shows' = shows /\ clock' = clock /\ versions' = versions /\ observed' = observed /\ images' = images
        /\ seen' = seen /\ fetching' = {} /\ refresh' = P!NoRefresh
    BY DEF P!Abort
  <1>2. PeopleOK'
    BY <1>1 DEF PeopleInv, PeopleOK, History, P!NoRefresh
  <1>3. RefreshInv' /\ NamesInv' /\ \A a \in Accounts : AccountInv(a) => AccountInv(a)'
    BY <1>1 DEF RefreshInv, NamesInv, Queued, AccountInv, P!NoRefresh
  <1> QED BY <1>2, <1>3 DEF PeopleInv

\* What the job says of an account that was not read: the name it has of it.
Held(e) == [handle |-> e.handle, bio |-> None, avatar |-> None]

LEMMA HeldIs ==
  ASSUME None \notin Handles, NEW e \in Entry, NEW t \in Known
  PROVE  Held(e) \in Known /\ (t["handle"] = e.handle => P!Said(Held(e), t) = t)
  <1>1. Held(e) \in Known
    BY DEF Held, Known, Entry, P!Fields
  <1>2. ASSUME t["handle"] = e.handle
        PROVE  P!Said(Held(e), t) = t
    <2>1. \A f \in P!Fields : (IF Held(e)[f] = None THEN t[f] ELSE Held(e)[f]) = t[f]
      BY <1>2, FieldsAre DEF Held, Entry
    <2>2. t = [f \in P!Fields |-> t[f]]
      BY DEF Known
    <2> QED BY <2>1, <2>2 DEF P!Said
  <1> QED BY <1>1, <1>2

\* What an account shows, it says in full.
LEMMA ReadIs ==
  ASSUME P!ProfilesAssumption, PeopleOK, NEW a \in Accounts, NEW t \in Known
  PROVE  P!Snapshot(a, P!Fields) \in Known /\ P!Said(P!Snapshot(a, P!Fields), t) = P!Shown(shows[a])
         /\ P!Shown(shows[a]) \in Known
  <1>1. shows[a] \in [handle : Handles, bio : Bios, avatar : Keys] /\ None \notin Handles \cup Bios \cup Keys
    BY DEF PeopleOK, P!ProfilesAssumption
  <1>2. P!Snapshot(a, P!Fields) \in Known
    BY SnapshotIs
  <1>3. \A f \in P!Fields : P!Snapshot(a, P!Fields)[f] = shows[a][f] /\ shows[a][f] # None
    BY <1>1, FieldsAre DEF P!Snapshot
  <1>4. P!Said(P!Snapshot(a, P!Fields), t) = P!Shown(shows[a])
    BY <1>3 DEF P!Said, P!Shown
  <1>5. P!Shown(shows[a]) \in Known
    BY <1>1, FieldsAre DEF P!Shown, Known
  <1> QED BY <1>2, <1>4, <1>5

\* The authors of some posts are observed, and so are the accounts that have no post
\* left: the others are asked about again.
LEMMA ReadPeople ==
  ASSUME P!ProfilesAssumption, PeopleInv, P!Read
  PROVE  PeopleInv'
  <1>1. PICK read \in SUBSET refresh.asked :
          LET settled == P!Settled(read)
              of(a) == CHOOSE e \in settled : e.account = a IN
          /\ P!Observe([a \in {e.account : e \in settled} |->
                        IF of(a) \in read THEN P!Snapshot(a, P!Fields)
                        ELSE [handle |-> of(a).handle, bio |-> None, avatar |-> None]])
          /\ seen' = [a \in Accounts |-> IF a \in {e.account : e \in read} THEN P!Shown(shows[a]) ELSE seen[a]]
          /\ refresh' = [refresh EXCEPT !.step = "ask", !.asked = {},
                                        !.queue = @ \cup {e \in refresh.asked : e \notin read /\ e.left > 0}]
    BY Zenon DEF P!Read
  <1> DEFINE settled == P!Settled(read)
             of(a) == CHOOSE e \in settled : e.account = a
             said(a) == IF of(a) \in read THEN P!Snapshot(a, P!Fields) ELSE Held(of(a))
             ss == [a \in {e.account : e \in settled} |-> said(a)]
  <1>2. P!Observe(ss)
    BY <1>1, Zenon DEF Held
  <1>3. shows' = shows /\ clock' = clock /\ fetching' = fetching /\ refresh.step = "read"
    BY DEF P!Read
  <1>4. refresh \in [step : {"idle", "ask", "read"}, queue : SUBSET Entry, asked : SUBSET Entry, all : SUBSET Accounts]
        /\ RefreshInv /\ PeopleOK /\ MaxClock \in Nat /\ None \notin Handles \cup Bios \cup Keys /\ fetching = {}
    BY <1>3 DEF PeopleInv, PeopleOK, RefreshInv, P!ProfilesAssumption
  <1>5. settled = read \cup {e \in refresh.asked : e.left = 0} /\ settled \subseteq refresh.asked /\ settled \subseteq Entry
    BY <1>4 DEF P!Settled
  <1>6. DOMAIN ss = {e.account : e \in settled} /\ DOMAIN ss \subseteq Accounts
        /\ \A a \in DOMAIN ss : ss[a] = said(a)
    BY <1>5 DEF Entry
  <1> HIDE DEF ss, settled
  <1>7. \A e \in settled : of(e.account) = e
    <2> TAKE e \in settled
    <2>1. \A f \in settled : f.account = e.account => f = e
      BY <1>4, <1>5 DEF RefreshInv, Queued
    <2> QED BY <2>1
  <1> HIDE DEF of
  <1>8. ASSUME NEW a \in DOMAIN ss
        PROVE  /\ ss[a] \in Known /\ Told(a, ss[a]) /\ a \in Accounts
               /\ versions'[a] \in History /\ images'[a] \in [Keys -> Image]
               /\ ~Shell => seen'[a] = P!Said(ss[a], seen[a])
    <2>1. PICK e \in settled : a = e.account /\ of(a) = e
      BY <1>6, <1>7
    <2>2. a \in Accounts /\ seen[a] \in Known /\ e \in Entry
      BY <1>4, <1>5, <1>6 DEF PeopleOK
    <2>3. ss[a] \in Known
      <3>1. CASE e \in read
        BY <1>4, <1>6, <2>1, <2>2, <3>1, ReadIs
      <3>2. CASE e \notin read
        BY <1>4, <1>6, <2>1, <2>2, <3>2, HeldIs
      <3> QED BY <3>1, <3>2
    <2>4. Told(a, ss[a])
      BY <1>2, <2>2, ObserveTells
    <2>5. versions'[a] \in History /\ images'[a] \in [Keys -> Image]
      BY <1>3, <1>4, <2>2, <2>3, <2>4, ToldKeeps
    <2>6. ASSUME ~Shell
          PROVE  seen'[a] = P!Said(ss[a], seen[a])
      <3>1. CASE e \in read
        <4>1. seen'[a] = P!Shown(shows[a])
          BY <1>1, <2>1, <2>2, <3>1
        <4> QED BY <1>4, <1>6, <2>1, <2>2, <3>1, <4>1, ReadIs
      <3>2. CASE e \notin read
        <4>1. \A f \in read : f.account # a
          BY <1>5, <1>7, <2>1, <3>2
        <4>2. seen'[a] = seen[a]
          BY <1>1, <2>2, <4>1
        <4>3. e.handle = seen[a]["handle"]
          BY <1>5, <2>1, <2>6 DEF PeopleInv, NamesInv, Queued
        <4> QED BY <1>4, <1>6, <2>1, <2>2, <3>2, <4>2, <4>3, HeldIs
      <3> QED BY <3>1, <3>2
    <2> QED BY <2>2, <2>3, <2>4, <2>5, <2>6
  <1>9. ASSUME NEW a \in Accounts, a \notin DOMAIN ss
        PROVE  Untold(a) /\ seen'[a] = seen[a] /\ versions'[a] \in History /\ images'[a] \in [Keys -> Image]
    <2>1. Untold(a)
      BY <1>2, <1>4, <1>9, ObserveTells DEF PeopleOK
    <2>2. a \notin {e.account : e \in read}
      BY <1>5, <1>6, <1>9
    <2>3. seen'[a] = seen[a]
      BY <1>1, <2>2
    <2> QED BY <1>3, <1>4, <2>1, <2>3, UntoldKeeps
  <1>10. observed' = observed \cup {e.account : e \in settled}
    BY <1>2, <1>6 DEF P!Observe
  <1> DEFINE again == {e \in refresh.asked : e \notin read /\ e.left > 0}
  <1>11. refresh'.step = "ask" /\ refresh'.asked = {} /\ refresh'.queue = refresh.queue \cup again /\ refresh'.all = refresh.all
         /\ refresh' \in [step : {"idle", "ask", "read"}, queue : SUBSET Entry, asked : SUBSET Entry, all : SUBSET Accounts]
    BY <1>1, <1>4
  <1>12. Queued' = refresh.queue \cup again /\ Queued' \subseteq Queued
    BY <1>11 DEF Queued
  <1>13. PeopleOK'
    <2>1. \A a \in Accounts : versions'[a] \in History /\ images'[a] \in [Keys -> Image]
      BY <1>8, <1>9
    <2>2. versions' \in [Accounts -> History]
      <3>1. versions' = [a \in Accounts |-> IF a \in DOMAIN ss THEN P!Recorded(versions[a], ss[a]) ELSE versions[a]]
        BY <1>2 DEF P!Observe
      <3> QED BY <2>1, <3>1
    <2>3. images' \in [Accounts -> [Keys -> Image]]
      <3>1. images' = [a \in Accounts |-> [k \in Keys |-> IF a \in DOMAIN ss /\ ss[a]["avatar"] = k
                                                   THEN P!Renewed(images[a][k]) ELSE images[a][k]]]
        BY <1>2 DEF P!Observe
      <3> QED BY <2>1, <3>1
    <2>4. seen' \in [Accounts -> Known]
      <3>1. \A a \in Accounts : P!Shown(shows[a]) \in Known /\ seen[a] \in Known
        BY <1>4, ReadIs DEF PeopleOK
      <3> QED BY <1>1, <3>1
    <2>5. observed' \subseteq Accounts
      BY <1>4, <1>6, <1>10 DEF PeopleOK
    <2>6. History' = History
      BY <1>3 DEF History
    <2> QED BY <1>3, <1>4, <1>11, <2>2, <2>3, <2>4, <2>5, <2>6 DEF PeopleOK
  <1>14. RefreshInv'
    <2>1. \A e \in Queued : e \in Queued' \/ e.account \in observed'
      <3> TAKE e \in Queued
      <3>1. CASE e \in refresh.queue
        BY <1>12, <3>1
      <3>2. CASE e \in refresh.asked
        <4>1. e.left \in Nat
          BY <1>4, <3>2 DEF Entry
        <4> QED BY <1>5, <1>10, <1>12, <3>2, <4>1
      <3> QED BY <3>1, <3>2 DEF Queued
    <2>2. refresh'.all \subseteq observed' \cup {e.account : e \in Queued'}
      BY <1>3, <1>4, <1>10, <1>11, <2>1 DEF RefreshInv
    <2>3. \A e \in refresh'.queue : e.left > 0
      BY <1>4, <1>11 DEF RefreshInv
    <2>4. \A e, f \in Queued' : e.account = f.account => e = f
      BY <1>4, <1>12 DEF RefreshInv
    <2>5. refresh'.queue \cap refresh'.asked = {}
      BY <1>11
    <2> QED BY <1>3, <1>4, <1>11, <2>2, <2>3, <2>4, <2>5 DEF RefreshInv
  <1>15. ASSUME ~Shell
         PROVE  NamesInv' /\ \A a \in Accounts : AccountInv(a)'
    <2>1. NamesInv'
      <3> SUFFICES ASSUME NEW e \in Queued' PROVE e.handle = seen'[e.account]["handle"]
        BY DEF NamesInv
      <3>1. e \in Queued /\ e.handle = seen[e.account]["handle"]
        BY <1>12, <1>15 DEF PeopleInv, NamesInv
      <3>2. e.account \in Accounts /\ e \notin read
        <4>1. e \in Entry
          BY <1>11, <1>12
        <4>2. refresh.queue \cap read = {}
          BY <1>4 DEF RefreshInv
        <4> QED BY <1>4, <1>12, <4>1, <4>2 DEF Entry
      <3>3. e.account \notin {f.account : f \in read}
        <4>1. \A f \in read : f \in Queued
          BY DEF Queued
        <4> QED BY <1>4, <3>1, <3>2, <4>1 DEF RefreshInv
      <3> QED BY <1>1, <3>1, <3>2, <3>3
    <2>2. ASSUME NEW a \in Accounts
          PROVE  AccountInv(a)'
      <3>1. AccountInv(a)
        BY <1>15 DEF PeopleInv
      <3>2. CASE a \in DOMAIN ss
        BY <1>3, <1>4, <1>8, <1>15, <3>1, <3>2, ToldKeeps
      <3>3. CASE a \notin DOMAIN ss
        BY <1>3, <1>4, <1>9, <3>1, <3>3, UntoldKeeps
      <3> QED BY <3>2, <3>3
    <2> QED BY <2>1, <2>2
  <1> QED BY <1>13, <1>14, <1>15 DEF PeopleInv

-----------------------------------------------------------------------------
(* The pictures                                                            *)

LEMMA StartImagesPeople ==
  ASSUME PeopleInv, NEW failed \in BOOLEAN, P!StartImages(failed)
  PROVE  PeopleInv'
  <1>1. shows' = shows /\ clock' = clock /\ versions' = versions /\ observed' = observed /\ refresh' = refresh
        /\ seen' = seen /\ fetching' = P!Pending(failed) /\ refresh.step = "idle" /\ fetching = {}
    BY DEF P!StartImages, P!Quiet
  <1>2. images' = [a \in Accounts |-> [k \in Keys |-> IF <<a, k>> \in fetching' THEN [images[a][k] EXCEPT !.fresh = FALSE]
                                                       ELSE images[a][k]]]
    BY DEF P!StartImages
  <1>3. fetching' \subseteq Accounts \X Keys
        /\ \A a \in Accounts, k \in Keys : <<a, k>> \in fetching' => images[a][k].known /\ ~images[a][k].path
    BY <1>1 DEF P!Pending
  <1>4. images \in [Accounts -> [Keys -> Image]] /\ PeopleOK /\ RefreshInv
    BY DEF PeopleInv, PeopleOK
  <1>5. ASSUME NEW a \in Accounts, NEW k \in Keys
        PROVE  /\ images'[a][k] \in Image /\ images'[a][k].known = images[a][k].known
               /\ images'[a][k].path = images[a][k].path /\ images'[a][k].error = images[a][k].error
               /\ images'[a][k].fresh => images[a][k].fresh /\ <<a, k>> \notin fetching'
    <2>1. images[a][k] \in Image
      BY <1>4
    <2>2. images'[a][k] = IF <<a, k>> \in fetching' THEN [images[a][k] EXCEPT !.fresh = FALSE] ELSE images[a][k]
      BY <1>2
    <2> QED BY <2>1, <2>2 DEF Image
  <1>6. images' \in [Accounts -> [Keys -> Image]]
    <2>1. \A a \in Accounts : images'[a] \in [Keys -> Image]
      BY <1>2, <1>5
    <2> QED BY <1>2, <2>1
  <1>7. PeopleOK'
    BY <1>1, <1>3, <1>4, <1>6 DEF PeopleOK, History
  <1>8. RefreshInv' /\ (NamesInv => NamesInv')
    BY <1>1, <1>4 DEF RefreshInv, NamesInv, Queued
  <1>9. ASSUME NEW a \in Accounts, AccountInv(a)
        PROVE  AccountInv(a)'
    BY <1>1, <1>3, <1>5, <1>9 DEF AccountInv
  <1> QED BY <1>7, <1>8, <1>9 DEF PeopleInv

LEMMA FetchedPeople ==
  ASSUME PeopleInv, NEW p \in fetching, P!Fetched(p)
  PROVE  PeopleInv'
  <1>1. shows' = shows /\ clock' = clock /\ versions' = versions /\ observed' = observed /\ refresh' = refresh
        /\ seen' = seen /\ fetching' = fetching \ {p}
    BY DEF P!Fetched
  <1>2. PICK ok \in BOOLEAN :
          images' = [images EXCEPT ![p[1]][p[2]] = IF ok THEN [@ EXCEPT !.path = TRUE, !.error = FALSE, !.fresh = FALSE]
                                                   ELSE [@ EXCEPT !.error = TRUE]]
    BY DEF P!Fetched
  <1>3. PeopleOK /\ RefreshInv /\ images \in [Accounts -> [Keys -> Image]] /\ fetching \subseteq Accounts \X Keys
        /\ p = <<p[1], p[2]>> /\ p[1] \in Accounts /\ p[2] \in Keys
    BY DEF PeopleInv, PeopleOK
  <1>4. ASSUME NEW a \in Accounts, NEW k \in Keys
        PROVE  /\ images'[a][k] \in Image
               /\ <<a, k>> # p => images'[a][k] = images[a][k]
               /\ <<a, k>> = p => /\ images'[a][k].known = images[a][k].known
                                  /\ images'[a][k].path => images[a][k].path \/ ok
                                  /\ images'[a][k].fresh => images[a][k].fresh
    <2>1. images[a][k] \in Image
      BY <1>3
    <2>2. CASE <<a, k>> = p
      <3>1. a = p[1] /\ k = p[2]
        BY <2>2
      <3>2. images'[a][k] = IF ok THEN [images[a][k] EXCEPT !.path = TRUE, !.error = FALSE, !.fresh = FALSE]
                            ELSE [images[a][k] EXCEPT !.error = TRUE]
        BY <1>2, <1>3, <3>1
      <3> QED BY <2>1, <2>2, <3>2 DEF Image
    <2>3. CASE <<a, k>> # p
      BY <1>2, <1>3, <2>1, <2>3
    <2> QED BY <2>2, <2>3
  <1>5. images' \in [Accounts -> [Keys -> Image]]
    BY <1>2, <1>3, <1>4
  <1>6. PeopleOK'
    BY <1>1, <1>3, <1>5 DEF PeopleOK, History
  <1>7. RefreshInv' /\ (NamesInv => NamesInv')
    BY <1>1, <1>3 DEF RefreshInv, NamesInv, Queued
  <1>8. ASSUME NEW a \in Accounts, AccountInv(a)
        PROVE  AccountInv(a)'
    <2>1. ASSUME NEW k \in Keys
          PROVE  /\ images'[a][k].path => images'[a][k].known
                 /\ images'[a][k].fresh => ~images'[a][k].path /\ ~images'[a][k].error
                 /\ <<a, k>> \in fetching' => images'[a][k].known /\ ~images'[a][k].fresh
                 /\ seen'[a]["avatar"] = k => images'[a][k].known
      <3>1. CASE <<a, k>> = p
        <4>1. images[a][k].known /\ ~images[a][k].fresh
          BY <1>8, <3>1 DEF AccountInv
        <4> QED BY <1>4, <3>1, <4>1
      <3>2. CASE <<a, k>> # p
        BY <1>1, <1>4, <1>8, <3>2 DEF AccountInv
      <3> QED BY <3>1, <3>2
    <2> QED BY <1>1, <1>8, <2>1 DEF AccountInv
  <1> QED BY <1>6, <1>7, <1>8 DEF PeopleInv

-----------------------------------------------------------------------------
(* What holds of every state, and of every step                            *)

LEMMA NextPeople ==
  ASSUME P!ProfilesAssumption, PeopleInv, [P!Next]_(P!vars)
  PROVE  PeopleInv'
  <1>1. CASE P!Tick
    BY <1>1, TickPeople
  <1>2. CASE P!StartRefresh
    BY <1>2, StartRefreshPeople
  <1>3. CASE P!Ask
    BY <1>3, AskPeople
  <1>4. CASE P!Read
    BY <1>4, ReadPeople
  <1>5. CASE P!Abort
    BY <1>5, AbortPeople
  <1>6. CASE \E a \in Accounts : P!Change(a)
    BY <1>6, ChangePeople
  <1>7. CASE \E a \in Accounts, carried \in SUBSET P!Fields : P!Sight(a, carried)
    BY <1>7, SightPeople
  <1>8. CASE \E failed \in BOOLEAN : P!StartImages(failed)
    BY <1>8, StartImagesPeople
  <1>9. CASE \E p \in fetching : P!Fetched(p)
    BY <1>9, FetchedPeople
  <1>10. CASE UNCHANGED P!vars
    <2>1. PeopleOK' /\ RefreshInv' /\ (NamesInv => NamesInv') /\ \A a \in Accounts : AccountInv(a) => AccountInv(a)'
      BY <1>10 DEF P!vars, PeopleInv, PeopleOK, History, RefreshInv, NamesInv, Queued, AccountInv
    <2> QED BY <2>1 DEF PeopleInv
  <1> QED BY <1>1, <1>2, <1>3, <1>4, <1>5, <1>6, <1>7, <1>8, <1>9, <1>10 DEF P!Next

LEMMA PeopleHold ==
  ASSUME P!ProfilesAssumption
  PROVE  P!Spec => []PeopleInv
  <1>1. P!Init => PeopleInv
    BY InitPeople
  <1>2. PeopleInv /\ [P!Next]_(P!vars) => PeopleInv'
    BY NextPeople
  <1> QED BY <1>1, <1>2, PTL DEF P!Spec

\* The records of the people are what the tables hold, a version of each among them
\* (core/profile_store.py).
THEOREM PeopleAreTyped ==
  ASSUME P!ProfilesAssumption
  PROVE  P!Spec => []P!TypeOK
  <1>1. PeopleInv => P!TypeOK
    <2> SUFFICES ASSUME PeopleInv PROVE P!TypeOK
      OBVIOUS
    <2>1. \A a \in Accounts : versions[a] \in Seq(P!Version) /\ versions[a] # <<>>
      BY DEF PeopleInv, PeopleOK, History
    <2> QED BY <2>1 DEF PeopleInv, PeopleOK, P!TypeOK, Image
  <1> QED BY <1>1, PeopleHold, PTL

\* Where the jobs of a platform take turns, the latest version of an account says of
\* every field what a payload last said of it, and a picture named again after its
\* link failed is tried again (profile_store.py:107-110, 141-142).
THEOREM PeopleAreCurrent ==
  ASSUME P!ProfilesAssumption, ~Shell
  PROVE  P!Spec => [](P!LatestIsLastSaid /\ P!RenewedIsTried)
  <1>1. PeopleInv => P!LatestIsLastSaid /\ P!RenewedIsTried
    <2> SUFFICES ASSUME PeopleInv PROVE P!LatestIsLastSaid /\ P!RenewedIsTried
      OBVIOUS
    <2>1. PeopleOK /\ \A a \in Accounts : AccountInv(a)
      BY DEF PeopleInv
    <2>2. P!LatestIsLastSaid
      BY <2>1 DEF AccountInv, P!LatestIsLastSaid
    <2>3. \A a \in Accounts, k \in Keys : images[a][k].fresh => ~images[a][k].path /\ ~images[a][k].error
      BY <2>1 DEF AccountInv
    <2>4. ASSUME NEW a \in Accounts, seen[a]["avatar"] # None
          PROVE  images[a][seen[a]["avatar"]].known
      <3>1. seen[a]["avatar"] \in Keys
        BY <2>1, <2>4 DEF PeopleOK, Known
      <3> QED BY <2>1, <3>1 DEF AccountInv
    <2> QED BY <2>2, <2>3, <2>4 DEF P!RenewedIsTried
  <1> QED BY <1>1, PeopleHold, PTL

\* A refresh that ends leaves no account it began with to be asked about again, also
\* where an archive job runs beside it (profile_refresh.py:5-7).
THEOREM RefreshLeavesNobody ==
  ASSUME P!ProfilesAssumption
  PROVE  P!Spec => P!RefreshSettles
  <1>1. PeopleInv /\ [P!Next]_(P!vars) =>
          [refresh.step = "ask" /\ refresh'.step = "idle" => refresh.all \subseteq observed]_(P!vars)
    <2> SUFFICES ASSUME PeopleInv, P!Next, refresh.step = "ask", refresh'.step = "idle"
                 PROVE  refresh.all \subseteq observed
      OBVIOUS
    <2>1. refresh' # refresh /\ fetching = {}
      BY DEF PeopleInv, RefreshInv
    <2>2. P!Ask
      BY <2>1 DEF P!Next, P!Tick, P!Change, P!Sight, P!StartRefresh, P!Quiet, P!Read, P!Abort, P!StartImages, P!Fetched
    <2>3. refresh.queue = {}
      <3>1. refresh.step # "idle" /\ refresh \in [step : {"idle", "ask", "read"}, queue : SUBSET Entry,
                                                  asked : SUBSET Entry, all : SUBSET Accounts]
        BY DEF PeopleInv, PeopleOK
      <3> QED BY <2>2, <3>1 DEF P!Ask
    <2> QED BY <2>3 DEF PeopleInv, RefreshInv, Queued
  <1> QED BY <1>1, PeopleHold, PTL DEF P!Spec, P!RefreshSettles
=============================================================================
