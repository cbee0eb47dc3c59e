----------------------------- MODULE Migrations -----------------------------
(***************************************************************************)
(* Bringing an archive file forward (core/migrations.py) along the steps   *)
(* of core/database.py, by builds that know more and more of them.         *)
(*                                                                         *)
(* A step and the version that records it are one commit; a file with      *)
(* content is copied before the first of them, and the last few copies are *)
(* kept.  A process may die between any two of these.                      *)
(***************************************************************************)
EXTENDS Integers, FiniteSets

CONSTANTS
  Process,    \* processes that open the file
  Builds,     \* how many steps the builds know that come to run
  Kept,       \* BACKUPS_KEPT
  Together,   \* whether one may open the file while another brings it forward
  MaxDeaths,  \* bound: processes that die on the way
  MaxNow      \* bound: seconds

VARIABLES
  file,     \* PRAGMA user_version, and what the schema has
  backups,  \* the folder "backups"
  proc,     \* apply and its locals, by process
  now,      \* datetime.now(), to the second
  deaths

vars == <<file, backups, proc, now, deaths>>

-----------------------------------------------------------------------------
(* MIGRATIONS                                                              *)

Steps == 1 .. 12

\* What a step brings into the schema, "steps" being what none of them may bring twice.
Creates ==
  << {"items"}, {"source_target"}, {"chat_name"}, {"items_fts", "triggers"}, {"vlm_traces"},
     {"caption_status"}, {"caption_model"}, {"reasoning_summary"}, {"caption_attempts"},
     {"items_fts"}, {"profiles", "profile_versions", "profiles_fts"}, {} >>

\* CREATE ... IF NOT EXISTS
Guarded == {1, 5}

\* DROP TABLE
Drops(step) == IF step = 10 THEN {"items_fts"} ELSE {}

\* A statement that finds what it creates, or misses what it drops, raises.
Applies(step, schema) ==
  /\ Drops(step) \subseteq schema
  /\ step \in Guarded \/ Creates[step] \cap (schema \ Drops(step)) = {}

SchemaAt(version) == UNION {Creates[step] : step \in 1 .. version}

-----------------------------------------------------------------------------

Version == 0 .. 12

Outside == [step |-> "out", build |-> 0, version |-> 0, index |-> 0, full |-> FALSE, at |-> 0]

\* A file that is created, or one that predates the mechanism.
Init ==
  /\ \E schema \in {{}, Creates[1]} : file = [version |-> 0, schema |-> schema]
  /\ backups = {}
  /\ proc = [p \in Process |-> Outside] /\ now = 0 /\ deaths = 0

At(p, step) == proc[p].step = step

Go(p, step) == proc' = [proc EXCEPT ![p].step = step]

Tick == now < MaxNow /\ now' = now + 1 /\ UNCHANGED <<file, backups, proc, deaths>>

\* It dies, or a request to the file fails; a transaction is rolled back.
Die(p) ==
  /\ ~At(p, "out") /\ deaths < MaxDeaths /\ deaths' = deaths + 1
  /\ proc' = [proc EXCEPT ![p] = Outside]
  /\ UNCHANGED <<file, backups, now>>

\* The version is read, and refused where a newer build wrote it.
Open(p, build) ==
  /\ At(p, "out") /\ (Together \/ \A q \in Process : At(q, "out"))
  /\ file.version < build
  /\ proc' = [proc EXCEPT ![p] = [step |-> IF file.schema = {} THEN "apply" ELSE "copy", build |-> build,
                                  version |-> file.version, index |-> file.version,
                                  full |-> file.schema # {}, at |-> now]]
  /\ UNCHANGED <<file, backups, now, deaths>>

-----------------------------------------------------------------------------
(* _backup                                                                 *)

\* A copy of a version, named for it and the second; a second one raises.
Copy(p) ==
  LET name == [version |-> proc[p].version, at |-> now] IN
  /\ At(p, "copy")
  /\ IF \E b \in backups : b.name = name
     THEN proc' = [proc EXCEPT ![p] = Outside] /\ UNCHANGED backups
     ELSE /\ proc' = [proc EXCEPT ![p].step = "copying", ![p].at = now]
          /\ backups' = backups \cup {[name |-> name, whole |-> FALSE]}
  /\ UNCHANGED <<file, now, deaths>>

Copied(p) ==
  /\ At(p, "copying") /\ Go(p, "prune")
  /\ backups' = {[b EXCEPT !.whole = @ \/ b.name = [version |-> proc[p].version, at |-> proc[p].at]] : b \in backups}
  /\ UNCHANGED <<file, now, deaths>>

\* How the names are sorted: digit by digit, so 10 comes before 2.
Digits(version) == IF version < 10 THEN 11 * version ELSE 11 * (version \div 10) + 1 + (version % 10)

Before(a, b) == Digits(a.version) < Digits(b.version) \/ (a.version = b.version /\ a.at < b.at)

\* mutant: the ones beyond the first few are removed.
PruneLast(p) ==
  /\ At(p, "prune") /\ Go(p, "apply")
  /\ backups' = {b \in backups : Cardinality({c \in backups : Before(c.name, b.name)}) < Kept}
  /\ UNCHANGED <<file, now, deaths>>

Prune(p) ==
  /\ At(p, "prune") /\ Go(p, "apply")
  /\ backups' = {b \in backups : Cardinality({c \in backups : Before(b.name, c.name)}) < Kept}
  /\ UNCHANGED <<file, now, deaths>>

-----------------------------------------------------------------------------
(* The steps                                                               *)

Advanced(p) == [proc EXCEPT ![p].index = @ + 1, ![p].step = "apply"]

\* mutant: the version is recorded in a commit of its own, ahead of the step.
ApplyAfter(p) ==
  LET step == proc[p].index + 1 IN
  /\ At(p, "apply") /\ proc[p].index < proc[p].build
  /\ \/ /\ file.version < step
        /\ file' = [file EXCEPT !.version = step] /\ UNCHANGED proc
     \/ /\ file.version >= step /\ Applies(step, file.schema)
        /\ file' = [file EXCEPT !.schema = (@ \ Drops(step)) \cup Creates[step]] /\ proc' = Advanced(p)
  /\ UNCHANGED <<backups, now, deaths>>

\* BEGIN, the statements, the version, and the commit; or the rollback.
Apply(p) ==
  LET step == proc[p].index + 1 IN
  /\ At(p, "apply") /\ proc[p].index < proc[p].build
  /\ IF Applies(step, file.schema)
     THEN /\ file' = [version |-> step, schema |-> (file.schema \ Drops(step)) \cup Creates[step]]
          /\ proc' = Advanced(p)
     ELSE proc' = [proc EXCEPT ![p] = Outside] /\ UNCHANGED file
  /\ UNCHANGED <<backups, now, deaths>>

Finish(p) ==
  /\ At(p, "apply") /\ proc[p].index = proc[p].build
  /\ proc' = [proc EXCEPT ![p] = Outside]
  /\ UNCHANGED <<file, backups, now, deaths>>

Next ==
  \/ Tick
  \/ \E p \in Process :
       \/ Die(p) \/ Copy(p) \/ Copied(p) \/ Prune(p) \/ Apply(p) \/ Finish(p)
       \/ \E build \in Builds : Open(p, build)

Spec == Init /\ [][Next]_vars

-----------------------------------------------------------------------------
(* Properties                                                              *)

TypeOK ==
  /\ file.version \in Version /\ now \in 0 .. MaxNow /\ deaths \in 0 .. MaxDeaths
  /\ \A b \in backups : b.name.version \in Version /\ b.name.at \in 0 .. MaxNow /\ b.whole \in BOOLEAN
  /\ \A p \in Process : /\ proc[p].step \in {"out", "copy", "copying", "prune", "apply"}
                        /\ proc[p].index \in Version

\* Wherever a process died, the version a file reports is what its schema is: no
\* step is run twice, or left out (migrations.py:9-12).
VersionIsTruth == file.schema = SchemaAt(file.version) \/ (file.version = 0 /\ file.schema = Creates[1])

\* "Anything with rows in it is copied before a step runs" (migrations.py:17), and
\* the copy is there, whole, until the next one is made.
CopiedFirst ==
  \A p \in Process : At(p, "apply") /\ proc[p].full =>
    \E b \in backups : b.name.version = proc[p].version /\ b.whole
=============================================================================
