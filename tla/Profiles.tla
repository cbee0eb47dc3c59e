------------------------------ MODULE Profiles ------------------------------
(***************************************************************************)
(* The people behind the items: sightings and their versions               *)
(* (core/profile_store.py), the refresh of accounts no payload described   *)
(* (core/profile_refresh.py), and the fetching of their pictures           *)
(* (core/profile_images.py).                                               *)
(*                                                                         *)
(* The jobs of a platform take turns; from a shell, a sighting may arrive  *)
(* while one of them waits for the platform.                               *)
(***************************************************************************)
EXTENDS Integers, FiniteSets, Sequences

CONSTANTS
  Accounts,  \* the accounts the migration made profiles of
  Handles,
  Bios,
  Keys,      \* pictures, by the key a sighting names them by
  Posts,     \* how many archived posts each account has
  Attempts,  \* ATTEMPTS
  Batch,     \* reader.batch
  Seeds,     \* what the migrations may have left of an account's versions
  Shell,     \* whether an archive job runs beside the others
  MaxNow,    \* bound: seconds
  MaxChanges, \* bound: what the accounts change about themselves
  None

VARIABLES
  shows,     \* what each account shows
  now,       \* _now(), which has a resolution of a second
  versions,  \* table profile_versions, by account
  observed,  \* accounts whose observed_at is set
  images,    \* table profile_images
  refresh,   \* refresh_profiles and its locals
  fetching,  \* download_profile_images: the pictures still to fetch
  seen,      \* history: what a payload last said of each account, field by field
  changes

vars == <<shows, now, versions, observed, images, refresh, fetching, seen, changes>>

-----------------------------------------------------------------------------

Fields == {"handle", "bio", "avatar"}

Version == [handle : Handles, bio : Bios \cup {None}, avatar : Keys \cup {None}, last : 0 .. MaxNow]

\* fresh: history, its source was renewed and not tried since.
Unknown == [known |-> FALSE, path |-> FALSE, error |-> FALSE, fresh |-> FALSE]

\* queue: accounts to ask about, with the name held of them when the job began
\* and the posts left to ask for; what comes first tells nothing apart.
\* asked: the batch of the request.
NoRefresh == [step |-> "idle", queue |-> {}, asked |-> {}, all |-> {}]

\* What a theorem needs of the constants: None is no value, and the migrations left
\* of every account a version, of the past and without a picture.
ProfilesAssumption ==
  /\ None \notin Handles \cup Bios \cup Keys
  /\ Posts \in [Accounts -> Nat] /\ {Attempts, Batch, MaxNow} \subseteq Nat \ {0}
  /\ Seeds \subseteq Seq(Version) \ {<<>>}
  /\ \A vs \in Seeds : \A i \in DOMAIN vs : vs[i].last <= 1 /\ vs[i].avatar = None

\* mutant: versions of the same second are told apart by nothing.
LatestTied(vs) == CHOOSE i \in DOMAIN vs : \A j \in DOMAIN vs : vs[j].last < vs[i].last \/ (vs[j].last = vs[i].last /\ i <= j)

\* ORDER BY last_seen DESC, version_id DESC LIMIT 1
Latest(vs) == CHOOSE i \in DOMAIN vs : \A j \in DOMAIN vs : vs[j].last < vs[i].last \/ (vs[j].last = vs[i].last /\ j <= i)

Shown(v) == [f \in Fields |-> v[f]]

Init ==
  /\ shows \in [Accounts -> [handle : Handles, bio : Bios, avatar : Keys]]
  /\ now = 1 /\ versions \in [Accounts -> Seeds]
  /\ observed = {} /\ images = [a \in Accounts |-> [k \in Keys |-> Unknown]]
  /\ refresh = NoRefresh /\ fetching = {} /\ changes = 0
  /\ seen = [a \in Accounts |-> Shown(versions[a][Latest(versions[a])])]

-----------------------------------------------------------------------------
(* ProfileStore.observe                                                    *)

\* Where one of the two says nothing, nothing is contradicted.
Said(snapshot, v) == [f \in Fields |-> IF snapshot[f] = None THEN v[f] ELSE snapshot[f]]

\* _record_version
Recorded(vs, snapshot) ==
  LET i == Latest(vs)
      contradicted == \E f \in Fields : snapshot[f] # None /\ vs[i][f] # None /\ snapshot[f] # vs[i][f]
      said == Said(snapshot, vs[i])
      v == [handle |-> said["handle"], bio |-> said["bio"], avatar |-> said["avatar"], last |-> now]
  IN  IF contradicted THEN Append(vs, v) ELSE [vs EXCEPT ![i] = v]

\* mutant: an earlier failure stays with a picture that is named again.
RenewedKept(image) == IF image.path THEN image ELSE [image EXCEPT !.known = TRUE, !.fresh = TRUE]

\* _record_image
Renewed(image) == IF image.path THEN image ELSE [image EXCEPT !.known = TRUE, !.error = FALSE, !.fresh = TRUE]

\* The sightings of a batch: a snapshot of each account in their domain.
Observe(snapshots) ==
  LET of == DOMAIN snapshots IN
  /\ versions' = [a \in Accounts |-> IF a \in of THEN Recorded(versions[a], snapshots[a]) ELSE versions[a]]
  /\ images' = [a \in Accounts |-> [k \in Keys |-> IF a \in of /\ snapshots[a]["avatar"] = k
                                                   THEN Renewed(images[a][k]) ELSE images[a][k]]]
  /\ observed' = observed \cup of

\* What a payload says of an account: its handle, and what else it carries.
Snapshot(a, carried) == [f \in Fields |-> IF f = "handle" \/ f \in carried THEN shows[a][f] ELSE None]

-----------------------------------------------------------------------------
(* The accounts, the clock, and the archive job                            *)

Tick == now < MaxNow /\ now' = now + 1 /\ UNCHANGED <<shows, versions, observed, images, refresh, fetching, seen, changes>>

Change(a) ==
  /\ changes < MaxChanges /\ changes' = changes + 1
  /\ \E f \in Fields : \E v \in CASE f = "handle" -> Handles [] f = "bio" -> Bios [] f = "avatar" -> Keys :
       shows' = [shows EXCEPT ![a][f] = v] /\ shows' # shows
  /\ UNCHANGED <<now, versions, observed, images, refresh, fetching, seen>>

Quiet == refresh.step = "idle" /\ fetching = {}

\* A row is inserted, and its author observed.
Sight(a, carried) ==
  /\ Shell \/ Quiet
  /\ Observe([b \in {a} |-> Snapshot(a, carried)])
  /\ seen' = [seen EXCEPT ![a] = Said(Snapshot(a, carried), @)]
  /\ UNCHANGED <<shows, now, refresh, fetching, changes>>

-----------------------------------------------------------------------------
(* refresh_profiles                                                        *)

\* unobserved(), of which no more than Attempts posts are tried.
StartRefresh ==
  LET due == {a \in Accounts : a \notin observed /\ Posts[a] > 0} IN
  /\ Quiet /\ due # {}
  /\ refresh' = [step |-> "ask", asked |-> {}, all |-> due,
                 queue |-> {[account |-> a, handle |-> versions[a][Latest(versions[a])].handle,
                             left |-> IF Posts[a] < Attempts THEN Posts[a] ELSE Attempts] : a \in due}]
  /\ UNCHANGED <<shows, now, versions, observed, images, fetching, seen, changes>>

\* As many as a request may name, or all there are.
Ask ==
  /\ refresh.step = "ask"
  /\ \/ refresh.queue = {} /\ refresh' = NoRefresh
     \/ \E batch \in (SUBSET refresh.queue) \ {{}} :
          /\ Cardinality(batch) = Batch \/ (Cardinality(batch) < Batch /\ batch = refresh.queue)
          /\ refresh' = [refresh EXCEPT !.step = "read", !.queue = @ \ batch,
                                        !.asked = {[e EXCEPT !.left = @ - 1] : e \in batch}]
  /\ UNCHANGED <<shows, now, versions, observed, images, fetching, seen, changes>>

\* mutant: an account that has no post left to ask for is let go.
SettledRead(read) == read

\* The accounts that were read, and those with no post left to ask for.
Settled(read) == read \cup {e \in refresh.asked : e.left = 0}

\* The request returns the authors of some of the posts, and they are observed:
\* of a refused account, the name the job had of it.
Read ==
  /\ refresh.step = "read"
  /\ \E read \in SUBSET refresh.asked :
       LET settled == Settled(read)
           of(a) == CHOOSE e \in settled : e.account = a IN
       /\ Observe([a \in {e.account : e \in settled} |->
                     IF of(a) \in read THEN Snapshot(a, Fields)
                     ELSE [handle |-> of(a).handle, bio |-> None, avatar |-> None]])
       /\ seen' = [a \in Accounts |-> IF a \in {e.account : e \in read} THEN Shown(shows[a]) ELSE seen[a]]
       /\ refresh' = [refresh EXCEPT !.step = "ask", !.asked = {},
                                     !.queue = @ \cup {e \in refresh.asked : e \notin read /\ e.left > 0}]
  /\ UNCHANGED <<shows, now, fetching, changes>>

\* The job dies, or a request raises.
Abort ==
  /\ refresh.step = "read" \/ fetching # {}
  /\ refresh' = NoRefresh /\ fetching' = {}
  /\ UNCHANGED <<shows, now, versions, observed, images, seen, changes>>

-----------------------------------------------------------------------------
(* download_profile_images                                                 *)

\* pending_images
Pending(failed) == {p \in Accounts \X Keys : LET i == images[p[1]][p[2]] IN i.known /\ ~i.path /\ (failed \/ ~i.error)}

StartImages(failed) ==
  /\ Quiet /\ Pending(failed) # {}
  /\ fetching' = Pending(failed)
  /\ images' = [a \in Accounts |-> [k \in Keys |-> IF <<a, k>> \in fetching' THEN [images[a][k] EXCEPT !.fresh = FALSE]
                                                    ELSE images[a][k]]]
  /\ UNCHANGED <<shows, now, versions, observed, refresh, seen, changes>>

\* mark_image_fetched, mark_image_failed
Fetched(p) ==
  /\ p \in fetching /\ fetching' = fetching \ {p}
  /\ \E ok \in BOOLEAN :
       images' = [images EXCEPT ![p[1]][p[2]] = IF ok THEN [@ EXCEPT !.path = TRUE, !.error = FALSE, !.fresh = FALSE]
                                                ELSE [@ EXCEPT !.error = TRUE]]
  /\ UNCHANGED <<shows, now, versions, observed, refresh, seen, changes>>

Next ==
  \/ Tick \/ StartRefresh \/ Ask \/ Read \/ Abort
  \/ \E a \in Accounts : Change(a) \/ \E carried \in SUBSET Fields : Sight(a, carried)
  \/ \E failed \in BOOLEAN : StartImages(failed)
  \/ \E p \in fetching : Fetched(p)

Spec == Init /\ [][Next]_vars

-----------------------------------------------------------------------------
(* Properties                                                              *)

TypeOK ==
  /\ \A a \in Accounts : versions[a] \in Seq(Version) /\ versions[a] # <<>>
  /\ observed \subseteq Accounts /\ now \in 1 .. MaxNow
  /\ images \in [Accounts -> [Keys -> [known : BOOLEAN, path : BOOLEAN, error : BOOLEAN, fresh : BOOLEAN]]]
  /\ refresh.step \in {"idle", "ask", "read"} /\ fetching \subseteq Accounts \X Keys

\* The latest version says of every field what a payload last said of it, through
\* sightings of the same second and histories merged by a migration
\* (profile_store.py:107-110).
LatestIsLastSaid == \A a \in Accounts : Shown(versions[a][Latest(versions[a])]) = seen[a]

\* A refresh that ends leaves no account of its queue to be asked about again
\* (profile_refresh.py:5-7).
RefreshSettles == [][refresh.step = "ask" /\ refresh'.step = "idle" => refresh.all \subseteq observed]_vars

\* A picture named again after its link failed is tried again, and one that was
\* fetched is kept (profile_store.py:141-142).
RenewedIsTried ==
  /\ \A a \in Accounts, k \in Keys : images[a][k].fresh => ~images[a][k].path /\ ~images[a][k].error
  /\ \A a \in Accounts : seen[a]["avatar"] # None => images[a][seen[a]["avatar"]].known \/ a \notin observed
=============================================================================
