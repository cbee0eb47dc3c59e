---------------------------- MODULE JobLifecycle ----------------------------
(***************************************************************************)
(* What the queue promises of every job, with no word on processes,        *)
(* workers or requests (the docstrings of core/queue.py and                *)
(* core/worker.py): a job is never lost and never comes back, it starts    *)
(* at most once, in order, with no other job of its platform running, and  *)
(* once settled it stays as it is.                                         *)
(***************************************************************************)
EXTENDS Naturals, Sequences

CONSTANT Platform

VARIABLE rows  \* per job, in the order queued: its platform and its status

Settled == {"done", "failed", "interrupted"}

Init == rows = << >>

Add(p) == rows' = Append(rows, [platform |-> p, status |-> "queued"])

\* The oldest waiting job of a platform on which nothing runs.
Start(i) ==
  /\ rows[i].status = "queued"
  /\ \A j \in DOMAIN rows :
       rows[j].platform = rows[i].platform
         => /\ rows[j].status # "running"
            /\ rows[j].status = "queued" => i <= j
  /\ rows' = [rows EXCEPT ![i].status = "running"]

Settle(i) ==
  /\ rows[i].status = "running"
  /\ \E outcome \in {"done", "failed"} : rows' = [rows EXCEPT ![i].status = outcome]

\* A job that has not started is cancelled.
Drop(i) ==
  /\ rows[i].status = "queued"
  /\ rows' = [rows EXCEPT ![i].status = "interrupted"]

\* Every run is found dead at a start.
Release ==
  rows' = [i \in DOMAIN rows |->
    IF rows[i].status = "running" THEN [rows[i] EXCEPT !.status = "interrupted"] ELSE rows[i]]

Next ==
  \/ \E p \in Platform : Add(p)
  \/ \E i \in DOMAIN rows : Start(i) \/ Settle(i) \/ Drop(i)
  \/ Release

Spec == Init /\ [][Next]_rows
=============================================================================
