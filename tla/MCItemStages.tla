---------------------------- MODULE MCItemStages ----------------------------
(* Finite instances of ItemStages for TLC.                                 *)
EXTENDS ItemStages

\* One runner, the queue worker, executes every job.
AllJobs == [r \in Runner |-> Job]
=============================================================================
