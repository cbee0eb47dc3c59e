----------------------------- MODULE MCJobQueue -----------------------------
(* Finite instances of JobQueue for TLC.                                   *)
EXTENDS JobQueue

\* One process serves every platform.
OneServer == [p \in Platform |-> CHOOSE a \in Process : TRUE]

\* Platforms split over processes, one each.
SplitServers == CHOOSE f \in [Platform -> Process] :
  \A p, q \in Platform : p # q => f[p] # f[q]
=============================================================================
