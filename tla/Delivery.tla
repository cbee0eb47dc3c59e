------------------------------ MODULE Delivery ------------------------------
(***************************************************************************)
(* What uploading promises of an item (core/jobs.py, "so it can run any    *)
(* time", and core/telegram_client.py): it is shown until Telegram has     *)
(* answered for it, again only when the last showing is in doubt, and the  *)
(* row says done only for a showing that was answered for.                 *)
(***************************************************************************)
EXTENDS Naturals

CONSTANT Item

VARIABLES
  status,  \* per item: none (nothing to send yet), pending, failed or done
  shown,   \* per item: how often the chat shows it
  doubts   \* per item: how many of those nobody can tell of

vars == <<status, shown, doubts>>

Init == status = [i \in Item |-> "none"] /\ shown = [i \in Item |-> 0] /\ doubts = [i \in Item |-> 0]

\* A showing that has been answered for and is not yet recorded.
Answered(i) == shown[i] > doubts[i]

Owed(i) == status[i] \in {"pending", "failed"} /\ ~Answered(i)

Offer(i) ==
  /\ status[i] = "none"
  /\ status' = [status EXCEPT ![i] = "pending"]
  /\ UNCHANGED <<shown, doubts>>

Show(i) ==
  /\ Owed(i)
  /\ shown' = [shown EXCEPT ![i] = @ + 1]
  /\ \/ UNCHANGED <<status, doubts>>
     \/ /\ doubts' = [doubts EXCEPT ![i] = @ + 1]
        /\ status' \in {status, [status EXCEPT ![i] = "failed"]}

Fail(i) ==
  /\ Owed(i)
  /\ status' = [status EXCEPT ![i] = "failed"]
  /\ UNCHANGED <<shown, doubts>>

\* Whoever got the answer did not live to record it.
Forget(i) ==
  /\ Answered(i) /\ status[i] # "done"
  /\ doubts' = [doubts EXCEPT ![i] = @ + 1]
  /\ UNCHANGED <<status, shown>>

Record(i) ==
  /\ Answered(i)
  /\ status' = [status EXCEPT ![i] = "done"]
  /\ UNCHANGED <<shown, doubts>>

Next == \E i \in Item : Offer(i) \/ Show(i) \/ Fail(i) \/ Forget(i) \/ Record(i)

Spec == Init /\ [][Next]_vars
=============================================================================
