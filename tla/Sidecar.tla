------------------------------ MODULE Sidecar ------------------------------
(***************************************************************************)
(* The supervisor of the bridge (platforms/whatsapp/sidecar.py): it idles  *)
(* until a device is paired or somebody asks to pair one, keeps one        *)
(* `wabridge sync` running, and stops it when it is itself cancelled.      *)
(*                                                                         *)
(* The bridge is a process of its own: it pairs, shows codes, is unlinked  *)
(* by the phone, or dies, whatever the supervisor is waiting for.          *)
(***************************************************************************)
EXTENDS Integers

CONSTANTS
  MaxClicks,  \* bound: presses of Pair
  MaxExits    \* bound: bridges that die, give up pairing, or are unlinked

VARIABLES
  device,     \* the session store holds a device (_paired)
  requested,  \* _pair_requested
  qr,         \* qr.txt: "none", "live", or "stale": left by a bridge that is gone
  child,      \* the bridge: "none", "pairing" or "syncing"
  loop,       \* run(): where it is, and its local pairing
  built,      \* there is a binary
  waiting,    \* calls of pair_start that wait for the binary
  asked,      \* history: somebody pressed Pair since a device was last lost
  clicks, exits

vars == <<device, requested, qr, child, loop, built, waiting, asked, clicks, exits>>

-----------------------------------------------------------------------------

Init ==
  /\ device \in BOOLEAN /\ requested = FALSE /\ qr = "none" /\ child = "none"
  /\ loop = [step |-> "top", pairing |-> FALSE]
  /\ built \in BOOLEAN /\ waiting = 0 /\ asked = FALSE
  /\ clicks = 0 /\ exits = 0

At(step) == loop.step = step
Go(step) == loop' = [loop EXCEPT !.step = step]

\* mutant: a sync too is started only where somebody asked for it.
LookAsked ==
  /\ At("top")
  /\ loop' = [step |-> IF requested THEN "binary" ELSE "idle", pairing |-> ~device]
  /\ UNCHANGED <<device, requested, qr, child, built, waiting, asked, clicks, exits>>

\* The head of the loop.
Look ==
  LET pairing == ~device /\ requested IN
  /\ At("top")
  /\ loop' = [step |-> IF device \/ pairing THEN "binary" ELSE "idle", pairing |-> pairing]
  /\ UNCHANGED <<device, requested, qr, child, built, waiting, asked, clicks, exits>>

\* _IDLE_POLL, _FATAL_DELAY or _RESTART_DELAY is over.
Sleep ==
  /\ loop.step \in {"idle", "nobinary", "restart"} /\ Go("top")
  /\ UNCHANGED <<device, requested, qr, child, built, waiting, asked, clicks, exits>>

\* _ensure_binary: what was found or built.
Ensure ==
  /\ At("binary")
  /\ \/ /\ Go("spawn") /\ built' = TRUE
        /\ requested' = (requested /\ ~loop.pairing)
        /\ qr' = IF loop.pairing THEN "none" ELSE qr
     \/ ~built /\ Go("nobinary") /\ UNCHANGED <<requested, qr, built>>
  /\ UNCHANGED <<device, child, waiting, asked, clicks, exits>>

Spawn ==
  /\ At("spawn") /\ Go("wait")
  /\ child' = IF loop.pairing /\ ~device THEN "pairing" ELSE "syncing"
  /\ UNCHANGED <<device, requested, qr, built, waiting, asked, clicks, exits>>

\* mutant: a request made while the bridge ran goes with it.
ExitedForgetful ==
  /\ At("wait") /\ child = "none"
  /\ Go(IF device THEN "restart" ELSE "top")
  /\ requested' = FALSE
  /\ UNCHANGED <<device, qr, child, built, waiting, asked, clicks, exits>>

\* The bridge has exited.
Exited ==
  /\ At("wait") /\ child = "none"
  /\ Go(IF device THEN "restart" ELSE "top")
  /\ UNCHANGED <<device, requested, qr, child, built, waiting, asked, clicks, exits>>

\* mutant: the bridge is left to itself.
CancelOnly ==
  /\ loop.step \notin {"terminate", "ended"}
  /\ Go("ended")
  /\ UNCHANGED <<device, requested, qr, child, built, waiting, asked, clicks, exits>>

\* The process shuts down and cancels the task; the loop sees it at its await.
Cancel ==
  /\ loop.step \notin {"terminate", "ended"}
  /\ Go(IF At("wait") THEN "terminate" ELSE "ended")
  /\ UNCHANGED <<device, requested, qr, child, built, waiting, asked, clicks, exits>>

\* terminate() and the bridge's exit.
Terminate ==
  /\ At("terminate") /\ Go("ended")
  /\ child' = "none" /\ qr' = IF child = "pairing" THEN "none" ELSE qr
  /\ UNCHANGED <<device, requested, built, waiting, asked, clicks, exits>>

-----------------------------------------------------------------------------
(* pair_start                                                              *)

Click ==
  /\ clicks < MaxClicks /\ ~At("ended") /\ ~device
  /\ clicks' = clicks + 1 /\ waiting' = waiting + 1
  /\ UNCHANGED <<device, requested, qr, child, loop, built, asked, exits>>

Request ==
  /\ waiting > 0 /\ waiting' = waiting - 1
  /\ \/ built' = TRUE /\ requested' = TRUE /\ asked' = TRUE
     \/ ~built /\ UNCHANGED <<built, requested, asked>>
  /\ UNCHANGED <<device, qr, child, loop, clicks, exits>>

\* pair_state
Pairing == ~device /\ (requested \/ (child = "pairing" /\ At("wait")))

-----------------------------------------------------------------------------
(* The bridge                                                              *)

ShowCode ==
  /\ child = "pairing" /\ qr' = "live"
  /\ UNCHANGED <<device, requested, child, loop, built, waiting, asked, clicks, exits>>

\* The phone scans the code; the same process goes on as the sync.
Pairs ==
  /\ child = "pairing" /\ qr = "live"
  /\ device' = TRUE /\ child' = "syncing" /\ qr' = "none"
  /\ UNCHANGED <<requested, loop, built, waiting, asked, clicks, exits>>

\* The bridge gives up pairing, is unlinked and clears its session, or dies.
BridgeExits ==
  /\ child # "none" /\ child' = "none"
  /\ exits < MaxExits /\ exits' = exits + 1
  /\ \/ child = "pairing" /\ qr' = "none" /\ UNCHANGED <<device, asked>>
     \/ child = "syncing" /\ device' = FALSE /\ asked' = FALSE /\ UNCHANGED qr
     \/ qr' = (IF qr = "live" THEN "stale" ELSE qr) /\ UNCHANGED <<device, asked>>
  /\ UNCHANGED <<requested, loop, built, waiting, clicks>>

Run == Look \/ Sleep \/ Ensure \/ Spawn \/ Exited \/ Terminate

Next == Run \/ Cancel \/ Click \/ Request \/ ShowCode \/ Pairs \/ BridgeExits

\* The loop's sleeps end, and every await of it but the bridge's exit is short.
Spec == Init /\ [][Next]_vars /\ WF_vars(Run)

-----------------------------------------------------------------------------
(* Properties                                                              *)

TypeOK ==
  /\ {device, requested, built, asked} \subseteq BOOLEAN /\ qr \in {"none", "live", "stale"}
  /\ child \in {"none", "pairing", "syncing"} /\ loop.pairing \in BOOLEAN
  /\ loop.step \in {"top", "idle", "binary", "nobinary", "spawn", "wait", "restart", "terminate", "ended"}
  /\ waiting \in 0 .. clicks /\ clicks \in 0 .. MaxClicks /\ exits \in 0 .. MaxExits

\* There is never a second bridge on the session, nor one without the supervisor
\* waiting for it: it "stops with the process" (sidecar.py:6).
BridgeIsSupervised == child # "none" => loop.step \in {"wait", "terminate"}

\* What asks for a bridge: a device, or a request where nothing runs.
Wanted == built /\ child = "none" /\ (device \/ requested)

\* What comes of it.
Served == child # "none" \/ At("ended")

\* "the current QR text while pairing runs" (sidecar.py:121): of no other bridge.
CodeIsCurrent == qr # "none" => child = "pairing"

\* "whether the session ended up paired" (sidecar.py:121-122; the overlay gives up
\* where pair_state says neither): a request is shown as pairing until it is answered.
PairingIsShown == loop.pairing /\ At("spawn") => Pairing

\* "Pairing is the on switch: the sidecar idles until the session store holds a
\* device" (sidecar.py:5): a lost device is not paired again unasked.
PairedWhenAsked == [][child = "none" /\ child' = "pairing" => asked]_vars
=============================================================================
