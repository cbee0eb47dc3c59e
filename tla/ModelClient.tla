----------------------------- MODULE ModelClient -----------------------------
(***************************************************************************)
(* One captioning call to a model (llm/vertex_client.py, gemini_client.py, *)
(* vlm_client.py): it is asked until it answers or the tries are spent,    *)
(* and what came back is read as one of four statuses.  Vertex may be made *)
(* to think in a first turn (VLM_RAW_REASONING); both turns are billed.    *)
(***************************************************************************)
EXTENDS Integers

CONSTANTS
  Clients,     \* which of "vertex", "gemini", "openrouter" is looked at (VLM_PROVIDER)
  MaxRetries,  \* max_retries
  MaxTokens    \* bound: what one reply bills

VARIABLES
  client,  \* the client, and of a thread or of one picture; constant
  raw,     \* VLM_RAW_REASONING; constant
  thread,  \* describe_thread or describe_media; constant
  call     \* the call

vars == <<client, raw, thread, call>>

-----------------------------------------------------------------------------

Statuses == {"success", "refused", "truncated", "failed"}

\* 429 and the server's own errors, other errors of the API, a timeout the client
\* catches, and whatever else its transport raises.
Failures == {"auth", "transient", "rejected", "timeout", "drop"}

\* A reply: of a prompt that is blocked, of no candidate, or of one that ends as
\* it should, is cut at the token cap, withheld, or ends for a reason no client
\* looks for (OTHER, LANGUAGE), and has no parts, nothing but white space, text
\* that is not of the schema, or the answer.
Candidate == [kind : {"candidate"}, finish : {"stop", "cut", "withheld", "other"}, parts : {"none", "blank", "prose", "answer"}]
Replies == Candidate \cup [kind : {"blocked", "nothing"}, finish : {"stop"}, parts : {"none"}]

NoResult == [status |-> "none", usage |-> 0, why |-> FALSE]

Init ==
  /\ client \in Clients /\ raw \in BOOLEAN /\ thread \in BOOLEAN
  /\ client # "vertex" => ~raw /\ ~thread
  /\ call = [at |-> "ask", turn |-> 1, attempt |-> 1, asked |-> 0, billed |-> 0, kept |-> 0, reply |-> {}, result |-> NoResult]

-----------------------------------------------------------------------------

\* mutant: the answering turn's tokens alone.
MergeUsageLast(first, second) == second

\* _merge_usage
MergeUsage(first, second) == first + second

\* A reply that is not looked at for having been cut.
StatusWhole(r) ==
  CASE r.kind = "blocked" \/ r.finish = "withheld" -> "refused"
    [] r.kind = "nothing" \/ r.parts = "none" -> "failed"
    [] OTHER -> "success"

\* _read_response
ReadResponse(r) ==
  IF r.kind = "candidate" /\ r.finish = "cut" THEN "truncated" ELSE StatusWhole(r)

\* What the text of a reply that came through is worth: a thread's has to be of
\* the schema, a picture's more than white space.
Described(r) == IF thread THEN r.parts = "answer" ELSE r.parts # "blank"

\* describe_thread, describe_media; Gemini and OpenRouter do not look whether it
\* was cut, and strip the text first.
Verdict(r) ==
  LET status == IF client = "vertex" THEN ReadResponse(r) ELSE StatusWhole(r)
  IN  IF status = "success" /\ ~Described(r) THEN "failed" ELSE status

\* ThreadResult, MediaResult: of Vertex; the others pass six values for its seven
\* fields, so the reason is read as the usage.
Result(status, usage) ==
  [status |-> status, usage |-> IF client = "vertex" THEN usage ELSE 0, why |-> client = "vertex" /\ status # "success"]

Over(c, status, usage) == [c EXCEPT !.at = "over", !.result = Result(status, usage)]

-----------------------------------------------------------------------------

LastTry == call.attempt >= MaxRetries

\* mutant: the last try is tried again.
TriedAgainAlways(e) == e \in {"transient", "timeout"}

\* _call: what is worth another try.  Gemini and OpenRouter wait out a 429 or a
\* timeout on the last try too.
TriedAgain(e) ==
  IF client = "vertex" THEN e \in {"transient", "timeout"} /\ ~LastTry
  ELSE e \in {"transient", "timeout"} \/ (e # "auth" /\ ~LastTry)

\* A request fails.  Vertex catches errors of the API and timeouts; anything else
\* ends the call with no result.
Fail(e) ==
  /\ call.at = "ask"
  /\ LET c == [call EXCEPT !.asked = @ + 1, !.reply = {}]
     IN  call' = CASE client = "vertex" /\ e = "drop" -> [c EXCEPT !.at = "raised"]
                   [] TriedAgain(e) -> [c EXCEPT !.at = "wait"]
                   [] OTHER -> Over(c, "failed", call.kept)
  /\ UNCHANGED <<client, raw, thread>>

\* What is to be described is not there to be sent, a picture or a file of a thread.
Unreadable ==
  /\ call.at = "ask" /\ call.asked = 0
  /\ call' = IF client = "vertex" THEN [call EXCEPT !.at = "raised"] ELSE Over(call, "failed", 0)
  /\ UNCHANGED <<client, raw, thread>>

\* retry_wait, and the end of the loop.
Wait ==
  /\ call.at = "wait"
  /\ call' = IF LastTry /\ client # "vertex" THEN Over(call, "failed", 0) ELSE [call EXCEPT !.at = "ask", !.attempt = @ + 1]
  /\ UNCHANGED <<client, raw, thread>>

\* The think turn has parts to answer from, however it ended (_think_turn).
Thought(r) == raw /\ call.turn = 1 /\ r.kind = "candidate" /\ r.parts # "none"

\* OpenRouter's reply without a choice raises in the loop that retries.
NoChoice(r) == client = "openrouter" /\ r.kind # "candidate"

\* A reply: the answering turn follows one that thought, any other is read.
Answer(r, tokens) ==
  /\ call.at = "ask"
  /\ LET c == [call EXCEPT !.asked = @ + 1, !.billed = @ + tokens, !.reply = {r}]
     IN  call' = CASE Thought(r) -> [c EXCEPT !.turn = 2, !.attempt = 1, !.kept = tokens]
                   [] NoChoice(r) /\ ~LastTry -> [c EXCEPT !.at = "wait"]
                   [] NoChoice(r) /\ LastTry -> Over(c, "failed", 0)
                   [] ~Thought(r) /\ ~NoChoice(r) -> Over(c, Verdict(r), MergeUsage(call.kept, tokens))
  /\ UNCHANGED <<client, raw, thread>>

Next == (\E e \in Failures : Fail(e)) \/ Unreadable \/ Wait \/ \E r \in Replies, tokens \in 0 .. MaxTokens : Answer(r, tokens)

Spec == Init /\ [][Next]_vars /\ WF_vars(Next)

-----------------------------------------------------------------------------
(* Properties                                                              *)

Ended == call.at \in {"over", "raised"}

TypeOK ==
  /\ client \in Clients /\ raw \in BOOLEAN /\ thread \in BOOLEAN
  /\ call.at \in {"ask", "wait", "over", "raised"} /\ call.turn \in 1 .. 2 /\ call.attempt \in 1 .. MaxRetries
  /\ call.reply \subseteq Replies /\ call.result \in {NoResult} \cup [status : Statuses, usage : Nat, why : BOOLEAN]

\* A caption is committed on nothing but text that was neither cut nor withheld,
\* a thread's on nothing but the schema, and what stays without one says why
\* (vlm_types.py:60-71, 76-77); of Vertex, which the settings default to.
OnlyAnswersSucceed ==
  call.at = "over" /\ client = "vertex" =>
    /\ call.result.status = "success" =>
         \E r \in call.reply : r.finish \notin {"cut", "withheld"} /\ (r.parts = "answer" \/ (~thread /\ r.parts = "prose"))
    /\ call.result.status # "success" => call.result.why

\* A call that comes to a result says what all its replies cost, in both turns and
\* whatever the second came to (vertex_client.py:334-342).
SpendIsWhole == call.at = "over" /\ client = "vertex" => call.result.usage = call.billed

\* No outage has a model asked more often than the tries there are for a turn.
TriesAreBounded == call.asked <= MaxRetries * call.turn

\* "hit the output-token cap before finishing" is no success (vlm_types.py:69-70)
CutIsTruncated ==
  call.at = "over" => \A r \in call.reply : r.finish = "cut" => call.result.status # "success"

\* "a failed or refused call is still fully recorded" (vlm_types.py:77)
FailureSaysWhy == call.at = "over" /\ call.result.status # "success" => call.result.why
=============================================================================
