---------------------------- MODULE Conversation ----------------------------
(***************************************************************************)
(* What the chat promises the people and the browsers that share it,       *)
(* without prompts, retries, history or rate limit.                        *)
(*   - A request that is asked ends once, and then the transcript has at   *)
(*     most one entry more: answered, failed, or nothing where the request *)
(*     was never carried out.                                              *)
(*   - The transcript is otherwise only ever cleared as a whole, and with  *)
(*     a new epoch, by which a browser that polls learns to clear its own  *)
(*     log.  Clearing ends no request: its turn opens the new transcript.  *)
(***************************************************************************)
EXTENDS Integers, Sequences

CONSTANT Request  \* those that may be asked

VARIABLES
  asked,  \* the requests in flight
  log,    \* the transcript
  epoch   \* how often the transcript has been cleared

vars == <<asked, log, epoch>>

Init == asked = {} /\ log = << >> /\ epoch = 0

Ask(r) ==
  /\ r \notin asked
  /\ asked' = asked \cup {r}
  /\ UNCHANGED <<log, epoch>>

Record(r, answered) ==
  /\ r \in asked
  /\ asked' = asked \ {r}
  /\ log' = Append(log, [of |-> r, answered |-> answered])
  /\ UNCHANGED epoch

Drop(r) ==
  /\ r \in asked
  /\ asked' = asked \ {r}
  /\ UNCHANGED <<log, epoch>>

Clear ==
  /\ log' = << >>
  /\ epoch' = epoch + 1
  /\ UNCHANGED asked

Next ==
  \/ \E r \in Request : Ask(r) \/ Drop(r) \/ \E answered \in BOOLEAN : Record(r, answered)
  \/ Clear

Spec == Init /\ [][Next]_vars
=============================================================================
