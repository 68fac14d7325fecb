----------------------------- MODULE ChatAgent -----------------------------
(***************************************************************************)
(* The chat agent: POST /agent/chat with its automatic retries             *)
(* (api/agent.py), the single rolling session it shares with every other   *)
(* request (agent/session.py), the write_effect tool (surface/tool.py) and *)
(* the operator's edits of the preview, some of which wipe the session     *)
(* (api/server.py).                                                        *)
(*                                                                         *)
(* A request suspends only while a worker thread waits for the LLM, so the *)
(* code between two LLM calls is one atomic step.  Nothing stops two       *)
(* requests, or a request and the operator, from interleaving there.       *)
(* Texts are abstracted: a message is its role, the request it belongs to  *)
(* and its tool calls; the system prompt is the preview layer it shows.    *)
(***************************************************************************)
EXTENDS LayerStack, FiniteSets, FiniteSetsExt

CONSTANTS
  Request,          \* bound: requests that can be in flight at a time
  LayerId,          \* identities of preview layers, natural numbers
  MaxLayers,        \* bound: layers stacked in the preview
  HistoryMaxTurns,  \* history_max_turns; 0 disables the history
  RetryOnToolError, \* retry_on_tool_error
  RateLimit,        \* rate_limit_per_minute; 0 disables the limit
  Minute,           \* the 60 seconds of the rate window, in clock units
  Replies,          \* the tool calls a reply of this instance can carry
  MaxTurns,         \* bound: entries of the transcript between two wipes
  MaxEpoch          \* bound: wipes

(***************************************************************************)
(* A write_effect call that is valid and compiles, one that is not, or a   *)
(* call of a tool that does not exist.                                     *)
(***************************************************************************)
Call == {"applied", "rejected", "unknown"}

ASSUME ChatAssumption ==
  /\ LayerId \subseteq Nat
  /\ {MaxLayers, HistoryMaxTurns, RetryOnToolError, RateLimit, MaxTurns,
      MaxEpoch} \subseteq Nat
  /\ Minute \in Nat \ {0}
  /\ Replies \subseteq Seq(Call)

VARIABLES
  preview,     \* runtime.preview
  messages,    \* sess.messages, the buffer sent to the LLM
  turns,       \* sess.turns, the transcript GET /agent/session returns
  rateWindow,  \* sess._rate_window, as ages
  epoch,       \* app.state.chat_epoch
  chat,        \* the locals of each request in flight
  admitted     \* history: ages of the requests admitted in the last minute,
               \* and since the last wipe

vars == <<preview, messages, turns, rateWindow, epoch, chat, admitted>>
session == <<messages, turns, rateWindow, epoch, admitted>>

-----------------------------------------------------------------------------
(***************************************************************************)
(* n: how many tools an assistant message calls, which of them a tool      *)
(* message answers.                                                        *)
(***************************************************************************)
Message == [role : {"user", "assistant", "tool"}, of : Request, n : Nat]

UserMessage(r) == [role |-> "user", of |-> r, n |-> 0]

Answer(r, reply) ==
  <<[role |-> "assistant", of |-> r, n |-> Len(reply)]>>
    \o [k \in 1..Len(reply) |-> [role |-> "tool", of |-> r, n |-> k]]

NoLayer == -1
Shown(stack) ==
  IF stack.layers = << >> THEN NoLayer ELSE stack.layers[stack.selected + 1]

(***************************************************************************)
(* shown: the layer in the system prompt of the LLM call in progress;      *)
(* alone: history, whether nobody else wrote and the session was not wiped *)
(* since the request began, and no edit was made that does not wipe it.    *)
(***************************************************************************)
Idle == [waiting |-> FALSE, history |-> << >>, accumulated |-> << >>,
         attempt |-> 0, shown |-> NoLayer, alone |-> FALSE]

MaxAttempts == 1 + RetryOnToolError
Waiting == {r \in Request : chat[r].waiting}
Sent(r) == chat[r].history \o chat[r].accumulated   \* msgs_for_call

(***************************************************************************)
(* A new layer takes the least identity nobody refers to.                  *)
(***************************************************************************)
Known == ToSet(preview.layers) \cup {chat[r].shown : r \in Waiting}
FreshIds(n) ==
  LET free == LayerId \ Known
  IN  {s \in [1..n -> free] :
         /\ \A i, j \in 1..n : i < j => s[i] < s[j]
         /\ \A i \in 1..n, id \in free : id < s[i] => id \in ToSet(s)}

TypeOK ==
  /\ preview \in [layers : Seq(LayerId), selected : Nat]
  /\ messages \in Seq(Message)
  /\ turns \in Seq([of : Request, answered : BOOLEAN])
  /\ rateWindow \in Seq(0..Minute + 1)
  /\ epoch \in 0..MaxEpoch
  /\ chat \in [Request -> [waiting : BOOLEAN, history : Seq(Message),
                           accumulated : Seq(Message), attempt : 0..MaxAttempts,
                           shown : LayerId \cup {NoLayer}, alone : BOOLEAN]]
  /\ admitted \in Seq(0..Minute)

(***************************************************************************)
(* The boot layer is in the preview, the session is empty.                 *)
(***************************************************************************)
Init ==
  /\ \E boot \in LayerId :
       /\ \A id \in LayerId : boot <= id
       /\ preview = [layers |-> <<boot>>, selected |-> 0]
  /\ messages = << >>
  /\ turns = << >>
  /\ rateWindow = << >>
  /\ epoch = 0
  /\ chat = [r \in Request |-> Idle]
  /\ admitted = << >>

-----------------------------------------------------------------------------
(***************************************************************************)
(* append_messages, then _trim_to_last_turns: the buffer is cut at the     *)
(* history_max_turns-th user message from its end, if there are as many.   *)
(* Mutant: it keeps the last few messages instead of the last few turns.   *)
(***************************************************************************)
Users(ms) == {i \in DOMAIN ms : ms[i].role = "user"}
FromEnd(places, i) == Cardinality({j \in places : i <= j})

TrimByMessages(ms) ==
  IF Len(ms) <= 2 * HistoryMaxTurns THEN ms
  ELSE SubSeq(ms, Len(ms) - 2 * HistoryMaxTurns + 1, Len(ms))

Trim(ms) ==
  CASE HistoryMaxTurns = 0 -> << >>
    [] HistoryMaxTurns # 0 /\ Cardinality(Users(ms)) < HistoryMaxTurns -> ms
    [] OTHER ->
         LET from == CHOOSE i \in Users(ms) :
                       FromEnd(Users(ms), i) = HistoryMaxTurns
         IN  SubSeq(ms, from, Len(ms))

Disturb(chats) == [r \in Request |-> [chats[r] EXCEPT !.alone = FALSE]]

(***************************************************************************)
(* reset() and the chat_epoch the browsers watch.                          *)
(* Mutants: the transcript survives; the epoch is not bumped.              *)
(***************************************************************************)
WipeMessages ==
  /\ epoch < MaxEpoch
  /\ messages' = << >>
  /\ rateWindow' = << >>
  /\ epoch' = epoch + 1
  /\ admitted' = << >>
  /\ chat' = Disturb(chat)
  /\ UNCHANGED turns
WipeSilently ==
  /\ messages' = << >>
  /\ turns' = << >>
  /\ rateWindow' = << >>
  /\ admitted' = << >>
  /\ chat' = Disturb(chat)
  /\ UNCHANGED epoch
Wipe ==
  /\ epoch < MaxEpoch
  /\ messages' = << >>
  /\ turns' = << >>
  /\ rateWindow' = << >>
  /\ epoch' = epoch + 1
  /\ admitted' = << >>
  /\ chat' = Disturb(chat)

(***************************************************************************)
(* check_rate_limit drops entries from the front of the window while they  *)
(* are older than 60 s: one of exactly 60 s still counts.                  *)
(* Mutant: it is dropped.                                                  *)
(***************************************************************************)
Unexpired(ages, limit) ==
  LET first == CHOOSE i \in 1..(Len(ages) + 1) :
                 /\ i <= Len(ages) => ages[i] <= limit
                 /\ \A j \in 1..(i - 1) : ages[j] > limit
  IN  SubSeq(ages, first, Len(ages))

RecentStrict(window) == Unexpired(window, Minute - 1)
Recent(window) == Unexpired(window, Minute)

Admissible == RateLimit = 0 \/ Len(Recent(rateWindow)) < RateLimit

RefuseChat ==
  /\ ~Admissible
  /\ rateWindow' = Recent(rateWindow)
  /\ UNCHANGED <<preview, messages, turns, epoch, chat, admitted>>

(***************************************************************************)
(* POST /agent/chat up to the first LLM call.                              *)
(***************************************************************************)
PostChat(r) ==
  /\ ~chat[r].waiting
  /\ Len(turns) + Cardinality(Waiting) < MaxTurns
  /\ Admissible
  /\ rateWindow' = IF RateLimit = 0 THEN rateWindow
                   ELSE Append(Recent(rateWindow), 0)
  /\ admitted' = IF RateLimit = 0 THEN admitted ELSE Append(admitted, 0)
  /\ chat' = [chat EXCEPT ![r] =
       [waiting |-> TRUE, history |-> messages,
        accumulated |-> <<UserMessage(r)>>, attempt |-> 1,
        shown |-> Shown(preview), alone |-> TRUE]]
  /\ UNCHANGED <<preview, messages, turns, epoch>>

(***************************************************************************)
(* Only the first write_effect call of a reply is carried out; every other *)
(* call is answered with an error.                                         *)
(***************************************************************************)
IsWrite(call) == call \in {"applied", "rejected"}
Installs(reply) ==
  \E i \in DOMAIN reply : /\ reply[i] = "applied"
                          /\ \A j \in 1..(i - 1) : ~IsWrite(reply[j])
AllSucceed(reply) == reply = << >> \/ (Len(reply) = 1 /\ Installs(reply))

(***************************************************************************)
(* apply_write_effect replaces the layer selected when it runs.            *)
(***************************************************************************)
ApplyWriteEffect(reply) ==
  IF Installs(reply)
  THEN \E new \in FreshIds(1) :
         preview' = Replacing(preview, preview.selected, new[1])
  ELSE UNCHANGED preview

(***************************************************************************)
(* A failed attempt is repeated while attempts are left, with a prompt     *)
(* built anew, else the turn is recorded.  Mutants: one attempt too many;  *)
(* a retry starts over instead of counting and remembering the attempt.    *)
(***************************************************************************)
OneTooMany(r) == chat[r].attempt > MaxAttempts
Exhausted(r) == chat[r].attempt >= MaxAttempts

Others(r, reply) ==
  [o \in Request |-> [chat[o] EXCEPT !.alone = @ /\ (o = r \/ ~Installs(reply))]]

RetryForgetting(r, reply) ==
  /\ chat' = [Others(r, reply) EXCEPT ![r].shown = Shown(preview')]
  /\ UNCHANGED session
Retry(r, reply) ==
  /\ chat' = [Others(r, reply) EXCEPT ![r].accumulated = @ \o Answer(r, reply),
                                      ![r].attempt = @ + 1,
                                      ![r].shown = Shown(preview')]
  /\ UNCHANGED session

RecordTurn(r, reply) ==
  /\ messages' = Trim(messages \o chat[r].accumulated \o Answer(r, reply))
  /\ turns' = Append(turns, [of |-> r, answered |-> TRUE])
  /\ chat' = [Others(r, reply) EXCEPT ![r] = Idle]
  /\ UNCHANGED <<rateWindow, epoch, admitted>>

ReceiveReply(r, reply) ==
  /\ chat[r].waiting
  /\ ApplyWriteEffect(reply)
  /\ IF AllSucceed(reply) \/ Exhausted(r) THEN RecordTurn(r, reply)
                                          ELSE Retry(r, reply)

(***************************************************************************)
(* The LLM call raised: a timeout, an HTTP error, ...                      *)
(***************************************************************************)
FailCall(r) ==
  /\ chat[r].waiting
  /\ turns' = Append(turns, [of |-> r, answered |-> FALSE])
  /\ chat' = [chat EXCEPT ![r] = Idle]
  /\ UNCHANGED <<preview, messages, rateWindow, epoch, admitted>>

(***************************************************************************)
(* The request leaves no trace: MissingApiKey, raised when the client is   *)
(* first built; or a valid write_effect that gives the key of a value the  *)
(* replaced layer carries another type (a colour where a number was), for  *)
(* float() and its like raise an error that nobody catches.                *)
(***************************************************************************)
Vanish(r) ==
  /\ chat[r].waiting
  /\ chat' = [chat EXCEPT ![r] = Idle]
  /\ UNCHANGED <<preview, session>>

MissKey(r) == chat[r].attempt = 1 /\ Vanish(r)
MisfitCarry(r) == preview.layers # << >> /\ Vanish(r)

-----------------------------------------------------------------------------
(***************************************************************************)
(* The operator.  Mutant: loading a layer keeps the session.               *)
(***************************************************************************)
DeleteSession == Wipe /\ UNCHANGED preview

SelectPreview(index) ==
  /\ preview' = Selecting(preview, index)
  /\ IF preview'.selected # preview.selected THEN Wipe ELSE UNCHANGED <<session, chat>>

Loaded(index, add) ==
  /\ add => Len(preview.layers) < MaxLayers
  /\ \E new \in FreshIds(1) :
       preview' = IF add THEN Inserting(preview, index, new[1])
                         ELSE Replacing(preview, index, new[1])

LoadKeeping(index, add) == Loaded(index, add) /\ UNCHANGED <<session, chat>>
LoadPreview(index, add) == Loaded(index, add) /\ Wipe

\* The live composition is any stack that some operator may have built.
PullLiveToPreview(n, selected) ==
  /\ \E clones \in FreshIds(n) :
       preview' = [layers |-> clones, selected |-> Clamp(selected, n)]
  /\ Wipe

SavePreview ==
  /\ preview.layers # << >>
  /\ Wipe
  /\ UNCHANGED preview

RenameEffect == Wipe /\ UNCHANGED preview

RemovePreviewLayer(index) ==
  /\ index < Len(preview.layers)
  /\ preview' = Removing(preview, index)
  /\ chat' = Disturb(chat)
  /\ UNCHANGED session

ReorderPreviewLayer(src, dst) ==
  /\ src < Len(preview.layers)
  /\ dst < Len(preview.layers)
  /\ preview' = Reordering(preview, src, dst)
  /\ chat' = Disturb(chat)
  /\ UNCHANGED session

\* A recompiled layer keeps its source, so it counts as the same layer.
SwapTopology ==
  /\ \E kept \in Survivors(preview.layers) : preview' = Keeping(preview, kept)
  /\ chat' = Disturb(chat)
  /\ UNCHANGED session

-----------------------------------------------------------------------------
Tick ==
  /\ RateLimit # 0
  /\ rateWindow' = [i \in DOMAIN rateWindow |-> Min({rateWindow[i] + 1, Minute + 1})]
  /\ admitted' = Unexpired([i \in DOMAIN admitted |-> admitted[i] + 1], Minute)
  /\ UNCHANGED <<preview, messages, turns, epoch, chat>>

Index == 0..(MaxLayers - 1)

LLMAnswers(r) ==
  FailCall(r) \/ MisfitCarry(r) \/ \E reply \in Replies : ReceiveReply(r, reply)

WipingEdit ==
  \/ DeleteSession
  \/ SavePreview
  \/ RenameEffect
  \/ \E index \in Index : SelectPreview(index)
  \/ \E index \in Index, add \in BOOLEAN : LoadPreview(index, add)
  \/ \E n \in 0..MaxLayers, selected \in Index : PullLiveToPreview(n, selected)

QuietEdit ==
  \/ \E index \in Index : RemovePreviewLayer(index)
  \/ \E src, dst \in Index : ReorderPreviewLayer(src, dst)
  \/ SwapTopology

Next ==
  \/ \E r \in Request : PostChat(r) \/ MissKey(r) \/ LLMAnswers(r)
  \/ RefuseChat
  \/ WipingEdit
  \/ QuietEdit
  \/ Tick

Spec == Init /\ [][Next]_vars

(***************************************************************************)
(* request_timeout_seconds bounds every LLM call: it answers or raises.    *)
(***************************************************************************)
FairSpec == Spec /\ \A r \in Request : WF_vars(LLMAnswers(r))

-----------------------------------------------------------------------------
(***************************************************************************)
(* Safety.                                                                 *)
(***************************************************************************)

(* What is sent to the LLM, and what the session keeps for later requests,
   is a history the chat API accepts: it starts with a user message, each
   tool call is answered right after the message that makes it, and no tool
   message answers a call that was trimmed away, however the turns of
   concurrent requests, retries, wipes and trims interleave. *)
Acceptable(ms) ==
  /\ ms # << >> => ms[1].role = "user"
  /\ \A i \in DOMAIN ms :
       CASE ms[i].role = "assistant" ->
              \A k \in 1..ms[i].n :
                i + k \in DOMAIN ms /\ ms[i + k] = [role |-> "tool", of |-> ms[i].of, n |-> k]
         [] ms[i].role = "tool" ->
              LET caller == i - ms[i].n
              IN  /\ caller \in DOMAIN ms
                  /\ ms[caller].role = "assistant"
                  /\ ms[caller].n >= ms[i].n
         [] OTHER -> TRUE

AcceptableHistory ==
  Acceptable(messages) /\ \A r \in Waiting : Acceptable(Sent(r))

(* The LLM remembers exactly the answered turns the transcript shows, up to
   the last history_max_turns of them, and in the same order: the k-th user
   message of the buffer from its end asks what the k-th answered turn from
   the end of the transcript asked. *)
Answered(ts) == {t \in DOMAIN ts : ts[t].answered}

MemoryMatchesTranscript ==
  /\ Cardinality(Users(messages)) = Min({HistoryMaxTurns, Cardinality(Answered(turns))})
  /\ \A i \in Users(messages), t \in Answered(turns) :
       FromEnd(Users(messages), i) = FromEnd(Answered(turns), t)
         => messages[i].of = turns[t].of

(* No more than rate_limit_per_minute requests are admitted in any 60 s of
   a session, with entries expired lazily, only by the next request. *)
RateLimited == RateLimit # 0 => Len(admitted) <= RateLimit

(* A request is authoring the layer its prompt showed, through all of its
   attempts, unless another request wrote, the session was wiped in its
   lifetime, or a layer was removed, a layer was moved or the topology was
   swapped: the edits _wipe_agent_history lists are all that there are beyond
   those three. *)
PromptIsCurrent ==
  \A r \in Waiting : chat[r].alone => Shown(preview) = chat[r].shown

(***************************************************************************)
(* Requests, transcript and epoch are a Conversation.                      *)
(***************************************************************************)
Promised == INSTANCE Conversation WITH asked <- Waiting, log <- turns

(* However turns, retries, failures and edits interleave, each request leaves
   one turn in the transcript or none, and no turn is ever lost but by a wipe,
   which clears all of them and announces itself by a new chat_epoch. *)
IsConversation == Promised!Spec

(***************************************************************************)
(* Liveness.                                                               *)
(***************************************************************************)

(* Every request in flight ends: retries are bounded, failures end it. *)
ChatEnds == \A r \in Request : chat[r].waiting ~> ~chat[r].waiting
=============================================================================
