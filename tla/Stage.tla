------------------------------- MODULE Stage -------------------------------
(***************************************************************************)
(* What the render runtime promises an operator, who thinks of a stack of  *)
(* layers as a value: what it looks like, bottom to top.  There are no     *)
(* layer objects, no health records and no clock.                          *)
(*   - What is done to one leg does not show on the other.                 *)
(*   - An edit keeps what the layers it keeps look like.                   *)
(*   - A promote shows what the preview showed, and the preview stays.     *)
(*   - A change of the live leg fades from what was live.                  *)
(*   - A frame may switch layers off, and changes nothing else; with the   *)
(*     preview hidden it leaves the preview as it is.                      *)
(***************************************************************************)
EXTENDS Integers, Sequences

CONSTANTS Topology, Durations

VARIABLES
  live, preview,  \* the two stacks
  fade,           \* the stack that fades out, and over how long
  seconds,        \* how long the next fade is to be
  mode,           \* "design" shows the preview, "live" hides it
  topology        \* the LEDs the stacks are drawn on

vars == <<live, preview, fade, seconds, mode, topology>>
settings == <<seconds, mode, topology>>

NoFade == [from |-> << >>, seconds |-> 0]

FadeFrom(stack) ==
  IF seconds = 0 \/ stack = << >> THEN NoFade
                                  ELSE [from |-> stack, seconds |-> seconds]

Made(copyable, visible, t) ==
  [enabled |-> TRUE, visible |-> visible, copyable |-> copyable, topology |-> t]

Init ==
  /\ live = << >> /\ preview = << >>
  /\ fade = NoFade
  /\ seconds \in Durations
  /\ mode = "live"
  /\ topology \in Topology

-----------------------------------------------------------------------------
(***************************************************************************)
(* new consists of layers of old, none twice, and of at most one just made *)
(* (place 0).                                                              *)
(***************************************************************************)
Drawn(new, old) ==
  \E place \in [DOMAIN new -> DOMAIN old \cup {0}] :
    /\ \A i, j \in DOMAIN new : place[i] = place[j] => i = j
    /\ \A i \in DOMAIN new :
         IF place[i] # 0 THEN new[i] = old[place[i]]
         ELSE \E c, v \in BOOLEAN : new[i] = Made(c, v, topology)

EditLive ==
  /\ UNCHANGED <<settings, preview>>
  /\ fade' = FadeFrom(live)
  /\ Drawn(live', live)

EditPreview ==
  /\ UNCHANGED <<settings, live, fade>>
  /\ Drawn(preview', preview)

(***************************************************************************)
(* A layer is shown, hidden, switched on or off.  One that is live and     *)
(* fading out as well changes in both places.                              *)
(***************************************************************************)
Patched(look, visible, enabled) ==
  [look EXCEPT !.visible = visible, !.enabled = enabled]

PatchLive(k, visible, enabled) ==
  /\ live' = [live EXCEPT ![k] = Patched(live[k], visible, enabled)]
  /\ \/ UNCHANGED fade
     \/ \E i \in DOMAIN fade.from :
          /\ fade.from[i] = live[k]
          /\ fade' = [fade EXCEPT !.from[i] = Patched(live[k], visible, enabled)]
  /\ UNCHANGED <<preview, settings>>

PatchPreview(k, visible, enabled) ==
  /\ preview' = [preview EXCEPT ![k] = Patched(preview[k], visible, enabled)]
  /\ UNCHANGED <<live, fade, settings>>

(***************************************************************************)
(* A copy looks like its original; an effect that cannot be copied is made *)
(* again, and is on.                                                       *)
(***************************************************************************)
Copy(look) ==
  IF look.copyable THEN look ELSE Made(look.copyable, look.visible, topology)
Copies(stack) == [i \in DOMAIN stack |-> Copy(stack[i])]

Promote ==
  /\ live' = Copies(preview)
  /\ fade' = FadeFrom(live)
  /\ UNCHANGED <<preview, settings>>

Pull ==
  /\ preview' = Copies(live)
  /\ UNCHANGED <<live, fade, settings>>

SetMode ==
  mode' \in {"design", "live"} /\ UNCHANGED <<live, preview, fade, seconds, topology>>

SetSeconds ==
  seconds' \in Durations /\ UNCHANGED <<live, preview, fade, mode, topology>>

(***************************************************************************)
(* Other LEDs: every layer is made again for them, or is lost; the others  *)
(* keep their order.  Nothing fades.                                       *)
(***************************************************************************)
MadeAgain(new, old, t) ==
  \E place \in [DOMAIN new -> DOMAIN old] :
    /\ \A i, j \in DOMAIN new : i < j => place[i] < place[j]
    /\ \A i \in DOMAIN new :
         new[i] = Made(old[place[i]].copyable, old[place[i]].visible, t)

Swap(t) ==
  /\ topology' = t
  /\ UNCHANGED <<seconds, mode>>
  /\ fade' = NoFade
  /\ MadeAgain(live', live, t) /\ MadeAgain(preview', preview, t)

-----------------------------------------------------------------------------
Off(look) == [look EXCEPT !.enabled = FALSE]
Dimmed(new, old) ==
  /\ DOMAIN new = DOMAIN old
  /\ \A i \in DOMAIN old : new[i] \in {old[i], Off(old[i])}

Frame ==
  /\ UNCHANGED settings
  /\ mode = "live" => UNCHANGED preview
  /\ Dimmed(live', live) /\ Dimmed(preview', preview)
  /\ \/ fade' = NoFade
     \/ Dimmed(fade'.from, fade.from) /\ fade' = [fade EXCEPT !.from = fade'.from]

Next ==
  \/ SetMode \/ SetSeconds
  \/ Promote \/ Pull
  \/ EditLive \/ EditPreview
  \/ Frame
  \/ \E t \in Topology : Swap(t)
  \/ \E visible, enabled \in BOOLEAN :
       \/ \E k \in DOMAIN live : PatchLive(k, visible, enabled)
       \/ \E k \in DOMAIN preview : PatchPreview(k, visible, enabled)

Spec == Init /\ [][Next]_vars
=============================================================================
