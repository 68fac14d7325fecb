------------------------------ MODULE Runtime ------------------------------
(***************************************************************************)
(* The render runtime (surface/runtime.py, class Runtime): the LIVE and    *)
(* PREVIEW compositions, the crossfade of the live leg, the operator's     *)
(* edits of both, promote and pull, the topology hot-swap, and the render  *)
(* call the engine makes once per frame.                                   *)
(*                                                                         *)
(* Everything here runs on one event loop without an await inside, so each *)
(* operation and each frame is one atomic step; they interleave in any     *)
(* order.  Layers are Python objects: heap maps the identity of a layer to *)
(* its record, and compositions are sequences of identities, because a     *)
(* crossfade keeps the OLD composition's layer objects alive and may share *)
(* them with the new one.                                                  *)
(***************************************************************************)
EXTENDS LayerHealth, LayerStack

CONSTANTS
  LayerId,      \* identities of layer objects, natural numbers
  MaxLayers,    \* bound: layers an operator stacks in one composition
  Durations,    \* values of crossfade_seconds, in clock units; 0 is a hard cut
  MaxGap,       \* bound: clock units between two frames
  MaxAccum,     \* bound: the preview dt accumulator saturates here
  Outcomes,     \* the outcomes of render() the effects of this instance have
  Modes,        \* the modes operators switch to, of "live" and "design"
  Visible,      \* the opacities operators choose: above zero (TRUE) or zero
  Copyable      \* whether effects can be deep-copied: TRUE, FALSE or both

ASSUME RuntimeAssumption ==
  /\ LayerId \subseteq Nat
  /\ MaxLayers \in Nat \ {0}
  /\ Durations \subseteq Nat /\ Durations # {}
  /\ MaxGap \in Nat \ {0}
  /\ MaxAccum \in Nat \ {0}
  /\ Outcomes \subseteq Outcome
  /\ Modes \subseteq {"live", "design"}
  /\ Visible \subseteq BOOLEAN
  /\ Copyable \subseteq BOOLEAN

VARIABLES
  heap,              \* the layer objects
  comp,              \* self.live and self.preview
  cf,                \* self._cf, the crossfade in progress
  crossfadeSeconds,  \* self.crossfade_seconds
  mode,              \* self.mode
  previewTick,       \* self._preview_tick, its parity
  dtAccum,           \* self._preview_dt_accum
  topology           \* self.topology

vars == <<heap, comp, cf, crossfadeSeconds, mode, previewTick, dtAccum,
          topology>>

-----------------------------------------------------------------------------
Slot == {"live", "preview"}

Composition == [layers : Seq(LayerId), selected : Nat]

Unstamped == -1
NoCrossfade == [previous |-> << >>, duration |-> 0, age |-> Unstamped]
Crossfading == cf.previous # << >>

Layers(slot) == comp[slot].layers
Ids(slot) == ToSet(Layers(slot))
Reachable == Ids("live") \cup Ids("preview") \cup ToSet(cf.previous)

(***************************************************************************)
(* A new object takes the least unused identity: which one is immaterial.  *)
(***************************************************************************)
FreshIds(n) ==
  LET free == LayerId \ Reachable
  IN  {s \in [1..n -> free] :
         /\ \A i, j \in 1..n : i < j => s[i] < s[j]
         /\ \A i \in 1..n, id \in free : id < s[i] => id \in ToSet(s)}

(***************************************************************************)
(* Objects no longer referenced are collected; their entry is normalised.  *)
(***************************************************************************)
Collected ==
  [enabled |-> FALSE, visible |-> FALSE, failures |-> 0, samples |-> << >>,
   over |-> 0, copyable |-> FALSE, topology |-> CHOOSE t \in Topology : TRUE]

Collect(h) ==
  heap' = [id \in LayerId |-> IF id \in Reachable' THEN h[id] ELSE Collected]

(***************************************************************************)
(* _maybe_start_crossfade(prev).                                           *)
(***************************************************************************)
CrossfadeFrom(prev) ==
  IF crossfadeSeconds = 0 \/ prev = << >>
  THEN NoCrossfade
  ELSE [previous |-> prev, duration |-> crossfadeSeconds, age |-> Unstamped]

(***************************************************************************)
(* Every edit of the live slot ends in a crossfade from the composition    *)
(* as it was before the edit; preview edits are hard cuts.                 *)
(* Mutant: the composition is cloned after the edit.                       *)
(***************************************************************************)
FadeFromEdited(slot) ==
  cf' = IF slot = "live" THEN CrossfadeFrom(comp'["live"].layers) ELSE cf
FadeIfLive(slot) ==
  cf' = IF slot = "live" THEN CrossfadeFrom(Layers("live")) ELSE cf

-----------------------------------------------------------------------------
TypeOK ==
  /\ heap \in [LayerId -> Layer]
  /\ comp \in [Slot -> Composition]
  /\ cf \in [previous : Seq(LayerId), duration : Nat, age : Nat \cup {Unstamped}]
  /\ crossfadeSeconds \in Durations
  /\ mode \in {"design", "live"}
  /\ previewTick \in {0, 1}
  /\ dtAccum \in 0..MaxAccum
  /\ topology \in Topology

Init ==
  /\ heap = [id \in LayerId |-> Collected]
  /\ comp = [slot \in Slot |-> EmptyStack]
  /\ cf = NoCrossfade
  /\ crossfadeSeconds \in Durations
  /\ mode = "live"
  /\ previewTick = 1          \* -1 in the code, odd
  /\ dtAccum = 0
  /\ topology \in Topology

settings == <<crossfadeSeconds, mode, topology>>
frameState == <<previewTick, dtAccum>>

(***************************************************************************)
(* install_layer(slot, index, replace=True).  index None is the selected   *)
(* index, one of the indices tried.  A compile, init or fence-test failure *)
(* raises before anything is changed, so it is no step.                    *)
(***************************************************************************)
ReplaceLayer(slot, index, copyable, visible) ==
  \E new \in FreshIds(1) :
    /\ comp' = [comp EXCEPT ![slot] = Replacing(comp[slot], index, new[1])]
    /\ FadeIfLive(slot)
    /\ Collect([heap EXCEPT ![new[1]] = CompiledLayer(copyable, visible, topology)])
    /\ UNCHANGED <<settings, frameState>>

(***************************************************************************)
(* install_layer(slot, index, replace=False); index None appends.          *)
(***************************************************************************)
InsertLayer(slot, index, copyable, visible) ==
  /\ Len(Layers(slot)) < MaxLayers
  /\ \E new \in FreshIds(1) :
       /\ comp' = [comp EXCEPT ![slot] = Inserting(comp[slot], index, new[1])]
       /\ FadeIfLive(slot)
       /\ Collect([heap EXCEPT ![new[1]] = CompiledLayer(copyable, visible, topology)])
       /\ UNCHANGED <<settings, frameState>>

RemoveLayer(slot, index) ==
  /\ index < Len(Layers(slot))
  /\ comp' = [comp EXCEPT ![slot] = Removing(comp[slot], index)]
  /\ FadeIfLive(slot)
  /\ Collect(heap)
  /\ UNCHANGED <<settings, frameState>>

ReorderLayer(slot, src, dst) ==
  /\ src < Len(Layers(slot))
  /\ dst < Len(Layers(slot))
  /\ comp' = [comp EXCEPT ![slot] = Reordering(comp[slot], src, dst)]
  /\ FadeIfLive(slot)
  /\ Collect(heap)
  /\ UNCHANGED <<settings, frameState>>

(***************************************************************************)
(* patch_layer_meta; a field left None keeps its value, which is one of    *)
(* the values tried.                                                       *)
(***************************************************************************)
PatchLayerMeta(slot, index, visible, enabled) ==
  /\ index < Len(Layers(slot))
  /\ heap' = [heap EXCEPT ![Layers(slot)[index + 1]].visible = visible,
                          ![Layers(slot)[index + 1]].enabled = enabled]
  /\ UNCHANGED <<comp, cf, settings, frameState>>

SelectLayer(slot, index) ==
  /\ comp' = [comp EXCEPT ![slot] = Selecting(comp[slot], index)]
  /\ UNCHANGED <<heap, cf, settings, frameState>>

(***************************************************************************)
(* _clone_layer_for_live: a deep copy keeps the instance and its meta but  *)
(* not the health counters; when the copy fails the source is recompiled,  *)
(* into a layer that is enabled.  A failing recompile aborts the whole     *)
(* promote or pull before anything is changed.                             *)
(***************************************************************************)
RecompiledLayer(l) == CompiledLayer(l.copyable, l.visible, topology)
CloneLayer(l) ==
  IF l.copyable
  THEN [l EXCEPT !.failures = 0, !.samples = << >>, !.over = 0]
  ELSE RecompiledLayer(l)

CloneInto(from, to, clones) ==
  /\ comp' = [comp EXCEPT ![to] = [layers |-> clones,
                                   selected |-> comp[from].selected]]
  /\ FadeIfLive(to)
  /\ Collect([id \in LayerId |->
        IF \E i \in DOMAIN clones : clones[i] = id
        THEN CloneLayer(heap[Layers(from)[CHOOSE i \in DOMAIN clones :
                                            clones[i] = id]])
        ELSE heap[id]])
  /\ UNCHANGED <<settings, frameState>>

(***************************************************************************)
(* promote() and pull_live_to_preview().  Mutant: promote shares the layer  *)
(* objects instead of cloning them.                                        *)
(***************************************************************************)
PromoteShared == CloneInto("preview", "live", Layers("preview"))

Promote ==
  \E clones \in FreshIds(Len(Layers("preview"))) :
    CloneInto("preview", "live", clones)

PullLiveToPreview ==
  \E clones \in FreshIds(Len(Layers("live"))) :
    CloneInto("live", "preview", clones)

SetMode(m) ==
  /\ mode' = m
  /\ UNCHANGED <<heap, comp, cf, crossfadeSeconds, topology, frameState>>

SetCrossfadeSeconds(d) ==
  /\ crossfadeSeconds' = d
  /\ UNCHANGED <<heap, comp, cf, mode, topology, frameState>>

(***************************************************************************)
(* swap_topology: every layer of both compositions is recompiled for the   *)
(* new topology; one whose compile fails is dropped, the others keep their *)
(* order.  The recompiled object replaces the old one for good (no         *)
(* crossfade survives), so it takes over its identity.                     *)
(* Mutant: the crossfade in flight is kept.                                *)
(***************************************************************************)
KeepCrossfade == cf' = cf
DiscardCrossfade == cf' = NoCrossfade

SwapTopology(t) ==
  \E live \in Survivors(Layers("live")),
     preview \in Survivors(Layers("preview")) :
    LET kept == [slot \in Slot |-> IF slot = "live" THEN live ELSE preview]
    IN  /\ topology' = t
        /\ comp' = [slot \in Slot |-> Keeping(comp[slot], kept[slot])]
        /\ DiscardCrossfade
        /\ Collect([id \in LayerId |->
             IF id \in Ids("live") \cup Ids("preview")
             THEN CompiledLayer(heap[id].copyable, heap[id].visible, t)
             ELSE heap[id]])
        /\ UNCHANGED <<crossfadeSeconds, mode, frameState>>

-----------------------------------------------------------------------------
(***************************************************************************)
(* _render_composition: every layer of the composition, once.              *)
(***************************************************************************)
RenderComposition(h, ids, outcome) ==
  [id \in LayerId |->
     IF id \in ids THEN RenderLayer(h[id], outcome[id]) ELSE h[id]]

(***************************************************************************)
(* wall_t - start_wall_t of the crossfade, stamped by its first frame; gap *)
(* is the wall time since the previous frame.  Mutant: every frame stamps. *)
(***************************************************************************)
AgeRestamped(gap) == 0
Age(gap) == IF cf.age = Unstamped THEN 0 ELSE cf.age + gap

(***************************************************************************)
(* render(wall_t, dt, render_preview=viewers), one frame.  During a        *)
(* crossfade the previous composition is rendered before the live one.     *)
(***************************************************************************)
Render(gap, dt, viewers) ==
  LET age == Age(gap)
      fading == Crossfading /\ age < cf.duration
      ghosts == IF fading THEN ToSet(cf.previous) ELSE {}
      design == mode = "design"
      tick == IF design /\ viewers THEN 1 - previewTick ELSE previewTick
      fresh == design /\ viewers /\ tick = 0
      drafts == IF fresh THEN Ids("preview") ELSE {}
  IN  /\ cf' = IF fading THEN [cf EXCEPT !.age = age] ELSE NoCrossfade
      /\ previewTick' = tick
      /\ dtAccum' = IF design /\ ~fresh THEN AtMost(dtAccum + dt, MaxAccum)
                    ELSE 0
      /\ UNCHANGED <<comp, settings>>
      /\ \E before \in [ghosts -> Outcomes],
            now \in [Ids("live") -> Outcomes],
            draft \in [drafts -> Outcomes] :
           Collect(RenderComposition(
                     RenderComposition(
                       RenderComposition(heap, ghosts, before),
                       Ids("live"), now),
                     drafts, draft))

-----------------------------------------------------------------------------
Index == 0..MaxLayers

OperatorEdit ==
  \/ \E slot \in Slot, index \in Index, copyable \in Copyable, visible \in Visible :
       \/ ReplaceLayer(slot, index, copyable, visible)
       \/ InsertLayer(slot, index, copyable, visible)
  \/ \E slot \in Slot, index \in Index : RemoveLayer(slot, index)
  \/ \E slot \in Slot, src, dst \in Index : ReorderLayer(slot, src, dst)
  \/ \E slot \in Slot, index \in Index, visible \in Visible, enabled \in BOOLEAN :
       PatchLayerMeta(slot, index, visible, enabled)
  \/ \E slot \in Slot, index \in Index : SelectLayer(slot, index)
  \/ Promote
  \/ PullLiveToPreview
  \/ \E m \in Modes : SetMode(m)
  \/ \E d \in Durations : SetCrossfadeSeconds(d)
  \/ \E t \in Topology : SwapTopology(t)

Frame ==
  \E gap \in 1..MaxGap, dt \in 1..MaxGap, viewers \in BOOLEAN :
    Render(gap, dt, viewers)

Next == OperatorEdit \/ Frame

Spec == Init /\ [][Next]_vars

(***************************************************************************)
(* The engine's loop never stops rendering while the process runs.         *)
(***************************************************************************)
FairSpec == Spec /\ WF_vars(Frame)

-----------------------------------------------------------------------------
(***************************************************************************)
(* Safety.                                                                 *)
(***************************************************************************)

(* The selected index of a composition always denotes one of its layers: the
   chat agent and the parameter panel index the list with it, through removal,
   reordering, promotion, pull and a topology swap that drops layers. *)
SelectedInRange ==
  \A slot \in Slot :
    \/ comp[slot].selected < Len(Layers(slot))
    \/ comp[slot] = EmptyStack

(* No layer object is in a composition twice, and the preview shares none
   with the live leg or with the composition that fades out: what is
   rendered, tweaked or disabled on one leg never acts on the other. *)
Isolated ==
  /\ \A slot \in Slot : Injective(Layers(slot))
  /\ Injective(cf.previous)
  /\ Ids("preview") \cap (Ids("live") \cup ToSet(cf.previous)) = {}

(* Every layer that can still be rendered, those fading out included, was
   initialised for the topology in force: its arrays have the length of the
   frame buffers. *)
FitsTopology == \A id \in Reachable : heap[id].topology = topology

(* A step that changes the stack of live layers fades from exactly the stack
   that was live before it, from its first frame on; it cuts hard only when
   crossfades are off, nothing was live, or the topology was swapped. *)
LiveEditsFade ==
  [][Layers("live")' # Layers("live") =>
       \/ cf' = [previous |-> Layers("live"), duration |-> crossfadeSeconds,
                 age |-> Unstamped] /\ crossfadeSeconds # 0
       \/ cf' = NoCrossfade /\ (crossfadeSeconds = 0 \/ Layers("live") = << >>)
       \/ \E t \in Topology : SwapTopology(t)]_vars

(***************************************************************************)
(* The stacks as values: what the layers of ids look like when h holds     *)
(* them.                                                                   *)
(***************************************************************************)
Look(l) == [enabled |-> l.enabled, visible |-> l.visible,
            copyable |-> l.copyable, topology |-> l.topology]
LooksIn(h, ids) == [i \in DOMAIN ids |-> Look(h[ids[i]])]

Shown == INSTANCE Stage WITH
  live    <- LooksIn(heap, Layers("live")),
  preview <- LooksIn(heap, Layers("preview")),
  fade    <- [from |-> LooksIn(heap, cf.previous), seconds |-> cf.duration],
  seconds <- crossfadeSeconds

(* Although layers are shared objects that frames and edits change in place,
   the operator sees two independent stacks of values: edits, tweaks and
   renders of one leg never show on the other, promotes and pulls copy what is
   there, and every change of the live leg but a topology swap fades from what
   was live (Stage). *)
IsStage == Shown!Spec

(***************************************************************************)
(* Liveness, under FairSpec.                                               *)
(***************************************************************************)

(* A crossfade ends, unless the operator keeps starting new ones. *)
CrossfadeSettles ==
  \/ []<>~Crossfading
  \/ []<><<OperatorEdit>>_vars

(* Where every render call raises or exceeds the budget, the live leg goes
   dark for good once the operator stops editing: the strikes and the budget
   trip do not cancel each other. *)
OverloadedLayersGoDark ==
  \/ <>[](\A id \in Ids("live") : Skipped(heap[id]))
  \/ []<><<OperatorEdit>>_vars

(***************************************************************************)
(* What comments of the code say and the code does not do.                 *)
(***************************************************************************)

(* "one-shot - operator can re-enable": a layer the operator switches back on
   is not switched off again by a frame that renders within the budget. *)
ReenableTakesHold ==
  [][\A id \in Reachable :
       ~heap[id].enabled /\ heap'[id].enabled
         => RenderLayer(heap'[id], "ok").enabled]_vars
=============================================================================
