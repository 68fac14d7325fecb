---------------------------- MODULE LayerStack ----------------------------
(***************************************************************************)
(* A composition as its editors see it: the layers bottom to top and the   *)
(* index of the selected one (surface/runtime.py, Composition and the      *)
(* editing half of install_layer, remove_layer, reorder_layer and          *)
(* select_layer).  Both the live and the preview composition are edited    *)
(* with these operators, by the operator and by the chat agent.            *)
(***************************************************************************)
EXTENDS Integers, Sequences, SequencesExt

EmptyStack == [layers |-> << >>, selected |-> 0]

(***************************************************************************)
(* max(0, min(i, n - 1)), the clamp of select() and of a replacement.      *)
(***************************************************************************)
Clamp(i, n) ==
  CASE n = 0           -> 0
    [] n # 0 /\ i < n  -> i
    [] OTHER           -> n - 1

(***************************************************************************)
(* After a shrink, the selection is pulled back only when it fell off.     *)
(* Mutants: the max(0, ...) is forgotten; nothing is pulled back.          *)
(***************************************************************************)
ReselectUnclamped(selected, n) == IF selected >= n THEN n - 1 ELSE selected
ReselectNever(selected, n) == selected
Reselect(selected, n) == IF selected >= n THEN Clamp(n, n) ELSE selected

Selecting(c, index) == [c EXCEPT !.selected = Clamp(index, Len(c.layers))]

Replacing(c, index, new) ==
  LET target == Clamp(index, Len(c.layers))
  IN  [layers   |-> IF c.layers = << >> THEN <<new>>
                    ELSE ReplaceAt(c.layers, target + 1, new),
       selected |-> target]

Inserting(c, index, new) ==
  LET at == Clamp(index, Len(c.layers) + 1)
  IN  [layers |-> InsertAt(c.layers, at + 1, new), selected |-> at]

Removing(c, index) ==
  LET left == RemoveAt(c.layers, index + 1)
  IN  [layers |-> left, selected |-> Reselect(c.selected, Len(left))]

Reordering(c, src, dst) ==
  [layers   |-> InsertAt(RemoveAt(c.layers, src + 1), dst + 1,
                         c.layers[src + 1]),
   selected |-> dst]

(***************************************************************************)
(* Keeping the positions kept (an increasing sequence of them), as         *)
(* swap_topology does with the layers that compile for the new topology.   *)
(***************************************************************************)
Keeping(c, kept) ==
  [layers   |-> [i \in DOMAIN kept |-> c.layers[kept[i]]],
   selected |-> Reselect(c.selected, Len(kept))]

Survivors(s) ==
  {f \in UNION {[1..n -> 1..Len(s)] : n \in 0..Len(s)} :
     \A i, j \in DOMAIN f : i < j => f[i] < f[j]}

Injective(s) == \A i, j \in DOMAIN s : s[i] = s[j] => i = j
=============================================================================
