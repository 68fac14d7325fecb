---------------------------- MODULE LayerHealth ----------------------------
(***************************************************************************)
(* One layer of a composition and what one call of its effect's render()   *)
(* does to it: the rolling render-time statistics with their budget trip   *)
(* and the three-strikes rule (surface/runtime.py, RenderStats, Layer and  *)
(* the body of the loop of Runtime._render_composition).                   *)
(*                                                                         *)
(* Pixels, names, sources, parameters and blend modes are abstracted away. *)
(* A render time is only "over the budget" (TRUE) or "within it" (FALSE),  *)
(* an opacity only "above zero" (visible) or zero.                         *)
(***************************************************************************)
EXTENDS Integers, Sequences, FiniteSets

CONSTANTS
  FailLimit,    \* CONSECUTIVE_FAIL_LIMIT, 3 in the code
  PerfWindow,   \* _PERF_WINDOW_FRAMES, 60 in the code
  BudgetTrip,   \* _BUDGET_TRIP_FRAMES, 30 in the code
  Topology      \* the LED topologies an effect can be initialised for

ASSUME HealthAssumption ==
  /\ FailLimit \in Nat \ {0}
  /\ PerfWindow \in Nat \ {0}
  /\ BudgetTrip \in Nat \ {0}
  /\ Topology # {}

(***************************************************************************)
(* What one render() call can do: raise, or return in or over the budget   *)
(* an array that has the right shape or not.                               *)
(***************************************************************************)
Outcome == {"ok", "slow", "raise", "bad", "slowBad"}
OverBudget(o) == o \in {"slow", "slowBad"}
WrongShape(o) == o \in {"bad", "slowBad"}

Samples == {s \in Seq(BOOLEAN) : Len(s) <= PerfWindow}

(***************************************************************************)
(* failures and over saturate at the limit they are compared with: the     *)
(* code only asks whether they reached it.  copyable says whether          *)
(* copy.deepcopy works on the effect instance, topology is the one the     *)
(* instance was initialised for.                                           *)
(***************************************************************************)
Layer == [enabled  : BOOLEAN,
          visible  : BOOLEAN,
          failures : 0..FailLimit,
          samples  : Samples,
          over     : 0..BudgetTrip,
          copyable : BOOLEAN,
          topology : Topology]

CompiledLayer(copyable, visible, t) ==
  [enabled |-> TRUE, visible |-> visible, failures |-> 0,
   samples |-> << >>, over |-> 0, copyable |-> copyable, topology |-> t]

AtMost(x, bound) == IF x < bound THEN x ELSE bound

(***************************************************************************)
(* RenderStats.add.  The p95 is entry int(0.95 * (n - 1)), counted from 0, *)
(* of the n samples sorted; it is over the budget exactly when that entry  *)
(* and all those after it are.                                             *)
(***************************************************************************)
P95Index(n) == (95 * (n - 1)) \div 100

P95OverBudget(samples) ==
  LET n == Len(samples)
  IN  Cardinality({i \in 1..n : samples[i]}) >= n - P95Index(n)

Window(samples, slow) ==
  IF Len(samples) < PerfWindow THEN Append(samples, slow)
                               ELSE Append(Tail(samples), slow)

Timed(l, slow) ==
  LET window == Window(l.samples, slow)
  IN  [l EXCEPT !.samples = window,
                !.over = IF P95OverBudget(window)
                         THEN AtMost(l.over + 1, BudgetTrip) ELSE 0]

Tripped(l) == l.over = BudgetTrip

(***************************************************************************)
(* One strike and _maybe_disable_failing_layer.                            *)
(* Mutant: a strike also clears the timing statistics.                     *)
(***************************************************************************)
StrikeOnly(l) ==
  LET strikes == AtMost(l.failures + 1, FailLimit)
  IN  [l EXCEPT !.failures = strikes,
                !.enabled = l.enabled /\ strikes < FailLimit]

StrikeResetsTiming(l) == [StrikeOnly(l) EXCEPT !.over = 0]
Strike(l) == StrikeOnly(l)

Skipped(l) == ~l.enabled \/ ~l.visible

(***************************************************************************)
(* The body of the loop over the layers: skip, raise, trip, reject the     *)
(* array or blend it, in the order of the code.                            *)
(***************************************************************************)
RenderLayer(l, o) ==
  LET timed == Timed(l, OverBudget(o))
  IN  CASE Skipped(l)     -> l
        [] o = "raise" /\ ~Skipped(l) -> Strike(l)
        [] o # "raise" /\ ~Skipped(l) /\ Tripped(timed) ->
             [timed EXCEPT !.enabled = FALSE]
        [] o # "raise" /\ ~Skipped(l) /\ ~Tripped(timed) /\ WrongShape(o) ->
             Strike(timed)
        [] OTHER          -> [timed EXCEPT !.failures = 0]
=============================================================================
