--------------------------- MODULE RuntimeProofs ---------------------------
(***************************************************************************)
(* Proofs about Runtime, for stacks of any length and any pool of layer    *)
(* objects: its types, selections, isolation and topologies, that live     *)
(* edits fade, and that it implements Stage.                               *)
(*                                                                         *)
(* The argument: the first four are inductive together.  An edit installs  *)
(* one new layer or rearranges old ones, and by isolation writes nothing   *)
(* that the other leg refers to, so the other leg looks the same; a frame  *)
(* writes what both the live leg and its fade refer to, but only ever      *)
(* switches it off (RenderLayerDims).                                      *)
(***************************************************************************)
EXTENDS Runtime, SequenceTheorems, TLAPS

-----------------------------------------------------------------------------
(***************************************************************************)
(* Sequences of layers: what inserting, removing and replacing an element  *)
(* does to the elements and to injectivity.                                *)
(***************************************************************************)

LEMMA InsertEntries ==
  ASSUME NEW S, NEW s \in Seq(S), NEW i \in 1..(Len(s) + 1), NEW e \in S
  PROVE  /\ InsertAt(s, i, e) \in Seq(S)
         /\ Len(InsertAt(s, i, e)) = Len(s) + 1
         /\ \A k \in 1..(i - 1) : InsertAt(s, i, e)[k] = s[k]
         /\ InsertAt(s, i, e)[i] = e
         /\ \A k \in (i + 1)..(Len(s) + 1) : InsertAt(s, i, e)[k] = s[k - 1]
<1> DEFINE a == SubSeq(s, 1, i - 1)
           b == SubSeq(s, i, Len(s))
           ae == a \o <<e>>
<1>1. Len(s) \in Nat /\ i \in Nat /\ i >= 1 /\ i <= Len(s) + 1
  OBVIOUS
<1>2. /\ a \in Seq(S)
      /\ Len(a) = i - 1
      /\ \A k \in 1..(i - 1) : a[k] = s[k]
  <2>1. \A k \in 1..(i - 1) : s[k] \in S
    BY <1>1
  <2> QED BY <1>1, <2>1, SubSeqProperties
<1>3. /\ b \in Seq(S)
      /\ Len(b) = Len(s) - i + 1
      /\ \A k \in 1..(Len(s) - i + 1) : b[k] = s[i + k - 1]
  <2>1. \A k \in i..Len(s) : s[k] \in S
    BY <1>1
  <2> QED BY <1>1, <2>1, SubSeqProperties
<1>4. /\ <<e>> \in Seq(S) /\ Len(<<e>>) = 1 /\ <<e>>[1] = e
  OBVIOUS
<1>5. /\ ae \in Seq(S)
      /\ Len(ae) = i
      /\ \A k \in 1..i : ae[k] = IF k < i THEN s[k] ELSE e
  <2> HIDE DEF a
  <2>1. /\ ae \in Seq(S)
        /\ Len(ae) = Len(a) + 1
        /\ \A k \in 1..(Len(a) + 1) :
             ae[k] = IF k <= Len(a) THEN a[k] ELSE <<e>>[k - Len(a)]
    BY <1>2, <1>4, ConcatProperties
  <2> QED BY <1>1, <1>2, <1>4, <2>1
<1>6. InsertAt(s, i, e) = ae \o b
  BY DEF InsertAt
<1> HIDE DEF a, b, ae
<1>7. /\ ae \o b \in Seq(S)
      /\ Len(ae \o b) = Len(ae) + Len(b)
      /\ \A k \in 1..(Len(ae) + Len(b)) :
           (ae \o b)[k] = IF k <= Len(ae) THEN ae[k] ELSE b[k - Len(ae)]
  BY <1>3, <1>5, ConcatProperties
<1> DEFINE r == ae \o b
<1>8. r \in Seq(S) /\ Len(r) = Len(s) + 1
  BY <1>1, <1>3, <1>5, <1>7
<1>9. \A k \in 1..(Len(s) + 1) :
        r[k] = IF k < i THEN s[k] ELSE IF k = i THEN e ELSE s[k - 1]
  <2> TAKE k \in 1..(Len(s) + 1)
  <2>1. CASE k <= i
    BY <1>1, <1>3, <1>5, <1>7, <2>1
  <2>2. CASE ~(k <= i)
    <3>1. r[k] = b[k - i] /\ k - i \in 1..(Len(s) - i + 1)
      BY <1>1, <1>3, <1>5, <1>7, <2>2
    <3>2. b[k - i] = s[i + (k - i) - 1]
      BY <1>3, <3>1
    <3> QED BY <1>1, <2>2, <3>1, <3>2
  <2> QED BY <1>1, <2>1, <2>2
<1>10. /\ \A k \in 1..(i - 1) : r[k] = s[k]
       /\ r[i] = e
       /\ \A k \in (i + 1)..(Len(s) + 1) : r[k] = s[k - 1]
  <2> HIDE DEF r
  <2> QED BY <1>1, <1>9
<1> QED BY <1>6, <1>8, <1>10

LEMMA RemoveEntries ==
  ASSUME NEW S, NEW s \in Seq(S), NEW i \in 1..Len(s)
  PROVE  /\ RemoveAt(s, i) \in Seq(S)
         /\ Len(RemoveAt(s, i)) = Len(s) - 1
         /\ \A k \in 1..(Len(s) - 1) :
              RemoveAt(s, i)[k] = IF k < i THEN s[k] ELSE s[k + 1]
<1> DEFINE a == SubSeq(s, 1, i - 1)
           b == SubSeq(s, i + 1, Len(s))
<1>1. Len(s) \in Nat /\ i \in Nat /\ i >= 1 /\ i <= Len(s)
  OBVIOUS
<1>2. /\ a \in Seq(S)
      /\ Len(a) = i - 1
      /\ \A k \in 1..(i - 1) : a[k] = s[k]
  <2>1. \A k \in 1..(i - 1) : s[k] \in S
    BY <1>1
  <2> QED BY <1>1, <2>1, SubSeqProperties
<1>3. /\ b \in Seq(S)
      /\ Len(b) = Len(s) - i
      /\ \A k \in 1..(Len(s) - i) : b[k] = s[i + k]
  <2>1. \A k \in (i + 1)..Len(s) : s[k] \in S
    BY <1>1
  <2> QED BY <1>1, <2>1, SubSeqProperties
<1> HIDE DEF a, b
<1>4. RemoveAt(s, i) = a \o b
  BY DEF RemoveAt, a, b
<1>5. /\ a \o b \in Seq(S)
      /\ Len(a \o b) = Len(a) + Len(b)
      /\ \A k \in 1..(Len(a) + Len(b)) :
           (a \o b)[k] = IF k <= Len(a) THEN a[k] ELSE b[k - Len(a)]
  BY <1>2, <1>3, ConcatProperties
<1> QED BY <1>1, <1>2, <1>3, <1>4, <1>5

(***************************************************************************)
(* What the invariants need: InsertedElements, RemovedElements and         *)
(* ReplacedElements bound the elements and keep injectivity.               *)
(***************************************************************************)
LEMMA InsertedElements ==
  ASSUME NEW S, NEW s \in Seq(S), NEW i \in 1..(Len(s) + 1), NEW e \in S,
         Injective(s), e \notin ToSet(s)
  PROVE  /\ Injective(InsertAt(s, i, e))
         /\ ToSet(InsertAt(s, i, e)) \subseteq ToSet(s) \cup {e}
<1> DEFINE r == InsertAt(s, i, e)
<1>1. /\ DOMAIN s = 1..Len(s) /\ Len(s) \in Nat
      /\ DOMAIN r = 1..(Len(s) + 1)
      /\ \A k \in 1..(Len(s) + 1) :
           r[k] = IF k < i THEN s[k] ELSE IF k = i THEN e ELSE s[k - 1]
  <2>1. /\ r \in Seq(S) /\ Len(r) = Len(s) + 1
        /\ \A k \in 1..(i - 1) : r[k] = s[k]
        /\ r[i] = e
        /\ \A k \in (i + 1)..(Len(s) + 1) : r[k] = s[k - 1]
    <3>1. r \in Seq(S) /\ Len(r) = Len(s) + 1
      BY InsertEntries
    <3>2. \A k \in 1..(i - 1) : r[k] = s[k]
      BY InsertEntries
    <3>3. r[i] = e
      BY InsertEntries
    <3>4. \A k \in (i + 1)..(Len(s) + 1) : r[k] = s[k - 1]
      BY InsertEntries
    <3> QED BY <3>1, <3>2, <3>3, <3>4
  <2> HIDE DEF r
  <2> QED BY <2>1
<1>2. \A k \in 1..Len(s) : s[k] # e
  BY <1>1 DEF ToSet
<1> HIDE DEF r
<1>3. \A k \in DOMAIN r : r[k] \in ToSet(s) \cup {e}
  BY <1>1 DEF ToSet
<1>4. \A j, k \in DOMAIN r : r[j] = r[k] => j = k
  BY <1>1, <1>2 DEF Injective
<1> QED BY <1>3, <1>4 DEF Injective, ToSet, r

LEMMA RemovedElements ==
  ASSUME NEW S, NEW s \in Seq(S), NEW i \in 1..Len(s), Injective(s)
  PROVE  /\ Injective(RemoveAt(s, i))
         /\ ToSet(RemoveAt(s, i)) \subseteq ToSet(s)
         /\ s[i] \notin ToSet(RemoveAt(s, i))
<1> DEFINE r == RemoveAt(s, i)
<1>1. /\ DOMAIN s = 1..Len(s) /\ Len(s) \in Nat
      /\ DOMAIN r = 1..(Len(s) - 1)
      /\ \A k \in 1..(Len(s) - 1) : r[k] = IF k < i THEN s[k] ELSE s[k + 1]
  <2>1. /\ r \in Seq(S) /\ Len(r) = Len(s) - 1
        /\ \A k \in 1..(Len(s) - 1) : r[k] = IF k < i THEN s[k] ELSE s[k + 1]
    BY RemoveEntries
  <2> HIDE DEF r
  <2> QED BY <2>1
<1> HIDE DEF r
<1>2. \A k \in DOMAIN r : r[k] \in ToSet(s) /\ r[k] # s[i]
  BY <1>1 DEF ToSet, Injective
<1>3. \A j, k \in DOMAIN r : r[j] = r[k] => j = k
  <2> DEFINE at(k) == IF k < i THEN k ELSE k + 1
  <2>1. \A k \in DOMAIN r : at(k) \in DOMAIN s /\ r[k] = s[at(k)]
    BY <1>1
  <2>2. \A j, k \in DOMAIN r : at(j) = at(k) => j = k
    BY <1>1
  <2> HIDE DEF at
  <2> QED BY <2>1, <2>2 DEF Injective
<1> QED BY <1>2, <1>3 DEF Injective, ToSet, r

LEMMA ReplacedElements ==
  ASSUME NEW S, NEW s \in Seq(S), NEW i \in 1..Len(s), NEW e \in S,
         Injective(s), e \notin ToSet(s)
  PROVE  /\ ReplaceAt(s, i, e) \in Seq(S)
         /\ Len(ReplaceAt(s, i, e)) = Len(s)
         /\ Injective(ReplaceAt(s, i, e))
         /\ ToSet(ReplaceAt(s, i, e)) \subseteq ToSet(s) \cup {e}
<1>1. /\ ReplaceAt(s, i, e) = [s EXCEPT ![i] = e]
      /\ DOMAIN s = 1..Len(s)
  BY DEF ReplaceAt
<1>2. \A k \in 1..Len(s) : s[k] # e
  BY <1>1 DEF ToSet
<1>3. [s EXCEPT ![i] = e] \in Seq(S) /\ Len([s EXCEPT ![i] = e]) = Len(s)
  BY ExceptSeq
<1> QED BY <1>1, <1>2, <1>3 DEF Injective, ToSet

-----------------------------------------------------------------------------
(***************************************************************************)
(* The inductive invariant.                                                *)
(***************************************************************************)
IInv == TypeOK /\ SelectedInRange /\ Isolated /\ FitsTopology

USE HealthAssumption, RuntimeAssumption

LEMMA CompiledLayerType ==
  ASSUME NEW c \in BOOLEAN, NEW v \in BOOLEAN, NEW t \in Topology
  PROVE  CompiledLayer(c, v, t) \in Layer /\ CompiledLayer(c, v, t).topology = t
BY DEF CompiledLayer, Layer, Samples

LEMMA WindowType ==
  ASSUME NEW samples \in Samples, NEW slow \in BOOLEAN
  PROVE  Window(samples, slow) \in Samples
<1>1. CASE Len(samples) < PerfWindow
  BY <1>1 DEF Window, Samples
<1>2. CASE ~(Len(samples) < PerfWindow)
  <2>1. /\ samples \in Seq(BOOLEAN) /\ Len(samples) = PerfWindow
        /\ samples # << >>
    BY <1>2 DEF Samples
  <2>2. Tail(samples) \in Seq(BOOLEAN) /\ Len(Tail(samples)) = PerfWindow - 1
    BY <2>1
  <2> QED BY <1>2, <2>2 DEF Window, Samples
<1> QED BY <1>1, <1>2

LEMMA TimedType ==
  ASSUME NEW l \in Layer, NEW slow \in BOOLEAN
  PROVE  /\ Timed(l, slow) \in Layer
         /\ Timed(l, slow).topology = l.topology
<1> DEFINE window == Window(l.samples, slow)
           over == IF P95OverBudget(window)
                   THEN AtMost(l.over + 1, BudgetTrip) ELSE 0
<1>1. window \in Samples
  BY WindowType DEF Layer
<1>2. over \in 0..BudgetTrip
  BY DEF AtMost, Layer
<1>3. Timed(l, slow) = [l EXCEPT !.samples = window, !.over = over]
  BY DEF Timed
<1> HIDE DEF window, over
<1> QED BY <1>1, <1>2, <1>3 DEF Layer

LEMMA StrikeType ==
  ASSUME NEW l \in Layer
  PROVE  Strike(l) \in Layer /\ Strike(l).topology = l.topology
<1> DEFINE strikes == AtMost(l.failures + 1, FailLimit)
           enabled == l.enabled /\ strikes < FailLimit
<1>1. strikes \in 0..FailLimit
  BY DEF AtMost, Layer
<1>2. enabled \in BOOLEAN
  OBVIOUS
<1>3. Strike(l) = [l EXCEPT !.failures = strikes, !.enabled = enabled]
  BY DEF Strike, StrikeOnly
<1> HIDE DEF strikes, enabled
<1> QED BY <1>1, <1>2, <1>3 DEF Layer

(***************************************************************************)
(* A render call keeps a layer's type and its topology.                    *)
(***************************************************************************)
LEMMA RenderLayerType ==
  ASSUME NEW l \in Layer, NEW o
  PROVE  /\ RenderLayer(l, o) \in Layer
         /\ RenderLayer(l, o).topology = l.topology
<1> DEFINE timed == Timed(l, OverBudget(o))
<1>1. timed \in Layer /\ timed.topology = l.topology
  <2>1. OverBudget(o) \in BOOLEAN
    BY DEF OverBudget
  <2> QED BY <2>1, TimedType
<1>2. /\ Strike(l) \in Layer /\ Strike(l).topology = l.topology
      /\ Strike(timed) \in Layer /\ Strike(timed).topology = l.topology
  BY <1>1, StrikeType
<1>3. /\ [timed EXCEPT !.enabled = FALSE] \in Layer
      /\ [timed EXCEPT !.enabled = FALSE].topology = l.topology
      /\ [timed EXCEPT !.failures = 0] \in Layer
      /\ [timed EXCEPT !.failures = 0].topology = l.topology
  <2> HIDE DEF timed
  <2>1. FALSE \in BOOLEAN /\ 0 \in 0..FailLimit
    OBVIOUS
  <2> QED BY <1>1, <2>1 DEF Layer
<1>4. RenderLayer(l, o) \in {l, Strike(l), [timed EXCEPT !.enabled = FALSE],
                            Strike(timed), [timed EXCEPT !.failures = 0]}
  BY DEF RenderLayer
<1> HIDE DEF timed
<1> QED BY <1>1, <1>2, <1>3, <1>4

(***************************************************************************)
(* Allocation: fresh identities are distinct and not reachable.            *)
(***************************************************************************)
LEMMA FreshIdsUnused ==
  ASSUME NEW n \in Nat, NEW s \in FreshIds(n)
  PROVE  /\ s \in Seq(LayerId) /\ Len(s) = n /\ Injective(s)
         /\ ToSet(s) \cap Reachable = {}
<1>1. /\ s \in [1..n -> LayerId \ Reachable]
      /\ \A i, j \in 1..n : i < j => s[i] < s[j]
  BY DEF FreshIds
<1>2. s \in Seq(LayerId) /\ Len(s) = n /\ DOMAIN s = 1..n
  BY <1>1
<1>3. Injective(s)
  <2> SUFFICES ASSUME NEW i \in 1..n, NEW j \in 1..n, s[i] = s[j], i # j
               PROVE  FALSE
    BY <1>2 DEF Injective
  <2>1. s[i] \in Nat /\ s[j] \in Nat
    BY <1>1
  <2> QED BY <1>1, <2>1
<1> QED BY <1>1, <1>2, <1>3 DEF ToSet

LEMMA FreshIdUnused ==
  ASSUME NEW new \in FreshIds(1)
  PROVE  /\ new \in Seq(LayerId) /\ Len(new) = 1 /\ Injective(new)
         /\ ToSet(new) = {new[1]} /\ new[1] \in LayerId
         /\ new[1] \notin Reachable
<1>1. /\ new \in Seq(LayerId) /\ Len(new) = 1 /\ Injective(new)
      /\ ToSet(new) \cap Reachable = {}
  BY FreshIdsUnused
<1>2. ToSet(new) = {new[1]} /\ new[1] \in LayerId
  BY <1>1 DEF ToSet
<1> QED BY <1>1, <1>2

(***************************************************************************)
(* Collecting the garbage of well-typed objects that fit the topology in   *)
(* force after the step.                                                   *)
(***************************************************************************)
LEMMA CollectKeeps ==
  ASSUME NEW h, Collect(h),
         \A id \in Reachable' \cap LayerId :
           h[id] \in Layer /\ h[id].topology = topology',
         Reachable' \subseteq LayerId
  PROVE  heap' \in [LayerId -> Layer] /\ FitsTopology'
<1>1. Collected \in Layer
  BY DEF Collected, Layer, Samples
<1>2. heap' = [id \in LayerId |-> IF id \in Reachable' THEN h[id] ELSE Collected]
  BY DEF Collect
<1>3. heap' \in [LayerId -> Layer]
  BY <1>1, <1>2
<1>4. \A id \in Reachable' : heap'[id].topology = topology'
  BY <1>2
<1> QED BY <1>3, <1>4 DEF FitsTopology

LEMMA ReachableTyped ==
  ASSUME TypeOK
  PROVE  /\ Reachable \subseteq LayerId
         /\ \A slot \in Slot : /\ Layers(slot) \in Seq(LayerId)
                              /\ comp[slot].selected \in Nat
                              /\ Ids(slot) \subseteq LayerId
                              /\ Ids(slot) \subseteq Reachable
         /\ ToSet(cf.previous) \subseteq Reachable
<1>1. \A slot \in Slot : /\ Layers(slot) \in Seq(LayerId)
                       /\ comp[slot].selected \in Nat
  BY DEF TypeOK, Composition, Layers
<1>2. cf.previous \in Seq(LayerId)
  BY DEF TypeOK
<1>3. ASSUME NEW q \in Seq(LayerId) PROVE ToSet(q) \subseteq LayerId
  BY DEF ToSet
<1>4. \A slot \in Slot : Ids(slot) \subseteq LayerId
  BY <1>1, <1>3 DEF Ids
<1>5. ToSet(cf.previous) \subseteq LayerId
  BY <1>2, <1>3
<1> QED BY <1>1, <1>4, <1>5 DEF Reachable, Slot

(***************************************************************************)
(* An edit of one slot that takes its layers from the slot and from unused *)
(* identities, and fades the live leg from the old layers.                 *)
(***************************************************************************)
LEMMA EditKeeps ==
  ASSUME TypeOK, SelectedInRange, Isolated,
         NEW slot \in Slot, NEW new \in Seq(LayerId), NEW selected \in Nat,
         NEW unused, unused \cap Reachable = {},
         Injective(new), ToSet(new) \subseteq Ids(slot) \cup unused,
         selected < Len(new) \/ (new = << >> /\ selected = 0),
         comp' = [comp EXCEPT ![slot] = [layers |-> new, selected |-> selected]],
         FadeIfLive(slot)
  PROVE  /\ comp' \in [Slot -> Composition]
         /\ cf' \in [previous : Seq(LayerId), duration : Nat,
                     age : Nat \cup {Unstamped}]
         /\ SelectedInRange' /\ Isolated'
         /\ Reachable' \subseteq Reachable \cup ToSet(new)
         /\ Reachable' \subseteq LayerId
<1> USE DEF Slot
<1>1. comp' \in [Slot -> Composition]
  BY DEF TypeOK, Composition
<1>2. /\ Layers(slot)' = new /\ comp'[slot].selected = selected
      /\ \A other \in Slot : other # slot => comp'[other] = comp[other]
  BY DEF TypeOK, Layers
<1>3. cf' = cf \/ cf' = NoCrossfade
      \/ /\ slot = "live"
         /\ cf' = [previous |-> Layers("live"), duration |-> crossfadeSeconds,
                   age |-> Unstamped]
  BY DEF FadeIfLive, CrossfadeFrom
<1>4. crossfadeSeconds \in Nat /\ Layers("live") \in Seq(LayerId)
  BY ReachableTyped DEF TypeOK
<1>5. cf' \in [previous : Seq(LayerId), duration : Nat, age : Nat \cup {Unstamped}]
  <2>1. CASE cf' = cf
    BY <2>1 DEF TypeOK
  <2>2. CASE cf' = NoCrossfade
    BY <2>2 DEF NoCrossfade
  <2>3. CASE cf' = [previous |-> Layers("live"), duration |-> crossfadeSeconds,
                    age |-> Unstamped]
    BY <2>3, <1>4
  <2> QED BY <1>3, <2>1, <2>2, <2>3
<1>6. SelectedInRange'
  <2> SUFFICES ASSUME NEW any \in Slot
               PROVE  \/ comp'[any].selected < Len(Layers(any)')
                      \/ comp'[any] = EmptyStack
    BY DEF SelectedInRange, EmptyStack
  <2>1. CASE any = slot
    BY <1>2, <2>1 DEF TypeOK, Layers, EmptyStack
  <2>2. CASE any # slot
    BY <1>2, <2>2 DEF SelectedInRange, Layers
  <2> QED BY <2>1, <2>2
<1>7. /\ cf'.previous \in {cf.previous, << >>, Layers("live")}
      /\ slot = "preview" => cf'.previous \in {cf.previous, << >>}
  BY <1>3 DEF NoCrossfade
<1>8. /\ \A any \in Slot : Injective(Layers(any)')
      /\ Injective(cf'.previous)
  <2>1. \A any \in Slot : Injective(Layers(any)')
    BY <1>2 DEF Isolated, Layers
  <2>2. Injective(<< >>)
    BY DEF Injective
  <2> QED BY <1>7, <2>1, <2>2 DEF Isolated
<1>9. /\ ToSet(<< >>) = {}
      /\ Ids("preview") \subseteq Reachable /\ Ids("live") \subseteq Reachable
      /\ ToSet(cf.previous) \subseteq Reachable
      /\ Ids("preview") \cap (Ids("live") \cup ToSet(cf.previous)) = {}
  BY DEF Reachable, Ids, ToSet, Isolated
<1>10. /\ Ids(slot)' = ToSet(new)
       /\ \A other \in Slot : other # slot => Ids(other)' = Ids(other)
       /\ ToSet(cf'.previous) \in {ToSet(cf.previous), {}, Ids("live")}
       /\ slot = "preview" => ToSet(cf'.previous) \in {ToSet(cf.previous), {}}
  BY <1>2, <1>7, <1>9 DEF Ids, Layers
<1>11. Ids("preview")' \cap (Ids("live")' \cup ToSet(cf'.previous)) = {}
  <2>1. CASE slot = "live"
    BY <1>9, <1>10, <2>1
  <2>2. CASE slot = "preview"
    BY <1>9, <1>10, <2>2
  <2> QED BY <2>1, <2>2
<1>12. Isolated'
  BY <1>8, <1>11 DEF Isolated
<1>13. Reachable' \subseteq Reachable \cup ToSet(new)
  BY <1>9, <1>10 DEF Reachable
<1>14. Reachable' \subseteq LayerId
  <2>1. ToSet(new) \subseteq LayerId
    BY DEF ToSet
  <2> QED BY <1>13, <2>1, ReachableTyped
<1> QED BY <1>1, <1>5, <1>6, <1>12, <1>13, <1>14

-----------------------------------------------------------------------------
(***************************************************************************)
(* One lemma per operation: it preserves the invariant.                    *)
(***************************************************************************)
Rest == /\ crossfadeSeconds' \in Durations
        /\ mode' \in {"design", "live"}
        /\ previewTick' \in {0, 1}
        /\ dtAccum' \in 0..MaxAccum
        /\ topology' \in Topology

LEMMA RestUnchanged ==
  ASSUME TypeOK, UNCHANGED <<settings, frameState>>
  PROVE  Rest /\ topology' = topology
BY DEF TypeOK, Rest, settings, frameState

(***************************************************************************)
(* The edits of a stack come in two kinds: those that install one compiled *)
(* layer, and those that only rearrange what is there.                     *)
(***************************************************************************)
Installing(slot, new, layers, selected, copyable, visible) ==
  /\ Injective(layers) /\ ToSet(layers) \subseteq Ids(slot) \cup {new[1]}
  /\ selected < Len(layers)
  /\ comp' = [comp EXCEPT ![slot] = [layers |-> layers, selected |-> selected]]
  /\ FadeIfLive(slot)
  /\ Collect([heap EXCEPT ![new[1]] = CompiledLayer(copyable, visible, topology)])
  /\ UNCHANGED <<settings, frameState>>

Installs(slot) ==
  \E new \in FreshIds(1), layers \in Seq(LayerId), selected \in Nat,
     copyable \in BOOLEAN, visible \in BOOLEAN :
    Installing(slot, new, layers, selected, copyable, visible)

Rearranging(slot, layers, selected) ==
  /\ Injective(layers) /\ ToSet(layers) \subseteq Ids(slot)
  /\ selected < Len(layers) \/ (layers = << >> /\ selected = 0)
  /\ comp' = [comp EXCEPT ![slot] = [layers |-> layers, selected |-> selected]]
  /\ FadeIfLive(slot)
  /\ Collect(heap)
  /\ UNCHANGED <<settings, frameState>>

Rearranges(slot) ==
  \E layers \in Seq(LayerId), selected \in Nat : Rearranging(slot, layers, selected)

(***************************************************************************)
(* Installing one compiled layer, whichever sequence it ends up in.        *)
(***************************************************************************)
LEMMA InstallKeeps ==
  ASSUME IInv, NEW slot \in Slot, Installs(slot)
  PROVE  IInv'
<1>0. PICK new \in FreshIds(1), layers \in Seq(LayerId), selected \in Nat,
           copyable \in BOOLEAN, visible \in BOOLEAN :
        Installing(slot, new, layers, selected, copyable, visible)
  BY DEF Installs
<1> USE <1>0 DEF Installing
<1>1. /\ new[1] \in LayerId /\ new[1] \notin Reachable
  BY FreshIdUnused
<1>2. /\ comp' \in [Slot -> Composition]
      /\ cf' \in [previous : Seq(LayerId), duration : Nat,
                  age : Nat \cup {Unstamped}]
      /\ SelectedInRange' /\ Isolated'
      /\ Reachable' \subseteq Reachable \cup ToSet(layers)
      /\ Reachable' \subseteq LayerId
  <2>1. {new[1]} \cap Reachable = {}
    BY <1>1
  <2> QED BY <2>1, EditKeeps DEF IInv
<1>3. Reachable' \subseteq Reachable \cup {new[1]}
  BY <1>2, ReachableTyped DEF IInv
<1>4. Rest /\ topology' = topology
  BY RestUnchanged DEF IInv
<1> DEFINE made == CompiledLayer(copyable, visible, topology)
           h == [heap EXCEPT ![new[1]] = made]
<1>5. made \in Layer /\ made.topology = topology
  BY CompiledLayerType DEF IInv, TypeOK
<1>6. \A id \in Reachable' : h[id] \in Layer /\ h[id].topology = topology'
  <2> HIDE DEF made
  <2> QED BY <1>1, <1>2, <1>3, <1>4, <1>5 DEF IInv, TypeOK, FitsTopology
<1>7. heap' \in [LayerId -> Layer] /\ FitsTopology'
  <2> HIDE DEF h
  <2>1. Collect(h)  BY DEF h
  <2> QED BY <1>2, <1>6, <2>1, CollectKeeps
<1> QED BY <1>2, <1>4, <1>7 DEF IInv, TypeOK, Rest

LEMMA ReplaceLayerInstalls ==
  ASSUME IInv, NEW slot \in Slot, NEW index \in Nat, NEW copyable \in BOOLEAN,
         NEW visible \in BOOLEAN, ReplaceLayer(slot, index, copyable, visible)
  PROVE  Installs(slot)
<1> DEFINE old == Layers(slot)
           target == Clamp(index, Len(old))
<1>1. PICK new \in FreshIds(1) :
        /\ comp' = [comp EXCEPT ![slot] =
              [layers   |-> IF old = << >> THEN <<new[1]>>
                            ELSE ReplaceAt(old, target + 1, new[1]),
               selected |-> target]]
        /\ FadeIfLive(slot)
        /\ Collect([heap EXCEPT ![new[1]] =
                      CompiledLayer(copyable, visible, topology)])
        /\ UNCHANGED <<settings, frameState>>
  BY DEF ReplaceLayer, Replacing, Layers
<1>2. /\ new \in Seq(LayerId) /\ Len(new) = 1 /\ Injective(new)
      /\ ToSet(new) = {new[1]} /\ new[1] \in LayerId
      /\ new[1] \notin Reachable /\ <<new[1]>> = new
  BY FreshIdUnused
<1>3. old \in Seq(LayerId) /\ Injective(old) /\ new[1] \notin ToSet(old)
  BY <1>2, ReachableTyped DEF IInv, Isolated, Ids
<1>4. CASE old = << >>
  <2>1. target = 0
    BY <1>4 DEF Clamp
  <2>2. comp' = [comp EXCEPT ![slot] = [layers |-> new, selected |-> 0]]
    <3> HIDE DEF old, target
    <3> QED BY <1>1, <1>2, <1>4, <2>1
  <2>3. 0 < Len(new) /\ ToSet(new) \subseteq Ids(slot) \cup {new[1]}
    BY <1>2
  <2> QED BY <1>1, <1>2, <2>2, <2>3 DEF Installs, Installing
<1>5. CASE old # << >>
  <2>1. /\ Len(old) \in Nat /\ Len(old) > 0
        /\ target \in Nat /\ target < Len(old) /\ target + 1 \in 1..Len(old)
    BY <1>3, <1>5 DEF Clamp
  <2> DEFINE layers == ReplaceAt(old, target + 1, new[1])
  <2> HIDE DEF target
  <2>2. /\ layers \in Seq(LayerId) /\ Len(layers) = Len(old) /\ Injective(layers)
        /\ ToSet(layers) \subseteq ToSet(old) \cup {new[1]}
    BY <1>2, <1>3, <2>1, ReplacedElements
  <2> HIDE DEF layers
  <2>3. comp' = [comp EXCEPT ![slot] = [layers |-> layers, selected |-> target]]
    BY <1>1, <1>5 DEF layers
  <2> QED BY <1>1, <2>1, <2>2, <2>3 DEF Installs, Installing, Ids
<1> QED BY <1>4, <1>5

LEMMA InsertLayerInstalls ==
  ASSUME IInv, NEW slot \in Slot, NEW index \in Nat, NEW copyable \in BOOLEAN,
         NEW visible \in BOOLEAN, InsertLayer(slot, index, copyable, visible)
  PROVE  Installs(slot)
<1> DEFINE old == Layers(slot)
           at == Clamp(index, Len(old) + 1)
<1>1. PICK new \in FreshIds(1) :
        /\ comp' = [comp EXCEPT ![slot] =
              [layers   |-> InsertAt(old, at + 1, new[1]),
               selected |-> at]]
        /\ FadeIfLive(slot)
        /\ Collect([heap EXCEPT ![new[1]] =
                      CompiledLayer(copyable, visible, topology)])
        /\ UNCHANGED <<settings, frameState>>
  BY DEF InsertLayer, Inserting, Layers
<1>2. /\ new \in Seq(LayerId) /\ Len(new) = 1
      /\ new[1] \in LayerId /\ new[1] \notin Reachable
  BY FreshIdUnused
<1>3. old \in Seq(LayerId) /\ Injective(old) /\ new[1] \notin ToSet(old)
  BY <1>2, ReachableTyped DEF IInv, Isolated, Ids
<1>4. /\ Len(old) \in Nat
      /\ at \in Nat /\ at <= Len(old) /\ at + 1 \in 1..(Len(old) + 1)
  BY <1>3 DEF Clamp
<1> DEFINE layers == InsertAt(old, at + 1, new[1])
<1> HIDE DEF at
<1>5. /\ layers \in Seq(LayerId) /\ Len(layers) = Len(old) + 1
      /\ Injective(layers) /\ ToSet(layers) \subseteq ToSet(old) \cup {new[1]}
  <2>1. layers \in Seq(LayerId) /\ Len(layers) = Len(old) + 1
    <3> DEFINE i == at + 1
               e == new[1]
    <3>1. old \in Seq(LayerId) /\ i \in 1..(Len(old) + 1) /\ e \in LayerId
      BY <1>2, <1>3, <1>4
    <3> HIDE DEF old, i, e
    <3>2. InsertAt(old, i, e) \in Seq(LayerId)
          /\ Len(InsertAt(old, i, e)) = Len(old) + 1
      BY <3>1, InsertEntries
    <3> QED BY <3>2 DEF i, e
  <2>2. Injective(layers) /\ ToSet(layers) \subseteq ToSet(old) \cup {new[1]}
    BY <1>2, <1>3, <1>4, InsertedElements
  <2> QED BY <2>1, <2>2
<1> HIDE DEF layers
<1>6. comp' = [comp EXCEPT ![slot] = [layers |-> layers, selected |-> at]]
  BY <1>1 DEF layers
<1>7. at < Len(layers) /\ ToSet(layers) \subseteq Ids(slot) \cup {new[1]}
  BY <1>4, <1>5 DEF Ids
<1> QED BY <1>1, <1>4, <1>5, <1>6, <1>7 DEF Installs, Installing

(***************************************************************************)
(* An edit that creates no layer: removal and reordering.                  *)
(***************************************************************************)
LEMMA RearrangeKeeps ==
  ASSUME IInv, NEW slot \in Slot, Rearranges(slot)
  PROVE  IInv'
<1>0. PICK layers \in Seq(LayerId), selected \in Nat :
        Rearranging(slot, layers, selected)
  BY DEF Rearranges
<1> USE <1>0 DEF Rearranging
<1>1. /\ comp' \in [Slot -> Composition]
      /\ cf' \in [previous : Seq(LayerId), duration : Nat,
                  age : Nat \cup {Unstamped}]
      /\ SelectedInRange' /\ Isolated'
      /\ Reachable' \subseteq Reachable \cup ToSet(layers)
      /\ Reachable' \subseteq LayerId
  <2>1. {} \cap Reachable = {} /\ ToSet(layers) \subseteq Ids(slot) \cup {}
    OBVIOUS
  <2> QED BY <2>1, EditKeeps DEF IInv
<1>2. Reachable' \subseteq Reachable
  BY <1>1, ReachableTyped DEF IInv
<1>3. Rest /\ topology' = topology
  BY RestUnchanged DEF IInv
<1>4. \A id \in Reachable' : heap[id] \in Layer /\ heap[id].topology = topology'
  BY <1>1, <1>2, <1>3 DEF IInv, TypeOK, FitsTopology
<1>5. heap' \in [LayerId -> Layer] /\ FitsTopology'
  BY <1>1, <1>4, CollectKeeps
<1> QED BY <1>1, <1>3, <1>5 DEF IInv, TypeOK, Rest

LEMMA RemoveLayerRearranges ==
  ASSUME IInv, NEW slot \in Slot, NEW index \in Nat, RemoveLayer(slot, index)
  PROVE  Rearranges(slot)
<1> DEFINE old == Layers(slot)
           left == RemoveAt(old, index + 1)
           selected == Reselect(comp[slot].selected, Len(left))
<1>1. /\ index < Len(old)
      /\ comp' = [comp EXCEPT ![slot] = [layers |-> left, selected |-> selected]]
      /\ FadeIfLive(slot)
      /\ Collect(heap)
      /\ UNCHANGED <<settings, frameState>>
  BY DEF RemoveLayer, Removing, Layers
<1>2. old \in Seq(LayerId) /\ Injective(old) /\ comp[slot].selected \in Nat
  BY ReachableTyped DEF IInv, Isolated
<1>3. index + 1 \in 1..Len(old)
  BY <1>1, <1>2
<1>4. left \in Seq(LayerId) /\ Len(left) = Len(old) - 1
  BY <1>2, <1>3, RemoveEntries
<1>5. Injective(left) /\ ToSet(left) \subseteq Ids(slot)
  BY <1>2, <1>3, RemovedElements DEF Ids
<1> HIDE DEF left
<1>6. /\ selected \in Nat
      /\ selected < Len(left) \/ (left = << >> /\ selected = 0)
  <2>1. Len(left) \in Nat /\ (Len(left) = 0 => left = << >>)
    BY <1>4
  <2> QED BY <1>2, <2>1 DEF Reselect, Clamp
<1> QED BY <1>1, <1>4, <1>5, <1>6 DEF Rearranges, Rearranging

LEMMA ReorderLayerRearranges ==
  ASSUME IInv, NEW slot \in Slot, NEW src \in Nat, NEW dst \in Nat,
         ReorderLayer(slot, src, dst)
  PROVE  Rearranges(slot)
<1> DEFINE old == Layers(slot)
           moved == old[src + 1]
           rest == RemoveAt(old, src + 1)
           layers == InsertAt(rest, dst + 1, moved)
<1>1. /\ src < Len(old) /\ dst < Len(old)
      /\ comp' = [comp EXCEPT ![slot] = [layers |-> layers, selected |-> dst]]
      /\ FadeIfLive(slot)
      /\ Collect(heap)
      /\ UNCHANGED <<settings, frameState>>
  BY DEF ReorderLayer, Reordering, Layers
<1>2. /\ old \in Seq(LayerId) /\ Injective(old)
      /\ src + 1 \in 1..Len(old) /\ Len(old) \in Nat
  BY <1>1, ReachableTyped DEF IInv, Isolated
<1>3. moved \in LayerId /\ moved \in ToSet(old)
  BY <1>2 DEF ToSet
<1>4. rest \in Seq(LayerId) /\ Len(rest) = Len(old) - 1
  BY <1>2, RemoveEntries
<1>5. Injective(rest) /\ ToSet(rest) \subseteq ToSet(old) /\ moved \notin ToSet(rest)
  BY <1>2, RemovedElements
<1>6. dst + 1 \in 1..(Len(rest) + 1)
  BY <1>1, <1>2, <1>4
<1> HIDE DEF moved, rest
<1>7. layers \in Seq(LayerId) /\ Len(layers) = Len(rest) + 1
  BY <1>3, <1>4, <1>6, InsertEntries
<1>8. Injective(layers) /\ ToSet(layers) \subseteq ToSet(rest) \cup {moved}
  BY <1>3, <1>4, <1>5, <1>6, InsertedElements
<1> HIDE DEF layers
<1>9. dst < Len(layers) /\ ToSet(layers) \subseteq Ids(slot)
  BY <1>1, <1>2, <1>3, <1>4, <1>5, <1>7, <1>8 DEF Ids
<1> QED BY <1>1, <1>7, <1>8, <1>9 DEF Rearranges, Rearranging

LEMMA PatchLayerMetaKeeps ==
  ASSUME IInv, NEW slot \in Slot, NEW index \in Nat, NEW visible \in BOOLEAN,
         NEW enabled \in BOOLEAN, PatchLayerMeta(slot, index, visible, enabled)
  PROVE  IInv'
<1> DEFINE id == Layers(slot)[index + 1]
<1>1. /\ heap' = [heap EXCEPT ![id].visible = visible, ![id].enabled = enabled]
      /\ UNCHANGED <<comp, cf, settings, frameState>>
  BY DEF PatchLayerMeta
<1>2. Rest /\ topology' = topology
  BY <1>1, RestUnchanged DEF IInv
<1>3. /\ heap' \in [LayerId -> Layer]
      /\ \A any \in LayerId : heap'[any].topology = heap[any].topology
  <2> DEFINE patched == [heap[id] EXCEPT !.visible = visible, !.enabled = enabled]
  <2>1. id \in LayerId
    BY ReachableTyped DEF IInv, PatchLayerMeta
  <2>2. heap \in [LayerId -> Layer]
    BY DEF IInv, TypeOK
  <2> HIDE DEF id
  <2>3. patched \in Layer /\ patched.topology = heap[id].topology
    BY <2>1, <2>2 DEF Layer
  <2>4. heap' = [heap EXCEPT ![id] = patched]
    BY <1>1, <2>1, <2>2
  <2> HIDE DEF patched
  <2> QED BY <2>1, <2>2, <2>3, <2>4
<1>4. Reachable' = Reachable /\ SelectedInRange' /\ Isolated'
  BY <1>1 DEF IInv, Reachable, SelectedInRange, Isolated, Ids, Layers
<1>5. FitsTopology'
  BY <1>2, <1>3, <1>4, ReachableTyped DEF IInv, FitsTopology
<1> QED BY <1>1, <1>2, <1>3, <1>4, <1>5 DEF IInv, TypeOK, Rest

LEMMA SelectLayerKeeps ==
  ASSUME IInv, NEW slot \in Slot, NEW index \in Nat, SelectLayer(slot, index)
  PROVE  IInv'
<1> DEFINE n == Len(Layers(slot))
<1>1. /\ comp' = [comp EXCEPT ![slot] =
                     [comp[slot] EXCEPT !.selected = Clamp(index, n)]]
      /\ UNCHANGED <<heap, cf, settings, frameState>>
  BY DEF SelectLayer, Selecting, Layers
<1>2. /\ Layers(slot) \in Seq(LayerId) /\ n \in Nat
      /\ n = 0 => Layers(slot) = << >>
  BY ReachableTyped DEF IInv
<1>3. /\ Clamp(index, n) \in Nat
      /\ Clamp(index, n) < n \/ (Layers(slot) = << >> /\ Clamp(index, n) = 0)
  BY <1>2 DEF Clamp
<1> DEFINE selected == Clamp(index, n)
<1> HIDE DEF n, selected
<1>4. comp' \in [Slot -> Composition] /\ comp'[slot].selected = selected
  BY <1>1, <1>3 DEF IInv, TypeOK, Composition, selected
<1>5. \A any \in Slot : comp'[any].layers = comp[any].layers
  BY <1>1 DEF IInv, TypeOK, Composition, selected
<1>6. \A any \in Slot : any # slot => comp'[any] = comp[any]
  BY <1>1 DEF IInv, TypeOK
<1>7. SelectedInRange'
  <2> SUFFICES ASSUME NEW any \in Slot
               PROVE  \/ comp'[any].selected < Len(Layers(any)')
                      \/ comp'[any] = EmptyStack
    BY DEF SelectedInRange, EmptyStack
  <2>1. CASE any = slot
    <3>1. comp'[slot].layers = Layers(slot) /\ comp'[slot] \in Composition
      BY <1>4, <1>5 DEF Layers
    <3> QED BY <1>3, <1>4, <2>1, <3>1 DEF EmptyStack, Layers, Composition, n, selected
  <2>2. CASE any # slot
    BY <1>6, <2>2 DEF IInv, SelectedInRange, Layers
  <2> QED BY <2>1, <2>2
<1>8. Reachable' = Reachable /\ Isolated'
  <2>1. \A any \in Slot : comp'[any].layers = comp[any].layers
    BY <1>5
  <2>2. cf' = cf
    BY <1>1
  <2> QED BY <2>1, <2>2 DEF IInv, Reachable, Isolated, Ids, Slot, Layers
<1>9. Rest /\ topology' = topology
  BY <1>1, RestUnchanged DEF IInv
<1>10. FitsTopology'
  BY <1>1, <1>8, <1>9 DEF IInv, FitsTopology
<1> QED BY <1>1, <1>4, <1>7, <1>8, <1>9, <1>10 DEF IInv, TypeOK, Rest

(***************************************************************************)
(* Promote and pull: the clones are fresh objects with the source's        *)
(* topology, and the source's selection fits their number.                 *)
(***************************************************************************)
LEMMA CloneLayerType ==
  ASSUME NEW l \in Layer, topology \in Topology, l.topology = topology
  PROVE  CloneLayer(l) \in Layer /\ CloneLayer(l).topology = topology
<1>1. CASE l.copyable
  <2>1. /\ << >> \in Samples /\ 0 \in 0..FailLimit /\ 0 \in 0..BudgetTrip
    BY DEF Samples
  <2> QED BY <1>1, <2>1 DEF CloneLayer, Layer
<1>2. CASE ~l.copyable
  <2>1. l.copyable \in BOOLEAN /\ l.visible \in BOOLEAN
    BY DEF Layer
  <2>2. CloneLayer(l) = CompiledLayer(l.copyable, l.visible, topology)
    BY <1>2 DEF CloneLayer, RecompiledLayer
  <2> QED BY <2>1, <2>2, CompiledLayerType
<1> QED BY <1>1, <1>2

LEMMA CloneKeeps ==
  ASSUME IInv, NEW from \in Slot, NEW to \in Slot,
         NEW clones \in FreshIds(Len(Layers(from))), CloneInto(from, to, clones)
  PROVE  IInv'
<1> DEFINE n == Len(Layers(from))
           selected == comp[from].selected
           source(id) == Layers(from)[CHOOSE i \in DOMAIN clones : clones[i] = id]
           copied(id) == \E i \in DOMAIN clones : clones[i] = id
           h == [id \in LayerId |-> IF copied(id) THEN CloneLayer(heap[source(id)])
                                   ELSE heap[id]]
<1>1. /\ comp' = [comp EXCEPT ![to] = [layers |-> clones, selected |-> selected]]
      /\ FadeIfLive(to)
      /\ Collect(h)
      /\ UNCHANGED <<settings, frameState>>
  BY DEF CloneInto
<1>2. /\ Layers(from) \in Seq(LayerId) /\ n \in Nat /\ selected \in Nat
      /\ Ids(from) \subseteq Reachable
  BY ReachableTyped DEF IInv
<1>3. /\ clones \in Seq(LayerId) /\ Len(clones) = n /\ Injective(clones)
      /\ ToSet(clones) \cap Reachable = {}
  BY <1>2, FreshIdsUnused
<1>4. selected < Len(clones) \/ (clones = << >> /\ selected = 0)
  BY <1>2, <1>3 DEF IInv, SelectedInRange, EmptyStack, Layers
<1>5. /\ comp' \in [Slot -> Composition]
      /\ cf' \in [previous : Seq(LayerId), duration : Nat,
                  age : Nat \cup {Unstamped}]
      /\ SelectedInRange' /\ Isolated'
      /\ Reachable' \subseteq Reachable \cup ToSet(clones)
      /\ Reachable' \subseteq LayerId
  <2> HIDE DEF n, selected, h
  <2>1. ToSet(clones) \subseteq Ids(to) \cup ToSet(clones)
    OBVIOUS
  <2> QED BY <1>1, <1>2, <1>3, <1>4, <2>1, EditKeeps DEF IInv
<1>6. Rest /\ topology' = topology
  BY <1>1, RestUnchanged DEF IInv
<1>7. ASSUME NEW id \in Reachable', copied(id)
      PROVE  h[id] \in Layer /\ h[id].topology = topology'
  <2> DEFINE i == CHOOSE j \in DOMAIN clones : clones[j] = id
  <2>1. i \in DOMAIN clones
    BY <1>7
  <2>2. i \in 1..n
    BY <1>3, <2>1
  <2> HIDE DEF i
  <2>3. Layers(from)[i] \in Reachable /\ Layers(from)[i] \in LayerId
    BY <1>2, <2>2 DEF Ids, ToSet
  <2>4. /\ heap[Layers(from)[i]] \in Layer
        /\ heap[Layers(from)[i]].topology = topology
        /\ topology \in Topology
    BY <2>3 DEF IInv, TypeOK, FitsTopology
  <2>5. /\ CloneLayer(heap[Layers(from)[i]]) \in Layer
        /\ CloneLayer(heap[Layers(from)[i]]).topology = topology
    BY <2>4, CloneLayerType
  <2>6. h[id] = CloneLayer(heap[Layers(from)[i]])
    BY <1>5, <1>7 DEF i
  <2> HIDE DEF h
  <2> QED BY <1>6, <2>5, <2>6
<1>8. ASSUME NEW id \in Reachable', ~copied(id)
      PROVE  h[id] \in Layer /\ h[id].topology = topology'
  <2>1. id \in Reachable /\ id \in LayerId
    BY <1>5, <1>8 DEF ToSet
  <2>2. h[id] = heap[id]
    BY <1>8, <2>1
  <2> HIDE DEF h
  <2> QED BY <1>6, <2>1, <2>2 DEF IInv, TypeOK, FitsTopology
<1> HIDE DEF h
<1>9. heap' \in [LayerId -> Layer] /\ FitsTopology'
  BY <1>1, <1>5, <1>7, <1>8, CollectKeeps
<1> QED BY <1>5, <1>6, <1>9 DEF IInv, TypeOK, Rest

LEMMA SetModeKeeps ==
  ASSUME IInv, NEW m \in Modes, SetMode(m)
  PROVE  IInv'
BY DEF SetMode, IInv, TypeOK, SelectedInRange, Isolated, FitsTopology,
       Reachable, Ids, Layers, frameState

LEMMA SetCrossfadeSecondsKeeps ==
  ASSUME IInv, NEW d \in Durations, SetCrossfadeSeconds(d)
  PROVE  IInv'
BY DEF SetCrossfadeSeconds, IInv, TypeOK, SelectedInRange, Isolated,
       FitsTopology, Reachable, Ids, Layers, frameState

(***************************************************************************)
(* The topology swap: the survivors keep their order, every object is      *)
(* rebuilt for the new topology, no crossfade is left.                     *)
(***************************************************************************)
LEMMA SurvivorsKeep ==
  ASSUME NEW S, NEW s \in Seq(S), Injective(s), NEW f \in Survivors(s)
  PROVE  /\ [i \in DOMAIN f |-> s[f[i]]] \in Seq(S)
         /\ Len([i \in DOMAIN f |-> s[f[i]]]) = Len(f)
         /\ Len(f) \in Nat
         /\ Injective([i \in DOMAIN f |-> s[f[i]]])
         /\ ToSet([i \in DOMAIN f |-> s[f[i]]]) \subseteq ToSet(s)
<1>1. PICK n \in 0..Len(s) : f \in [1..n -> 1..Len(s)]
  BY DEF Survivors
<1>2. \A i, j \in 1..n : i < j => f[i] < f[j]
  BY <1>1 DEF Survivors
<1>3. n \in Nat /\ DOMAIN f = 1..n /\ Len(f) = n /\ DOMAIN s = 1..Len(s)
  BY <1>1
<1> DEFINE r == [i \in DOMAIN f |-> s[f[i]]]
<1>4. r \in Seq(S) /\ Len(r) = n
  BY <1>1, <1>3
<1>5. \A i, j \in 1..n : f[i] = f[j] => i = j
  <2> SUFFICES ASSUME NEW i \in 1..n, NEW j \in 1..n, f[i] = f[j], i # j
               PROVE  FALSE
    OBVIOUS
  <2>1. f[i] \in Nat /\ f[j] \in Nat /\ (i < j \/ j < i)
    BY <1>1
  <2> QED BY <1>2, <2>1
<1>6. Injective(r)
  BY <1>1, <1>3, <1>5 DEF Injective
<1>7. ToSet(r) \subseteq ToSet(s)
  BY <1>1, <1>3 DEF ToSet
<1> QED BY <1>3, <1>4, <1>6, <1>7

LEMMA SwapTopologyKeeps ==
  ASSUME IInv, NEW t \in Topology, SwapTopology(t)
  PROVE  IInv'
<1>1. PICK live \in Survivors(Layers("live")),
           preview \in Survivors(Layers("preview")) :
        LET kept == [slot \in Slot |-> IF slot = "live" THEN live ELSE preview]
        IN  /\ topology' = t
            /\ comp' = [slot \in Slot |->
                  [layers   |-> [i \in DOMAIN kept[slot] |->
                                   Layers(slot)[kept[slot][i]]],
                   selected |-> Reselect(comp[slot].selected, Len(kept[slot]))]]
            /\ DiscardCrossfade
            /\ Collect([id \in LayerId |->
                 IF id \in Ids("live") \cup Ids("preview")
                 THEN CompiledLayer(heap[id].copyable, heap[id].visible, t)
                 ELSE heap[id]])
            /\ UNCHANGED <<crossfadeSeconds, mode, frameState>>
  BY DEF SwapTopology, Keeping, Layers
<1> DEFINE kept == [slot \in Slot |-> IF slot = "live" THEN live ELSE preview]
           layers(slot) == [i \in DOMAIN kept[slot] |-> Layers(slot)[kept[slot][i]]]
           selected(slot) == Reselect(comp[slot].selected, Len(kept[slot]))
           h == [id \in LayerId |->
                   IF id \in Ids("live") \cup Ids("preview")
                   THEN CompiledLayer(heap[id].copyable, heap[id].visible, t)
                   ELSE heap[id]]
<1>2. /\ topology' = t /\ cf' = NoCrossfade /\ Collect(h)
      /\ UNCHANGED <<crossfadeSeconds, mode, frameState>>
  BY <1>1 DEF DiscardCrossfade
<1>3. \A slot \in Slot : comp'[slot] = [layers |-> layers(slot),
                                      selected |-> selected(slot)]
  BY <1>1
<1>4. comp' = [slot \in Slot |-> [layers |-> layers(slot),
                                 selected |-> selected(slot)]]
  BY <1>1
<1>5. \A slot \in Slot : kept[slot] \in Survivors(Layers(slot))
  BY DEF Slot
<1> HIDE DEF kept, h
<1>6. ASSUME NEW slot \in Slot
      PROVE  /\ layers(slot) \in Seq(LayerId) /\ Injective(layers(slot))
             /\ Len(layers(slot)) = Len(kept[slot]) /\ Len(kept[slot]) \in Nat
             /\ ToSet(layers(slot)) \subseteq Ids(slot)
  <2>1. Layers(slot) \in Seq(LayerId) /\ Injective(Layers(slot))
    BY ReachableTyped DEF IInv, Isolated
  <2> QED BY <1>5, <2>1, SurvivorsKeep DEF Ids
<1> HIDE DEF layers
<1>7. ASSUME NEW slot \in Slot
      PROVE  /\ selected(slot) \in Nat
             /\ \/ selected(slot) < Len(layers(slot))
                \/ layers(slot) = << >> /\ selected(slot) = 0
  <2>1. comp[slot].selected \in Nat
    BY ReachableTyped DEF IInv
  <2>2. Len(layers(slot)) = 0 => layers(slot) = << >>
    BY <1>6
  <2> QED BY <1>6, <2>1, <2>2 DEF Reselect, Clamp
<1> HIDE DEF selected
<1>8. comp' \in [Slot -> Composition]
  BY <1>4, <1>6, <1>7 DEF Composition
<1>9. SelectedInRange'
  <2> SUFFICES ASSUME NEW slot \in Slot
               PROVE  \/ comp'[slot].selected < Len(comp'[slot].layers)
                      \/ comp'[slot] = EmptyStack
    BY DEF SelectedInRange, Layers, EmptyStack
  <2>1. comp'[slot] = [layers |-> layers(slot), selected |-> selected(slot)]
    BY <1>3
  <2>2. \/ selected(slot) < Len(layers(slot))
        \/ layers(slot) = << >> /\ selected(slot) = 0
    BY <1>7
  <2> QED BY <2>1, <2>2 DEF EmptyStack
<1>10. /\ cf'.previous = << >> /\ ToSet(<< >>) = {} /\ Injective(<< >>)
       /\ cf' \in [previous : Seq(LayerId), duration : Nat,
                   age : Nat \cup {Unstamped}]
  BY <1>2 DEF NoCrossfade, ToSet, Injective
<1>11. \A slot \in Slot : /\ ToSet(comp'[slot].layers) \subseteq Ids(slot)
                         /\ Injective(comp'[slot].layers)
  <2> TAKE slot \in Slot
  <2>1. comp'[slot] = [layers |-> layers(slot), selected |-> selected(slot)]
    BY <1>3
  <2>2. ToSet(layers(slot)) \subseteq Ids(slot) /\ Injective(layers(slot))
    BY <1>6
  <2> QED BY <2>1, <2>2
<1>12. Isolated'
  BY <1>10, <1>11 DEF IInv, Isolated, Ids, Layers, Slot
<1>13. /\ Reachable' \subseteq Ids("live") \cup Ids("preview")
       /\ Reachable' \subseteq LayerId
  <2>1. Reachable' \subseteq Ids("live") \cup Ids("preview")
    BY <1>10, <1>11 DEF Reachable, Ids, Layers, Slot
  <2>2. Ids("live") \cup Ids("preview") \subseteq Reachable
    BY DEF Reachable
  <2> QED BY <2>1, <2>2, ReachableTyped DEF IInv
<1>14. \A id \in Reachable' : h[id] \in Layer /\ h[id].topology = t
  <2> TAKE id \in Reachable'
  <2>1. id \in LayerId /\ id \in Ids("live") \cup Ids("preview")
    BY <1>13
  <2>2. heap[id].copyable \in BOOLEAN /\ heap[id].visible \in BOOLEAN
    BY <2>1 DEF IInv, TypeOK, Layer
  <2>3. h[id] = CompiledLayer(heap[id].copyable, heap[id].visible, t)
    BY <2>1 DEF h
  <2> QED BY <2>2, <2>3, CompiledLayerType
<1>15. heap' \in [LayerId -> Layer] /\ FitsTopology'
  BY <1>2, <1>13, <1>14, CollectKeeps
<1>16. Rest
  BY <1>2 DEF Rest, IInv, TypeOK, frameState
<1> QED BY <1>8, <1>9, <1>10, <1>12, <1>15, <1>16 DEF IInv, TypeOK, Rest

(***************************************************************************)
(* One frame: records change, the identities a composition holds do not.   *)
(***************************************************************************)
LEMMA RenderCompositionType ==
  ASSUME NEW h, NEW ids, NEW outcome, NEW id \in LayerId, h[id] \in Layer
  PROVE  /\ RenderComposition(h, ids, outcome)[id] \in Layer
         /\ RenderComposition(h, ids, outcome)[id].topology = h[id].topology
<1>1. /\ RenderLayer(h[id], outcome[id]) \in Layer
      /\ RenderLayer(h[id], outcome[id]).topology = h[id].topology
  BY RenderLayerType
<1>2. RenderComposition(h, ids, outcome)[id]
        \in {RenderLayer(h[id], outcome[id]), h[id]}
  BY DEF RenderComposition
<1> QED BY <1>1, <1>2

LEMMA RenderKeeps ==
  ASSUME IInv, NEW gap \in 1..MaxGap, NEW dt \in 1..MaxGap, NEW viewers \in BOOLEAN,
         Render(gap, dt, viewers)
  PROVE  IInv'
<1> DEFINE age == Age(gap)
           fading == Crossfading /\ age < cf.duration
           ghosts == IF fading THEN ToSet(cf.previous) ELSE {}
           design == mode = "design"
           tick == IF design /\ viewers THEN 1 - previewTick ELSE previewTick
           fresh == design /\ viewers /\ tick = 0
           drafts == IF fresh THEN Ids("preview") ELSE {}
<1>1. /\ cf' = IF fading THEN [cf EXCEPT !.age = age] ELSE NoCrossfade
      /\ previewTick' = tick
      /\ dtAccum' = IF design /\ ~fresh THEN AtMost(dtAccum + dt, MaxAccum) ELSE 0
      /\ UNCHANGED <<comp, settings>>
  BY DEF Render
<1>2. PICK before, now, draft :
        Collect(RenderComposition(
                  RenderComposition(
                    RenderComposition(heap, ghosts, before),
                    Ids("live"), now),
                  drafts, draft))
  BY DEF Render
<1> HIDE DEF fading, ghosts, drafts, fresh
<1>3. age \in Nat
  BY DEF Age, IInv, TypeOK, Unstamped
<1>4. /\ cf' \in [previous : Seq(LayerId), duration : Nat, age : Nat \cup {Unstamped}]
      /\ cf'.previous \in {cf.previous, << >>}
  <2> HIDE DEF age
  <2>1. CASE fading
    <3>1. cf' = [cf EXCEPT !.age = age]
      BY <1>1, <2>1
    <3> QED BY <1>3, <3>1 DEF IInv, TypeOK
  <2>2. CASE ~fading
    <3>1. cf' = NoCrossfade
      BY <1>1, <2>2
    <3> QED BY <3>1 DEF NoCrossfade
  <2> QED BY <2>1, <2>2
<1>5. SelectedInRange'
  BY <1>1 DEF IInv, SelectedInRange, Layers
<1>6. /\ Ids("live")' = Ids("live") /\ Ids("preview")' = Ids("preview")
      /\ ToSet(cf'.previous) \subseteq ToSet(cf.previous)
      /\ Injective(cf'.previous)
  BY <1>1, <1>4 DEF Ids, Layers, ToSet, Injective, IInv, Isolated
<1>7. Isolated'
  BY <1>1, <1>6 DEF IInv, Isolated, Layers
<1>8. Reachable' \subseteq Reachable /\ Reachable' \subseteq LayerId
  BY <1>6, ReachableTyped DEF IInv, Reachable
<1> DEFINE shown == Ids("live")
           h1 == RenderComposition(heap, ghosts, before)
           h2 == RenderComposition(h1, shown, now)
           h3 == RenderComposition(h2, drafts, draft)
<1>9. Reachable \subseteq LayerId
  BY ReachableTyped DEF IInv
<1>10. ASSUME NEW id \in Reachable
       PROVE  h3[id] \in Layer /\ h3[id].topology = topology
  <2>1. id \in LayerId /\ heap[id] \in Layer /\ heap[id].topology = topology
    BY <1>9 DEF IInv, TypeOK, FitsTopology
  <2>2. h1[id] \in Layer /\ h1[id].topology = topology
    BY <2>1, RenderCompositionType
  <2> HIDE DEF h1, shown
  <2>3. h2[id] \in Layer /\ h2[id].topology = topology
    BY <2>1, <2>2, RenderCompositionType
  <2> HIDE DEF h2
  <2> QED BY <2>1, <2>3, RenderCompositionType
<1>11. heap' \in [LayerId -> Layer] /\ FitsTopology'
  <2>1. Collect(h3)
    BY <1>2
  <2>2. topology' = topology
    BY <1>1 DEF settings
  <2> HIDE DEF h3
  <2> QED BY <1>8, <1>10, <2>1, <2>2, CollectKeeps
<1>12. Rest
  <2>1. dtAccum' \in 0..MaxAccum
    BY <1>1 DEF AtMost, IInv, TypeOK
  <2>2. previewTick' \in {0, 1}
    BY <1>1 DEF IInv, TypeOK
  <2> QED BY <1>1, <2>1, <2>2 DEF Rest, IInv, TypeOK, settings
<1> QED BY <1>1, <1>4, <1>5, <1>7, <1>11, <1>12 DEF IInv, TypeOK, Rest

-----------------------------------------------------------------------------
LEMMA InitEstablishes == Init => IInv
<1> SUFFICES ASSUME Init PROVE IInv
  OBVIOUS
<1>1. Collected \in Layer
  BY DEF Collected, Layer, Samples
<1>2. << >> \in Seq(LayerId) /\ ToSet(<< >>) = {} /\ Injective(<< >>)
  BY DEF ToSet, Injective
<1>3. \A slot \in Slot : comp[slot] = EmptyStack /\ Layers(slot) = << >>
  BY DEF Init, Layers, EmptyStack
<1>4. cf = NoCrossfade /\ cf.previous = << >>
  BY DEF Init, NoCrossfade
<1>5. TypeOK
  <2>1. heap \in [LayerId -> Layer]
    BY <1>1 DEF Init
  <2>2. comp \in [Slot -> Composition]
    BY <1>2 DEF Init, Composition, EmptyStack
  <2>3. cf \in [previous : Seq(LayerId), duration : Nat, age : Nat \cup {Unstamped}]
    BY <1>2, <1>4 DEF NoCrossfade
  <2> QED BY <2>1, <2>2, <2>3 DEF Init, TypeOK
<1>6. Reachable = {}
  BY <1>2, <1>3, <1>4 DEF Reachable, Ids, Slot
<1>7. SelectedInRange /\ Isolated /\ FitsTopology
  BY <1>2, <1>3, <1>4, <1>6 DEF SelectedInRange, Isolated, FitsTopology, Ids, Slot
<1> QED BY <1>5, <1>7 DEF IInv

LEMMA NextKeeps == IInv /\ [Next]_vars => IInv'
<1> SUFFICES ASSUME IInv, [Next]_vars PROVE IInv'
  OBVIOUS
<1>1. Index \subseteq Nat
  BY DEF Index
<1>2. ASSUME NEW slot \in Slot, NEW index \in Index, NEW copyable \in Copyable,
             NEW visible \in Visible,
             ReplaceLayer(slot, index, copyable, visible)
      PROVE  IInv'
  BY <1>1, <1>2, ReplaceLayerInstalls, InstallKeeps
<1>3. ASSUME NEW slot \in Slot, NEW index \in Index, NEW copyable \in Copyable,
             NEW visible \in Visible,
             InsertLayer(slot, index, copyable, visible)
      PROVE  IInv'
  BY <1>1, <1>3, InsertLayerInstalls, InstallKeeps
<1>4. ASSUME NEW slot \in Slot, NEW index \in Index, RemoveLayer(slot, index)
      PROVE  IInv'
  BY <1>1, <1>4, RemoveLayerRearranges, RearrangeKeeps
<1>5. ASSUME NEW slot \in Slot, NEW src \in Index, NEW dst \in Index,
             ReorderLayer(slot, src, dst)
      PROVE  IInv'
  BY <1>1, <1>5, ReorderLayerRearranges, RearrangeKeeps
<1>6. ASSUME NEW slot \in Slot, NEW index \in Index, NEW visible \in Visible,
             NEW enabled \in BOOLEAN, PatchLayerMeta(slot, index, visible, enabled)
      PROVE  IInv'
  BY <1>1, <1>6, PatchLayerMetaKeeps
<1>7. ASSUME NEW slot \in Slot, NEW index \in Index, SelectLayer(slot, index)
      PROVE  IInv'
  BY <1>1, <1>7, SelectLayerKeeps
<1>8. ASSUME Promote PROVE IInv'
  BY <1>8, CloneKeeps DEF Promote, Slot
<1>9. ASSUME PullLiveToPreview PROVE IInv'
  BY <1>9, CloneKeeps DEF PullLiveToPreview, Slot
<1>10. ASSUME NEW m \in Modes, SetMode(m) PROVE IInv'
  BY <1>10, SetModeKeeps
<1>11. ASSUME NEW d \in Durations, SetCrossfadeSeconds(d) PROVE IInv'
  BY <1>11, SetCrossfadeSecondsKeeps
<1>12. ASSUME NEW t \in Topology, SwapTopology(t) PROVE IInv'
  BY <1>12, SwapTopologyKeeps
<1>13. ASSUME NEW gap \in 1..MaxGap, NEW dt \in 1..MaxGap, NEW viewers \in BOOLEAN,
              Render(gap, dt, viewers)
       PROVE  IInv'
  BY <1>13, RenderKeeps
<1>14. CASE UNCHANGED vars
  BY <1>14 DEF vars, IInv, TypeOK, SelectedInRange, Isolated, FitsTopology,
               Reachable, Ids, Layers
<1>15. CASE OperatorEdit
  BY <1>2, <1>3, <1>4, <1>5, <1>6, <1>7, <1>8, <1>9, <1>10, <1>11, <1>12, <1>15
     DEF OperatorEdit
<1>16. CASE Frame
  BY <1>13, <1>16 DEF Frame
<1> QED BY <1>14, <1>15, <1>16 DEF Next

LEMMA Invariance == Spec => []IInv
BY InitEstablishes, NextKeeps, PTL DEF Spec

(***************************************************************************)
(* Whatever the operator does and whatever the effects' render() does, in  *)
(* any order, every variable keeps its type.                               *)
(***************************************************************************)
THEOREM TypeCorrect == Spec => []TypeOK
<1>1. IInv => TypeOK
  BY DEF IInv
<1> QED BY <1>1, Invariance, PTL

(***************************************************************************)
(* The selected index of either composition denotes one of its layers,     *)
(* for any number of layers and any order of edits (SelectedInRange).      *)
(***************************************************************************)
THEOREM SelectionCorrect == Spec => []SelectedInRange
<1>1. IInv => SelectedInRange
  BY DEF IInv
<1> QED BY <1>1, Invariance, PTL

(***************************************************************************)
(* The two legs never share a layer object, crossfades included            *)
(* (Isolated): promote and pull clone, installs create, and every other    *)
(* operation only rearranges what a leg owns.                              *)
(***************************************************************************)
THEOREM IsolationCorrect == Spec => []Isolated
<1>1. IInv => Isolated
  BY DEF IInv
<1> QED BY <1>1, Invariance, PTL

(***************************************************************************)
(* Every layer that can be rendered was initialised for the topology in    *)
(* force (FitsTopology): no frame mixes array lengths after a hot-swap.    *)
(***************************************************************************)
THEOREM TopologyCorrect == Spec => []FitsTopology
<1>1. IInv => FitsTopology
  BY DEF IInv
<1> QED BY <1>1, Invariance, PTL


(***************************************************************************)
(* What a step does to the live leg: nothing, or it is an edit that starts *)
(* a fade from the stack as it was, or a swap.                             *)
(***************************************************************************)
Fades == cf' = CrossfadeFrom(Layers("live"))

LEMMA EditsOfOneLeg ==
  ASSUME IInv, NEW slot \in Slot, NEW stack,
         comp' = [comp EXCEPT ![slot] = stack], FadeIfLive(slot)
  PROVE  Layers("live")' = Layers("live") \/ Fades
<1>1. CASE slot = "live"
  BY <1>1 DEF FadeIfLive, Fades
<1>2. CASE slot = "preview"
  BY <1>2 DEF IInv, TypeOK, Slot, Layers
<1> QED BY <1>1, <1>2 DEF Slot

LEMMA OperatorEditFades ==
  ASSUME IInv, OperatorEdit
  PROVE  \/ Layers("live")' = Layers("live")
         \/ Fades
         \/ \E t \in Topology : SwapTopology(t)
<1>1. ASSUME NEW slot \in Slot, NEW index \in Index, NEW copyable \in Copyable,
             NEW visible \in Visible,
             \/ ReplaceLayer(slot, index, copyable, visible)
             \/ InsertLayer(slot, index, copyable, visible)
      PROVE  Layers("live")' = Layers("live") \/ Fades
  <2>1. CASE ReplaceLayer(slot, index, copyable, visible)
    <3>1. PICK stack : comp' = [comp EXCEPT ![slot] = stack] /\ FadeIfLive(slot)
      BY <2>1 DEF ReplaceLayer
    <3> QED BY <3>1, EditsOfOneLeg
  <2>2. CASE InsertLayer(slot, index, copyable, visible)
    <3>1. PICK stack : comp' = [comp EXCEPT ![slot] = stack] /\ FadeIfLive(slot)
      BY <2>2 DEF InsertLayer
    <3> QED BY <3>1, EditsOfOneLeg
  <2> QED BY <1>1, <2>1, <2>2
<1>2. ASSUME NEW slot \in Slot, NEW index \in Index, RemoveLayer(slot, index)
      PROVE  Layers("live")' = Layers("live") \/ Fades
  BY <1>2, EditsOfOneLeg DEF RemoveLayer
<1>3. ASSUME NEW slot \in Slot, NEW src \in Index, NEW dst \in Index,
             ReorderLayer(slot, src, dst)
      PROVE  Layers("live")' = Layers("live") \/ Fades
  BY <1>3, EditsOfOneLeg DEF ReorderLayer
<1>4. ASSUME NEW slot \in Slot, NEW index \in Index, NEW visible \in Visible,
             NEW enabled \in BOOLEAN, PatchLayerMeta(slot, index, visible, enabled)
      PROVE  Layers("live")' = Layers("live")
  BY <1>4 DEF PatchLayerMeta, Layers
<1>5. ASSUME NEW slot \in Slot, NEW index \in Index, SelectLayer(slot, index)
      PROVE  Layers("live")' = Layers("live")
  BY <1>5 DEF SelectLayer, Selecting, Layers, IInv, TypeOK, Slot, Composition
<1>6. ASSUME Promote PROVE Layers("live")' = Layers("live") \/ Fades
  <2>1. PICK clones : CloneInto("preview", "live", clones)
    BY <1>6 DEF Promote
  <2> QED BY <2>1, EditsOfOneLeg DEF CloneInto, Slot
<1>7. ASSUME PullLiveToPreview PROVE Layers("live")' = Layers("live") \/ Fades
  <2>1. PICK clones : CloneInto("live", "preview", clones)
    BY <1>7 DEF PullLiveToPreview
  <2> QED BY <2>1, EditsOfOneLeg DEF CloneInto, Slot
<1>8. ASSUME NEW m \in Modes, SetMode(m) PROVE Layers("live")' = Layers("live")
  BY <1>8 DEF SetMode, Layers
<1>9. ASSUME NEW d \in Durations, SetCrossfadeSeconds(d)
      PROVE  Layers("live")' = Layers("live")
  BY <1>9 DEF SetCrossfadeSeconds, Layers
<1> QED
  BY <1>1, <1>2, <1>3, <1>4, <1>5, <1>6, <1>7, <1>8, <1>9 DEF OperatorEdit

(***************************************************************************)
(* Every change of the live stack fades from exactly the stack it changed, *)
(* unless it is a topology swap, crossfades are off or nothing was live:   *)
(* FadeIfLive of every edit sees the composition as it was.                *)
(***************************************************************************)
THEOREM EditsFade == Spec => LiveEditsFade
<1> DEFINE Faded ==
      \/ cf' = [previous |-> Layers("live"), duration |-> crossfadeSeconds,
                age |-> Unstamped] /\ crossfadeSeconds # 0
      \/ cf' = NoCrossfade /\ (crossfadeSeconds = 0 \/ Layers("live") = << >>)
      \/ \E t \in Topology : SwapTopology(t)
<1>1. IInv /\ [Next]_vars => [Layers("live")' # Layers("live") => Faded]_vars
  <2> SUFFICES ASSUME IInv, Next, Layers("live")' # Layers("live")
               PROVE  Faded
    BY DEF vars, Layers
  <2>1. ~Frame
    BY DEF Frame, Render, Layers
  <2>2. Fades \/ \E t \in Topology : SwapTopology(t)
    BY <2>1, OperatorEditFades DEF Next
  <2>3. Fades => Faded
    BY DEF Fades, CrossfadeFrom
  <2> QED BY <2>2, <2>3
<1> QED BY Invariance, <1>1, PTL DEF Spec, LiveEditsFade

-----------------------------------------------------------------------------
(***************************************************************************)
(* The runtime implements Stage: what the layer objects look like changes  *)
(* as if the stacks were values.  Isolated makes it so: a record that an   *)
(* operation rewrites belongs to one leg.                                  *)
(***************************************************************************)
Agree(g, h, ids) == \A i \in DOMAIN ids : g[ids[i]] = h[ids[i]]

LEMMA SameLooks ==
  ASSUME NEW g, NEW h, NEW ids, Agree(g, h, ids)
  PROVE  LooksIn(g, ids) = LooksIn(h, ids)
BY DEF Agree, LooksIn

LEMMA NoLooks ==
  ASSUME NEW h, NEW ids \in Seq(LayerId)
  PROVE  LooksIn(h, ids) = << >> <=> ids = << >>
<1>1. DOMAIN LooksIn(h, ids) = 1..Len(ids) /\ Len(ids) \in Nat
  BY DEF LooksIn
<1>2. ASSUME ids = << >> PROVE LooksIn(h, ids) = << >>
  BY <1>2 DEF LooksIn
<1>3. ASSUME ids # << >> PROVE LooksIn(h, ids) # << >>
  <2>1. 1 \in DOMAIN LooksIn(h, ids)
    BY <1>1, <1>3
  <2>2. DOMAIN << >> = {}
    OBVIOUS
  <2> QED BY <2>1, <2>2
<1> QED BY <1>2, <1>3

(***************************************************************************)
(* A fade that starts is seen to start from what was live.                 *)
(***************************************************************************)
ShownFade(h, c) == [from |-> LooksIn(h, c.previous), seconds |-> c.duration]

LEMMA FadeShown ==
  ASSUME TypeOK, NEW stack \in Seq(LayerId), NEW h,
         Agree(h, heap, CrossfadeFrom(stack).previous)
  PROVE  ShownFade(h, CrossfadeFrom(stack)) = Shown!FadeFrom(LooksIn(heap, stack))
<1> DEFINE c == CrossfadeFrom(stack)
<1>1. LooksIn(h, c.previous) = LooksIn(heap, c.previous)
  BY SameLooks
<1>2. LooksIn(heap, stack) = << >> <=> stack = << >>
  BY NoLooks
<1>3. CASE crossfadeSeconds = 0 \/ stack = << >>
  <2>1. c = NoCrossfade /\ c.previous = << >> /\ c.duration = 0
    BY <1>3 DEF CrossfadeFrom, NoCrossfade
  <2>2. LooksIn(heap, << >>) = << >>
    BY DEF LooksIn
  <2>3. Shown!FadeFrom(LooksIn(heap, stack)) = [from |-> << >>, seconds |-> 0]
    BY <1>2, <1>3 DEF Shown!FadeFrom, Shown!NoFade
  <2> QED BY <1>1, <2>1, <2>2, <2>3 DEF ShownFade
<1>4. CASE ~(crossfadeSeconds = 0 \/ stack = << >>)
  <2>1. c.previous = stack /\ c.duration = crossfadeSeconds
    BY <1>4 DEF CrossfadeFrom
  <2>2. Shown!FadeFrom(LooksIn(heap, stack))
          = [from |-> LooksIn(heap, stack), seconds |-> crossfadeSeconds]
    BY <1>2, <1>4 DEF Shown!FadeFrom
  <2> QED BY <1>1, <2>1, <2>2 DEF ShownFade
<1> QED BY <1>3, <1>4

(***************************************************************************)
(* An edit that takes its layers from the stack and from at most one that  *)
(* was just compiled draws the new stack from the old one.                 *)
(***************************************************************************)
LEMMA DrawnShown ==
  ASSUME NEW g, NEW h, NEW old \in Seq(LayerId), NEW new \in Seq(LayerId),
         NEW unused, \A a, b \in unused : a = b,
         Injective(new), ToSet(new) \subseteq ToSet(old) \cup unused,
         \A id \in ToSet(new) \ unused : h[id] = g[id],
         \A id \in ToSet(new) \cap unused :
           \E c, v \in BOOLEAN : h[id] = CompiledLayer(c, v, topology)
  PROVE  Shown!Drawn(LooksIn(h, new), LooksIn(g, old))
<1> DEFINE place == [i \in DOMAIN new |->
                       IF new[i] \in unused THEN 0
                       ELSE CHOOSE k \in DOMAIN old : old[k] = new[i]]
<1>1. /\ DOMAIN LooksIn(h, new) = DOMAIN new
      /\ DOMAIN LooksIn(g, old) = DOMAIN old
      /\ \A i \in DOMAIN new : LooksIn(h, new)[i] = Look(h[new[i]])
      /\ \A i \in DOMAIN old : LooksIn(g, old)[i] = Look(g[old[i]])
  BY DEF LooksIn
<1>2. 0 \notin DOMAIN old
  OBVIOUS
<1>3. ASSUME NEW i \in DOMAIN new, new[i] \notin unused
      PROVE  place[i] \in DOMAIN old /\ old[place[i]] = new[i]
  <2>1. \E k \in DOMAIN old : old[k] = new[i]
    BY <1>3 DEF ToSet
  <2> QED BY <1>3, <2>1
<1>4. ASSUME NEW i \in DOMAIN new, new[i] \in unused
      PROVE  place[i] = 0
  BY <1>4
<1>5. place \in [DOMAIN new -> DOMAIN old \cup {0}]
  BY <1>3, <1>4
<1> HIDE DEF place
<1>6. ASSUME NEW i \in DOMAIN new, NEW j \in DOMAIN new, place[i] = place[j]
      PROVE  i = j
  <2>1. CASE new[i] \in unused
    <3>1. new[j] \in unused
      BY <1>2, <1>3, <1>4, <1>6, <2>1
    <3> QED BY <2>1, <3>1 DEF Injective
  <2>2. CASE new[i] \notin unused
    <3>1. new[j] \notin unused
      BY <1>2, <1>3, <1>4, <1>6, <2>2
    <3>2. new[i] = new[j]
      BY <1>3, <1>6, <2>2, <3>1
    <3> QED BY <3>2 DEF Injective
  <2> QED BY <2>1, <2>2
<1>7. ASSUME NEW i \in DOMAIN new
      PROVE  IF place[i] # 0 THEN LooksIn(h, new)[i] = LooksIn(g, old)[place[i]]
             ELSE \E c, v \in BOOLEAN :
                    LooksIn(h, new)[i] = Shown!Made(c, v, topology)
  <2>1. CASE new[i] \notin unused
    <3>1. place[i] # 0 /\ h[new[i]] = g[old[place[i]]]
      BY <1>2, <1>3, <2>1 DEF ToSet
    <3> QED BY <1>1, <1>3, <2>1, <3>1
  <2>2. CASE new[i] \in unused
    <3>1. PICK c \in BOOLEAN, v \in BOOLEAN : h[new[i]] = CompiledLayer(c, v, topology)
      BY <2>2 DEF ToSet
    <3>2. Look(h[new[i]]) = Shown!Made(c, v, topology)
      BY <3>1 DEF Look, CompiledLayer, Shown!Made
    <3> QED BY <1>1, <1>4, <2>2, <3>2
  <2> QED BY <2>1, <2>2
<1>8. /\ place \in [DOMAIN LooksIn(h, new) -> DOMAIN LooksIn(g, old) \cup {0}]
      /\ \A i, j \in DOMAIN LooksIn(h, new) : place[i] = place[j] => i = j
      /\ \A i \in DOMAIN LooksIn(h, new) :
           IF place[i] # 0 THEN LooksIn(h, new)[i] = LooksIn(g, old)[place[i]]
           ELSE \E c, v \in BOOLEAN :
                  LooksIn(h, new)[i] = Shown!Made(c, v, topology)
  BY <1>1, <1>5, <1>6, <1>7
<1> QED BY <1>8, Zenon DEF Shown!Drawn

LEMMA EditShown ==
  ASSUME IInv, IInv', NEW slot \in Slot, NEW layers \in Seq(LayerId), NEW selected,
         NEW unused, \A a, b \in unused : a = b, unused \cap Reachable = {},
         Injective(layers), ToSet(layers) \subseteq Ids(slot) \cup unused,
         comp' = [comp EXCEPT ![slot] = [layers |-> layers, selected |-> selected]],
         FadeIfLive(slot),
         \A id \in Reachable' \ unused : heap'[id] = heap[id],
         \A id \in Reachable' \cap unused :
           \E c, v \in BOOLEAN : heap'[id] = CompiledLayer(c, v, topology),
         UNCHANGED settings
  PROVE  Shown!EditLive \/ Shown!EditPreview
<1>1. /\ comp'[slot].layers = layers
      /\ \A other \in Slot : other # slot => comp'[other] = comp[other]
  BY DEF IInv, TypeOK
<1>2. /\ Layers("live") \in Seq(LayerId) /\ Layers("preview") \in Seq(LayerId)
      /\ Layers(slot) \in Seq(LayerId)
      /\ Ids("live") \subseteq Reachable /\ Ids("preview") \subseteq Reachable
      /\ ToSet(cf.previous) \subseteq Reachable /\ cf.previous \in Seq(LayerId)
  BY ReachableTyped DEF IInv, Slot, TypeOK
<1>3. /\ ToSet(comp'["live"].layers) \subseteq Reachable'
      /\ ToSet(comp'["preview"].layers) \subseteq Reachable'
      /\ ToSet(cf'.previous) \subseteq Reachable'
  BY DEF Reachable, Ids, Layers
<1>4. ASSUME NEW q \in Seq(LayerId), ToSet(q) \subseteq Reachable,
             ToSet(q) \subseteq Reachable'
      PROVE  Agree(heap', heap, q)
  BY <1>4 DEF Agree, ToSet
<1>5. Shown!Drawn(LooksIn(heap', layers), LooksIn(heap, Layers(slot)))
  <2>1. ToSet(layers) \subseteq Reachable'
    BY <1>1, <1>3 DEF Slot
  <2>2. \A id \in ToSet(layers) \ unused : heap'[id] = heap[id]
    BY <2>1
  <2>3. \A id \in ToSet(layers) \cap unused :
          \E c, v \in BOOLEAN : heap'[id] = CompiledLayer(c, v, topology)
    BY <2>1
  <2>4. ToSet(layers) \subseteq ToSet(Layers(slot)) \cup unused
    BY DEF Ids
  <2> DEFINE h == heap'
  <2>5. /\ \A id \in ToSet(layers) \ unused : h[id] = heap[id]
        /\ \A id \in ToSet(layers) \cap unused :
             \E c, v \in BOOLEAN : h[id] = CompiledLayer(c, v, topology)
    BY <2>2, <2>3
  <2> HIDE DEF h
  <2>6. Shown!Drawn(LooksIn(h, layers), LooksIn(heap, Layers(slot)))
    BY <1>2, <2>4, <2>5, DrawnShown
  <2> QED BY <2>6 DEF h
<1>6. /\ crossfadeSeconds' = crossfadeSeconds /\ mode' = mode
      /\ topology' = topology
  BY DEF settings
<1>7. CASE slot = "live"
  <2>1. LooksIn(heap', comp'["preview"].layers) = LooksIn(heap, Layers("preview"))
    <3>1. comp'["preview"].layers = Layers("preview")
      BY <1>1, <1>7 DEF Slot, Layers
    <3>2. Agree(heap', heap, Layers("preview"))
      BY <1>2, <1>3, <1>4, <3>1 DEF Ids
    <3> QED BY <3>1, <3>2, SameLooks
  <2>2. ShownFade(heap', cf') = Shown!FadeFrom(LooksIn(heap, Layers("live")))
    <3>1. cf' = CrossfadeFrom(Layers("live"))
      BY <1>7 DEF FadeIfLive
    <3>2. /\ cf'.previous \in Seq(LayerId)
          /\ ToSet(cf'.previous) \subseteq Reachable
      <4>1. cf'.previous \in {Layers("live"), << >>}
        BY <3>1 DEF CrossfadeFrom, NoCrossfade
      <4>2. CASE cf'.previous = Layers("live")
        BY <1>2, <4>2 DEF Ids
      <4>3. CASE cf'.previous = << >>
        BY <4>3 DEF ToSet
      <4> QED BY <4>1, <4>2, <4>3
    <3>3. Agree(heap', heap, CrossfadeFrom(Layers("live")).previous)
      BY <1>3, <1>4, <3>1, <3>2
    <3> DEFINE h == heap'
    <3>4. Agree(h, heap, CrossfadeFrom(Layers("live")).previous)
      BY <3>3
    <3> HIDE DEF h
    <3>5. ShownFade(h, CrossfadeFrom(Layers("live")))
            = Shown!FadeFrom(LooksIn(heap, Layers("live")))
      BY <1>2, <3>4, FadeShown DEF IInv
    <3> QED BY <3>1, <3>5 DEF h
  <2>3. Shown!Drawn(LooksIn(heap', comp'["live"].layers), LooksIn(heap, Layers("live")))
    BY <1>1, <1>5, <1>7
  <2>4. Shown!EditLive
    BY <1>6, <2>1, <2>2, <2>3 DEF Shown!EditLive, Shown!settings, Layers, ShownFade
  <2> QED BY <2>4
<1>8. CASE slot = "preview"
  <2>1. LooksIn(heap', comp'["live"].layers) = LooksIn(heap, Layers("live"))
    <3>1. comp'["live"].layers = Layers("live")
      BY <1>1, <1>8 DEF Slot, Layers
    <3>2. Agree(heap', heap, Layers("live"))
      BY <1>2, <1>3, <1>4, <3>1 DEF Ids
    <3> QED BY <3>1, <3>2, SameLooks
  <2>2. ShownFade(heap', cf') = ShownFade(heap, cf)
    <3>1. cf' = cf
      BY <1>8 DEF FadeIfLive
    <3>2. Agree(heap', heap, cf.previous)
      BY <1>2, <1>3, <1>4, <3>1
    <3>3. LooksIn(heap', cf.previous) = LooksIn(heap, cf.previous)
      BY <3>2, SameLooks
    <3> QED BY <3>1, <3>3 DEF ShownFade
  <2>3. Shown!Drawn(LooksIn(heap', comp'["preview"].layers), LooksIn(heap, Layers("preview")))
    BY <1>1, <1>5, <1>8
  <2>4. Shown!EditPreview
    BY <1>6, <2>1, <2>2, <2>3 DEF Shown!EditPreview, Shown!settings, Layers, ShownFade
  <2> QED BY <2>4
<1> QED BY <1>7, <1>8 DEF Slot

LEMMA NextReachable ==
  ASSUME TypeOK'
  PROVE  Reachable' \subseteq LayerId
<1>1. /\ comp'["live"].layers \in Seq(LayerId)
      /\ comp'["preview"].layers \in Seq(LayerId)
      /\ cf'.previous \in Seq(LayerId)
  BY DEF TypeOK, Composition, Slot
<1>2. ASSUME NEW q \in Seq(LayerId) PROVE ToSet(q) \subseteq LayerId
  BY DEF ToSet
<1> QED BY <1>1, <1>2 DEF Reachable, Ids, Layers

LEMMA InstallShown ==
  ASSUME IInv, IInv', NEW slot \in Slot, Installs(slot)
  PROVE  Shown!EditLive \/ Shown!EditPreview
<1>1. PICK new \in FreshIds(1), layers \in Seq(LayerId), selected \in Nat,
           copyable \in BOOLEAN, visible \in BOOLEAN :
        Installing(slot, new, layers, selected, copyable, visible)
  BY DEF Installs
<1> DEFINE made == CompiledLayer(copyable, visible, topology)
           h == [heap EXCEPT ![new[1]] = made]
<1>2. /\ Injective(layers) /\ ToSet(layers) \subseteq Ids(slot) \cup {new[1]}
      /\ comp' = [comp EXCEPT ![slot] = [layers |-> layers, selected |-> selected]]
      /\ FadeIfLive(slot)
      /\ heap' = [id \in LayerId |-> IF id \in Reachable' THEN h[id] ELSE Collected]
      /\ UNCHANGED settings
  BY <1>1 DEF Installing, Collect
<1>3. new[1] \in LayerId /\ {new[1]} \cap Reachable = {}
  BY FreshIdUnused
<1>4. Reachable' \subseteq LayerId /\ heap \in [LayerId -> Layer]
  <2>1. TypeOK'
    BY DEF IInv
  <2>2. Reachable' \subseteq LayerId
    BY <2>1, NextReachable
  <2> QED BY <2>2 DEF IInv, TypeOK
<1>5. \A id \in Reachable' \ {new[1]} : heap'[id] = heap[id]
  <2> HIDE DEF made
  <2> QED BY <1>2, <1>3, <1>4
<1>6. \A id \in Reachable' \cap {new[1]} :
        \E c, v \in BOOLEAN : heap'[id] = CompiledLayer(c, v, topology)
  <2>1. \A id \in Reachable' \cap {new[1]} : heap'[id] = made
    <3> HIDE DEF made
    <3> QED BY <1>2, <1>3, <1>4
  <2> QED BY <2>1
<1> HIDE DEF made, h
<1>7. \A a, b \in {new[1]} : a = b
  OBVIOUS
<1> QED BY <1>2, <1>3, <1>5, <1>6, <1>7, EditShown

LEMMA RearrangeShown ==
  ASSUME IInv, IInv', NEW slot \in Slot, Rearranges(slot)
  PROVE  Shown!EditLive \/ Shown!EditPreview
<1>1. PICK layers \in Seq(LayerId), selected \in Nat :
        Rearranging(slot, layers, selected)
  BY DEF Rearranges
<1>2. /\ Injective(layers) /\ ToSet(layers) \subseteq Ids(slot) \cup {}
      /\ comp' = [comp EXCEPT ![slot] = [layers |-> layers, selected |-> selected]]
      /\ FadeIfLive(slot)
      /\ heap' = [id \in LayerId |-> IF id \in Reachable' THEN heap[id] ELSE Collected]
      /\ UNCHANGED settings
  BY <1>1 DEF Rearranging, Collect
<1>3. Reachable' \subseteq LayerId
  <2>1. TypeOK'
    BY DEF IInv
  <2> QED BY <2>1, NextReachable
<1>4. /\ \A id \in Reachable' \ {} : heap'[id] = heap[id]
      /\ \A id \in Reachable' \cap {} :
           \E c, v \in BOOLEAN : heap'[id] = CompiledLayer(c, v, topology)
      /\ \A a, b \in {} : a = b
      /\ {} \cap Reachable = {}
  BY <1>2, <1>3
<1> QED BY <1>2, <1>4, EditShown

(***************************************************************************)
(* A patch rewrites one record, which one leg holds once.                  *)
(***************************************************************************)
LEMMA PatchedLook ==
  ASSUME NEW l \in Layer, NEW visible \in BOOLEAN, NEW enabled \in BOOLEAN
  PROVE  Look([l EXCEPT !.visible = visible, !.enabled = enabled])
           = Shown!Patched(Look(l), visible, enabled)
<1> DEFINE a == [l EXCEPT !.visible = visible, !.enabled = enabled]
           b == Shown!Patched(Look(l), visible, enabled)
<1>1. /\ a.enabled = enabled /\ a.visible = visible
      /\ a.copyable = l.copyable /\ a.topology = l.topology
  BY DEF Layer
<1>2. Look(l) \in [enabled : BOOLEAN, visible : BOOLEAN, copyable : BOOLEAN,
                  topology : Topology]
  BY DEF Look, Layer
<1>3. /\ b.enabled = enabled /\ b.visible = visible
      /\ b.copyable = Look(l).copyable /\ b.topology = Look(l).topology
      /\ b = [enabled |-> b.enabled, visible |-> b.visible,
              copyable |-> b.copyable, topology |-> b.topology]
  <2> DEFINE look == Look(l)
             shown == [look EXCEPT !.visible = visible]
             both == [shown EXCEPT !.enabled = enabled]
  <2>1. look \in [enabled : BOOLEAN, visible : BOOLEAN, copyable : BOOLEAN,
                  topology : Topology]
    BY <1>2
  <2> HIDE DEF look
  <2>2. /\ shown \in [enabled : BOOLEAN, visible : BOOLEAN, copyable : BOOLEAN,
                      topology : Topology]
        /\ shown.visible = visible
        /\ shown.copyable = look.copyable /\ shown.topology = look.topology
    BY <2>1
  <2> HIDE DEF shown
  <2>3. /\ both \in [enabled : BOOLEAN, visible : BOOLEAN, copyable : BOOLEAN,
                     topology : Topology]
        /\ both.enabled = enabled /\ both.visible = visible
        /\ both.copyable = look.copyable /\ both.topology = look.topology
    BY <2>2
  <2> HIDE DEF both
  <2>4. both = [enabled |-> both.enabled, visible |-> both.visible,
                copyable |-> both.copyable, topology |-> both.topology]
    BY <2>3
  <2>5. b = both
    BY DEF Shown!Patched, both, shown, look
  <2> HIDE DEF b
  <2> QED BY <2>3, <2>4, <2>5 DEF look
<1>4. Look(l).copyable = l.copyable /\ Look(l).topology = l.topology
  BY DEF Look
<1> HIDE DEF a, b
<1>5. Look(a) = b
  BY <1>1, <1>3, <1>4 DEF Look
<1> QED BY <1>5 DEF a, b

LEMMA PatchShown ==
  ASSUME IInv, NEW slot \in Slot, NEW index \in Nat, NEW visible \in BOOLEAN,
         NEW enabled \in BOOLEAN, PatchLayerMeta(slot, index, visible, enabled)
  PROVE  \/ \E k \in DOMAIN LooksIn(heap, Layers("live")) :
              Shown!PatchLive(k, visible, enabled)
         \/ \E k \in DOMAIN LooksIn(heap, Layers("preview")) :
              Shown!PatchPreview(k, visible, enabled)
<1> DEFINE k == index + 1
           id == Layers(slot)[k]
           patched == [heap[id] EXCEPT !.visible = visible, !.enabled = enabled]
<1>1. /\ Layers("live") \in Seq(LayerId) /\ Layers("preview") \in Seq(LayerId)
      /\ Layers(slot) \in Seq(LayerId) /\ cf.previous \in Seq(LayerId)
      /\ heap \in [LayerId -> Layer]
  BY ReachableTyped DEF IInv, Slot, TypeOK
<1>2. k \in DOMAIN Layers(slot) /\ id \in LayerId /\ id \in Ids(slot)
  <2>1. index < Len(Layers(slot))
    BY DEF PatchLayerMeta
  <2>2. k \in DOMAIN Layers(slot)
    BY <1>1, <2>1
  <2> QED BY <1>1, <2>2 DEF Ids, ToSet
<1>3. /\ heap' = [heap EXCEPT ![id] = patched]
      /\ comp' = comp /\ cf' = cf /\ crossfadeSeconds' = crossfadeSeconds
      /\ mode' = mode /\ topology' = topology
  BY <1>1, <1>2 DEF PatchLayerMeta, settings
<1>4. Look(patched) = Shown!Patched(Look(heap[id]), visible, enabled)
  <2>1. heap[id] \in Layer
    BY <1>1, <1>2
  <2> QED BY <2>1, PatchedLook
<1> HIDE DEF patched, id
<1>5. \A other \in LayerId : heap'[other] = IF other = id THEN patched ELSE heap[other]
  BY <1>1, <1>2, <1>3
<1>6. ASSUME NEW q \in Seq(LayerId), id \notin ToSet(q)
      PROVE  LooksIn(heap', q) = LooksIn(heap, q)
  <2>1. \A i \in DOMAIN q : q[i] \in LayerId /\ q[i] # id
    BY <1>6 DEF ToSet
  <2>2. Agree(heap', heap, q)
    BY <1>5, <2>1 DEF Agree
  <2> QED BY <2>2, SameLooks
<1>7. ASSUME NEW q \in Seq(LayerId), Injective(q), NEW i \in DOMAIN q, q[i] = id
      PROVE  /\ LooksIn(heap', q) = [LooksIn(heap, q) EXCEPT
                    ![i] = Shown!Patched(LooksIn(heap, q)[i], visible, enabled)]
             /\ LooksIn(heap, q)[i] = Look(heap[id])
  <2>1. \A j \in DOMAIN q : j # i => heap'[q[j]] = heap[q[j]]
    <3>1. \A j \in DOMAIN q : q[j] \in LayerId
      OBVIOUS
    <3> QED BY <1>5, <1>7, <3>1 DEF Injective
  <2>2. heap'[q[i]] = patched
    BY <1>2, <1>5, <1>7
  <2> QED BY <1>4, <1>7, <2>1, <2>2 DEF LooksIn
<1>8. Injective(Layers(slot)) /\ Injective(cf.previous)
  BY DEF IInv, Isolated
<1>9. k \in DOMAIN LooksIn(heap, Layers(slot)) /\ Layers(slot)[k] = id
  BY <1>2 DEF LooksIn, id
<1>10. CASE slot = "live"
  <2>1. id \notin ToSet(Layers("preview"))
    BY <1>2, <1>10 DEF IInv, Isolated, Ids
  <2>2. LooksIn(heap', Layers("preview")) = LooksIn(heap, Layers("preview"))
    BY <1>1, <1>6, <2>1
  <2>3. /\ LooksIn(heap', Layers("live")) = [LooksIn(heap, Layers("live")) EXCEPT
              ![k] = Shown!Patched(LooksIn(heap, Layers("live"))[k], visible, enabled)]
        /\ LooksIn(heap, Layers("live"))[k] = Look(heap[id])
    BY <1>1, <1>2, <1>7, <1>8, <1>9, <1>10
  <2>4. \/ ShownFade(heap', cf) = ShownFade(heap, cf)
        \/ \E i \in DOMAIN LooksIn(heap, cf.previous) :
             /\ LooksIn(heap, cf.previous)[i] = LooksIn(heap, Layers("live"))[k]
             /\ LooksIn(heap', cf.previous) = [LooksIn(heap, cf.previous) EXCEPT
                   ![i] = Shown!Patched(LooksIn(heap, Layers("live"))[k], visible, enabled)]
    <3>1. CASE id \notin ToSet(cf.previous)
      BY <1>1, <1>6, <3>1 DEF ShownFade
    <3>2. CASE id \in ToSet(cf.previous)
      <4>1. PICK i \in DOMAIN cf.previous : cf.previous[i] = id
        BY <3>2 DEF ToSet
      <4>2. /\ LooksIn(heap', cf.previous) = [LooksIn(heap, cf.previous) EXCEPT
                ![i] = Shown!Patched(LooksIn(heap, cf.previous)[i], visible, enabled)]
            /\ LooksIn(heap, cf.previous)[i] = Look(heap[id])
        BY <1>1, <1>7, <1>8, <4>1
      <4>3. i \in DOMAIN LooksIn(heap, cf.previous)
        BY DEF LooksIn
      <4> QED BY <2>3, <4>2, <4>3
    <3> QED BY <3>1, <3>2
  <2>5. Shown!PatchLive(k, visible, enabled)
    <3>1. Layers("live")' = Layers("live") /\ Layers("preview")' = Layers("preview")
      BY <1>3 DEF Layers
    <3>2. \/ UNCHANGED ShownFade(heap, cf)
          \/ \E i \in DOMAIN ShownFade(heap, cf).from :
               /\ ShownFade(heap, cf).from[i] = LooksIn(heap, Layers("live"))[k]
               /\ ShownFade(heap, cf)' = [ShownFade(heap, cf) EXCEPT
                    !.from[i] = Shown!Patched(LooksIn(heap, Layers("live"))[k],
                                              visible, enabled)]
      BY <1>3, <2>4 DEF ShownFade
    <3> QED BY <1>3, <2>2, <2>3, <3>1, <3>2
          DEF Shown!PatchLive, Shown!settings, ShownFade
  <2> QED BY <1>9, <1>10, <2>5
<1>11. CASE slot = "preview"
  <2>1. id \notin ToSet(Layers("live")) /\ id \notin ToSet(cf.previous)
    BY <1>2, <1>11 DEF IInv, Isolated, Ids
  <2>2. /\ LooksIn(heap', Layers("live")) = LooksIn(heap, Layers("live"))
        /\ LooksIn(heap', cf.previous) = LooksIn(heap, cf.previous)
    BY <1>1, <1>6, <2>1
  <2>3. LooksIn(heap', Layers("preview")) = [LooksIn(heap, Layers("preview")) EXCEPT
              ![k] = Shown!Patched(LooksIn(heap, Layers("preview"))[k], visible, enabled)]
    BY <1>1, <1>2, <1>7, <1>8, <1>9, <1>11
  <2>4. Shown!PatchPreview(k, visible, enabled)
    <3>1. Layers("live")' = Layers("live") /\ Layers("preview")' = Layers("preview")
      BY <1>3 DEF Layers
    <3> QED BY <1>3, <2>2, <2>3, <3>1 DEF Shown!PatchPreview, Shown!settings
  <2> QED BY <1>9, <1>11, <2>4
<1> QED BY <1>10, <1>11 DEF Slot

(***************************************************************************)
(* Clones look like copies, whichever objects they are.                    *)
(***************************************************************************)
LEMMA CloneLook ==
  ASSUME NEW l \in Layer
  PROVE  Look(CloneLayer(l)) = Shown!Copy(Look(l))
<1>1. CASE l.copyable
  <2> DEFINE c == [l EXCEPT !.failures = 0, !.samples = << >>, !.over = 0]
  <2>1. /\ c.enabled = l.enabled /\ c.visible = l.visible
        /\ c.copyable = l.copyable /\ c.topology = l.topology
    BY DEF Layer
  <2>2. CloneLayer(l) = c
    BY <1>1 DEF CloneLayer
  <2> HIDE DEF c
  <2>3. Look(c) = Look(l) /\ Shown!Copy(Look(l)) = Look(l)
    BY <1>1, <2>1 DEF Look, Shown!Copy
  <2> QED BY <2>2, <2>3
<1>2. CASE ~l.copyable
  BY <1>2 DEF CloneLayer, RecompiledLayer, CompiledLayer, Look, Shown!Copy, Shown!Made
<1> QED BY <1>1, <1>2

LEMMA ClonesShown ==
  ASSUME IInv, IInv', NEW from \in Slot, NEW to \in Slot,
         NEW clones \in FreshIds(Len(Layers(from))), CloneInto(from, to, clones)
  PROVE  /\ comp'[to].layers = clones
         /\ \A other \in Slot : other # to => comp'[other] = comp[other]
         /\ LooksIn(heap', clones) = Shown!Copies(LooksIn(heap, Layers(from)))
         /\ \A id \in Reachable \cap Reachable' : heap'[id] = heap[id]
<1> DEFINE copied(id) == \E i \in DOMAIN clones : clones[i] = id
           source(id) == Layers(from)[CHOOSE i \in DOMAIN clones : clones[i] = id]
           h == [id \in LayerId |-> IF copied(id) THEN CloneLayer(heap[source(id)])
                                   ELSE heap[id]]
<1>1. /\ comp' = [comp EXCEPT ![to] = [layers |-> clones,
                                       selected |-> comp[from].selected]]
      /\ heap' = [id \in LayerId |-> IF id \in Reachable' THEN h[id] ELSE Collected]
  BY DEF CloneInto, Collect
<1>2. /\ comp'[to].layers = clones
      /\ \A other \in Slot : other # to => comp'[other] = comp[other]
  BY <1>1 DEF IInv, TypeOK
<1>3. /\ Layers(from) \in Seq(LayerId) /\ Len(Layers(from)) \in Nat
      /\ heap \in [LayerId -> Layer]
  BY ReachableTyped DEF IInv, TypeOK
<1>4. /\ clones \in Seq(LayerId) /\ Len(clones) = Len(Layers(from))
      /\ Injective(clones) /\ ToSet(clones) \cap Reachable = {}
  BY <1>3, FreshIdsUnused
<1>5. ToSet(clones) \subseteq Reachable' /\ Reachable' \subseteq LayerId
  <2>1. ToSet(clones) \subseteq Reachable'
    BY <1>2 DEF Reachable, Ids, Layers, Slot
  <2> QED BY <2>1, NextReachable DEF IInv
<1>6. \A id \in Reachable \cap Reachable' : heap'[id] = heap[id]
  <2> TAKE id \in Reachable \cap Reachable'
  <2>1. ~copied(id) /\ id \in LayerId
    BY <1>4, <1>5 DEF ToSet
  <2>2. h[id] = heap[id]
    BY <2>1
  <2> HIDE DEF h
  <2> QED BY <1>1, <2>1, <2>2
<1>7. ASSUME NEW i \in DOMAIN clones
      PROVE  Look(heap'[clones[i]]) = Shown!Copy(Look(heap[Layers(from)[i]]))
  <2>1. /\ clones[i] \in ToSet(clones) /\ copied(clones[i])
        /\ clones[i] \in LayerId
    BY <1>4 DEF ToSet
  <2>2. (CHOOSE j \in DOMAIN clones : clones[j] = clones[i]) = i
    BY <1>4 DEF Injective
  <2>3. h[clones[i]] = CloneLayer(heap[Layers(from)[i]])
    BY <2>1, <2>2
  <2> HIDE DEF h
  <2>4. heap'[clones[i]] = CloneLayer(heap[Layers(from)[i]])
    BY <1>1, <1>5, <2>1, <2>3
  <2>5. heap[Layers(from)[i]] \in Layer
    BY <1>3, <1>4
  <2> QED BY <2>4, <2>5, CloneLook
<1> HIDE DEF h
<1>8. LooksIn(heap', clones) = Shown!Copies(LooksIn(heap, Layers(from)))
  <2>1. DOMAIN clones = DOMAIN Layers(from)
    BY <1>3, <1>4
  <2>2. LooksIn(heap', clones)
          = [i \in DOMAIN Layers(from) |-> Shown!Copy(Look(heap[Layers(from)[i]]))]
    BY <1>7, <2>1 DEF LooksIn
  <2> QED BY <2>2 DEF Shown!Copies, LooksIn
<1> QED BY <1>2, <1>6, <1>8

LEMMA PromoteShown ==
  ASSUME IInv, IInv', Promote
  PROVE  Shown!Promote
<1>1. PICK clones \in FreshIds(Len(Layers("preview"))) :
        CloneInto("preview", "live", clones)
  BY DEF Promote
<1>2. /\ comp'["live"].layers = clones
      /\ comp'["preview"] = comp["preview"]
      /\ LooksIn(heap', clones) = Shown!Copies(LooksIn(heap, Layers("preview")))
      /\ \A id \in Reachable \cap Reachable' : heap'[id] = heap[id]
  BY <1>1, ClonesShown DEF Slot
<1>3. /\ cf' = CrossfadeFrom(Layers("live")) /\ crossfadeSeconds' = crossfadeSeconds
      /\ mode' = mode /\ topology' = topology
  BY <1>1 DEF CloneInto, FadeIfLive, settings
<1>4. /\ Layers("live") \in Seq(LayerId) /\ Layers("preview") \in Seq(LayerId)
      /\ Ids("live") \subseteq Reachable /\ Ids("preview") \subseteq Reachable
  BY ReachableTyped DEF IInv, Slot
<1>5. /\ ToSet(comp'["preview"].layers) \subseteq Reachable'
      /\ ToSet(cf'.previous) \subseteq Reachable'
  BY DEF Reachable, Ids, Layers
<1>6. LooksIn(heap', comp'["preview"].layers) = LooksIn(heap, Layers("preview"))
  <2>1. Agree(heap', heap, Layers("preview"))
    BY <1>2, <1>4, <1>5 DEF Agree, Ids, ToSet, Layers
  <2> QED BY <1>2, <2>1, SameLooks DEF Layers
<1>7. ShownFade(heap', cf') = Shown!FadeFrom(LooksIn(heap, Layers("live")))
  <2> DEFINE h == heap'
  <2>1. Agree(h, heap, CrossfadeFrom(Layers("live")).previous)
    <3>1. CrossfadeFrom(Layers("live")).previous \in {Layers("live"), << >>}
      BY DEF CrossfadeFrom, NoCrossfade
    <3>2. CASE CrossfadeFrom(Layers("live")).previous = Layers("live")
      <4>1. ToSet(Layers("live")) \subseteq Reachable \cap Reachable'
        BY <1>3, <1>4, <1>5, <3>2 DEF Ids
      <4>2. Agree(h, heap, Layers("live"))
        BY <1>2, <4>1 DEF Agree, ToSet
      <4> QED BY <3>2, <4>2
    <3>3. CASE CrossfadeFrom(Layers("live")).previous = << >>
      BY <3>3 DEF Agree
    <3> QED BY <3>1, <3>2, <3>3
  <2> HIDE DEF h
  <2>2. ShownFade(h, CrossfadeFrom(Layers("live")))
          = Shown!FadeFrom(LooksIn(heap, Layers("live")))
    BY <1>4, <2>1, FadeShown DEF IInv
  <2> QED BY <1>3, <2>2 DEF h
<1> QED BY <1>2, <1>3, <1>6, <1>7
     DEF Shown!Promote, Shown!settings, Layers, ShownFade

LEMMA PullShown ==
  ASSUME IInv, IInv', PullLiveToPreview
  PROVE  Shown!Pull
<1>1. PICK clones \in FreshIds(Len(Layers("live"))) :
        CloneInto("live", "preview", clones)
  BY DEF PullLiveToPreview
<1>2. /\ comp'["preview"].layers = clones
      /\ comp'["live"] = comp["live"]
      /\ LooksIn(heap', clones) = Shown!Copies(LooksIn(heap, Layers("live")))
      /\ \A id \in Reachable \cap Reachable' : heap'[id] = heap[id]
  BY <1>1, ClonesShown DEF Slot
<1>3. /\ cf' = cf /\ crossfadeSeconds' = crossfadeSeconds
      /\ mode' = mode /\ topology' = topology
  BY <1>1 DEF CloneInto, FadeIfLive, settings
<1>4. /\ Ids("live") \subseteq Reachable /\ ToSet(cf.previous) \subseteq Reachable
  BY ReachableTyped DEF IInv, Slot
<1>5. /\ ToSet(comp'["live"].layers) \subseteq Reachable'
      /\ ToSet(cf'.previous) \subseteq Reachable'
  BY DEF Reachable, Ids, Layers
<1>6. LooksIn(heap', comp'["live"].layers) = LooksIn(heap, Layers("live"))
  <2>1. Agree(heap', heap, Layers("live"))
    BY <1>2, <1>4, <1>5 DEF Agree, Ids, ToSet, Layers
  <2> QED BY <1>2, <2>1, SameLooks DEF Layers
<1>7. ShownFade(heap', cf') = ShownFade(heap, cf)
  <2>1. Agree(heap', heap, cf.previous)
    BY <1>2, <1>3, <1>4, <1>5 DEF Agree, ToSet
  <2>2. LooksIn(heap', cf.previous) = LooksIn(heap, cf.previous)
    BY <2>1, SameLooks
  <2> QED BY <1>3, <2>2 DEF ShownFade
<1> QED BY <1>2, <1>3, <1>6, <1>7
     DEF Shown!Pull, Shown!settings, Layers, ShownFade

(***************************************************************************)
(* The survivors of a topology swap, made again.                           *)
(***************************************************************************)
LEMMA MadeAgainShown ==
  ASSUME NEW g, NEW h, NEW t, NEW old \in Seq(LayerId), NEW f \in Survivors(old),
         \A i \in DOMAIN f : h[old[f[i]]] =
            CompiledLayer(g[old[f[i]]].copyable, g[old[f[i]]].visible, t)
  PROVE  Shown!MadeAgain(LooksIn(h, [i \in DOMAIN f |-> old[f[i]]]),
                         LooksIn(g, old), t)
<1> DEFINE new == LooksIn(h, [i \in DOMAIN f |-> old[f[i]]])
           was == LooksIn(g, old)
<1>1. PICK n \in 0..Len(old) : f \in [1..n -> 1..Len(old)]
  BY DEF Survivors
<1>2. /\ DOMAIN new = DOMAIN f /\ DOMAIN was = DOMAIN old
      /\ DOMAIN old = 1..Len(old)
  BY DEF LooksIn
<1>3. f \in [DOMAIN new -> DOMAIN was]
  BY <1>1, <1>2
<1>4. \A i, j \in DOMAIN new : i < j => f[i] < f[j]
  BY <1>2 DEF Survivors
<1>5. \A i \in DOMAIN new :
        new[i] = Shown!Made(was[f[i]].copyable, was[f[i]].visible, t)
  <2> TAKE i \in DOMAIN new
  <2>1. i \in DOMAIN f /\ f[i] \in DOMAIN old
    BY <1>2, <1>3
  <2>2. /\ new[i] = Look(h[old[f[i]]])
        /\ was[f[i]] = Look(g[old[f[i]]])
    BY <2>1 DEF LooksIn
  <2>3. h[old[f[i]]] = CompiledLayer(g[old[f[i]]].copyable, g[old[f[i]]].visible, t)
    BY <2>1
  <2>4. /\ was[f[i]].copyable = g[old[f[i]]].copyable
        /\ was[f[i]].visible = g[old[f[i]]].visible
    BY <2>2 DEF Look
  <2> HIDE DEF new, was
  <2> QED BY <2>2, <2>3, <2>4 DEF Look, CompiledLayer, Shown!Made
<1> HIDE DEF new, was
<1>6. Shown!MadeAgain(new, was, t)
  BY <1>3, <1>4, <1>5, Zenon DEF Shown!MadeAgain
<1> QED BY <1>6 DEF new, was

LEMMA SurvivorPlaces ==
  ASSUME NEW s \in Seq(LayerId), NEW f \in Survivors(s)
  PROVE  \A i \in DOMAIN f : f[i] \in DOMAIN s
<1>1. PICK n \in 0..Len(s) : f \in [1..n -> 1..Len(s)]
  BY DEF Survivors
<1> QED BY <1>1

LEMMA SwapShown ==
  ASSUME IInv, IInv', NEW t \in Topology, SwapTopology(t)
  PROVE  Shown!Swap(t)
<1>1. PICK live \in Survivors(Layers("live")),
           preview \in Survivors(Layers("preview")) :
        LET kept == [slot \in Slot |-> IF slot = "live" THEN live ELSE preview]
        IN  /\ topology' = t
            /\ comp' = [slot \in Slot |-> Keeping(comp[slot], kept[slot])]
            /\ DiscardCrossfade
            /\ Collect([id \in LayerId |->
                 IF id \in Ids("live") \cup Ids("preview")
                 THEN CompiledLayer(heap[id].copyable, heap[id].visible, t)
                 ELSE heap[id]])
            /\ UNCHANGED <<crossfadeSeconds, mode, frameState>>
  BY DEF SwapTopology
<1> DEFINE h == [id \in LayerId |->
                   IF id \in Ids("live") \cup Ids("preview")
                   THEN CompiledLayer(heap[id].copyable, heap[id].visible, t)
                   ELSE heap[id]]
<1>2. /\ topology' = t /\ crossfadeSeconds' = crossfadeSeconds /\ mode' = mode
      /\ cf' = NoCrossfade
      /\ heap' = [id \in LayerId |-> IF id \in Reachable' THEN h[id] ELSE Collected]
      /\ comp'["live"].layers = [i \in DOMAIN live |-> Layers("live")[live[i]]]
      /\ comp'["preview"].layers = [i \in DOMAIN preview |-> Layers("preview")[preview[i]]]
  BY <1>1 DEF DiscardCrossfade, Collect, Keeping, Layers, Slot
<1>3. /\ Layers("live") \in Seq(LayerId) /\ Layers("preview") \in Seq(LayerId)
      /\ Reachable' \subseteq LayerId
  BY ReachableTyped, NextReachable DEF IInv, Slot
<1>4. /\ ToSet(comp'["live"].layers) \subseteq Reachable'
      /\ ToSet(comp'["preview"].layers) \subseteq Reachable'
  BY DEF Reachable, Ids, Layers
<1>5. ASSUME NEW id \in Reachable', id \in Ids("live") \cup Ids("preview")
      PROVE  heap'[id] = CompiledLayer(heap[id].copyable, heap[id].visible, t)
  <2>1. h[id] = CompiledLayer(heap[id].copyable, heap[id].visible, t)
    BY <1>3, <1>5
  <2> HIDE DEF h
  <2> QED BY <1>2, <1>3, <2>1
<1> HIDE DEF h
<1> DEFINE g == heap'
           kept == [i \in DOMAIN live |-> Layers("live")[live[i]]]
           left == [i \in DOMAIN preview |-> Layers("preview")[preview[i]]]
<1>6. Shown!MadeAgain(LooksIn(g, kept), LooksIn(heap, Layers("live")), t)
  <2>1. \A i \in DOMAIN live : live[i] \in DOMAIN Layers("live")
    BY <1>3, SurvivorPlaces
  <2>2. \A i \in DOMAIN live : g[Layers("live")[live[i]]] =
          CompiledLayer(heap[Layers("live")[live[i]]].copyable,
                        heap[Layers("live")[live[i]]].visible, t)
    <3> TAKE i \in DOMAIN live
    <3>1. /\ Layers("live")[live[i]] \in Ids("live")
          /\ Layers("live")[live[i]] \in Reachable'
      BY <1>2, <1>4, <2>1 DEF Ids, ToSet
    <3> QED BY <1>5, <3>1
  <2> HIDE DEF g
  <2> QED BY <1>3, <2>2, MadeAgainShown
<1>7. Shown!MadeAgain(LooksIn(g, left), LooksIn(heap, Layers("preview")), t)
  <2>1. \A i \in DOMAIN preview : preview[i] \in DOMAIN Layers("preview")
    BY <1>3, SurvivorPlaces
  <2>2. \A i \in DOMAIN preview : g[Layers("preview")[preview[i]]] =
          CompiledLayer(heap[Layers("preview")[preview[i]]].copyable,
                        heap[Layers("preview")[preview[i]]].visible, t)
    <3> TAKE i \in DOMAIN preview
    <3>1. /\ Layers("preview")[preview[i]] \in Ids("preview")
          /\ Layers("preview")[preview[i]] \in Reachable'
      BY <1>2, <1>4, <2>1 DEF Ids, ToSet
    <3> QED BY <1>5, <3>1
  <2> HIDE DEF g
  <2> QED BY <1>3, <2>2, MadeAgainShown
<1>8. ShownFade(heap', cf') = Shown!NoFade
  <2>1. cf'.previous = << >> /\ cf'.duration = 0
    BY <1>2 DEF NoCrossfade
  <2>2. LooksIn(heap', << >>) = << >>
    BY DEF LooksIn
  <2> QED BY <2>1, <2>2 DEF ShownFade, Shown!NoFade
<1>9. /\ Layers("live")' = kept /\ Layers("preview")' = left
  BY <1>2 DEF Layers
<1> HIDE DEF kept, left
<1> QED BY <1>2, <1>6, <1>7, <1>8, <1>9 DEF Shown!Swap, ShownFade

(***************************************************************************)
(* A frame shows or switches off, layer by layer.                          *)
(***************************************************************************)
Dims(l, m) == m \in Layer /\ Look(m) \in {Look(l), Shown!Off(Look(l))}

LEMMA OffLook ==
  ASSUME NEW l \in Layer
  PROVE  Shown!Off(Look(l)) = [enabled |-> FALSE, visible |-> l.visible,
                               copyable |-> l.copyable, topology |-> l.topology]
<1>1. /\ Look(l) \in [enabled : BOOLEAN, visible : BOOLEAN, copyable : BOOLEAN,
                     topology : Topology]
      /\ Look(l).visible = l.visible /\ Look(l).copyable = l.copyable
      /\ Look(l).topology = l.topology
  BY DEF Look, Layer
<1> DEFINE look == Look(l)
<1>3. look \in [enabled : BOOLEAN, visible : BOOLEAN, copyable : BOOLEAN,
               topology : Topology]
  BY <1>1
<1> HIDE DEF look
<1>2. [look EXCEPT !.enabled = FALSE] =
        [enabled |-> FALSE, visible |-> look.visible,
         copyable |-> look.copyable, topology |-> look.topology]
  <2> DEFINE off == [look EXCEPT !.enabled = FALSE]
  <2>1. /\ off \in [enabled : BOOLEAN, visible : BOOLEAN, copyable : BOOLEAN,
                    topology : Topology]
        /\ off.enabled = FALSE /\ off.visible = look.visible
        /\ off.copyable = look.copyable /\ off.topology = look.topology
    BY <1>3
  <2> HIDE DEF off
  <2>2. off = [enabled |-> off.enabled, visible |-> off.visible,
               copyable |-> off.copyable, topology |-> off.topology]
    BY <2>1
  <2>3. off = [enabled |-> FALSE, visible |-> look.visible,
               copyable |-> look.copyable, topology |-> look.topology]
    BY <2>1, <2>2
  <2> QED BY <2>3 DEF off
<1> QED BY <1>1, <1>2 DEF Shown!Off, look

LEMMA StrikeDims ==
  ASSUME NEW l \in Layer
  PROVE  Dims(l, Strike(l))
<1>1. Strike(l) \in Layer
  BY StrikeType
<1> DEFINE n == AtMost(l.failures + 1, FailLimit)
           e == l.enabled /\ n < FailLimit
<1>2. Strike(l) = [l EXCEPT !.failures = n, !.enabled = e]
  BY DEF Strike, StrikeOnly
<1>5. e = l.enabled \/ e = FALSE
  BY DEF Layer
<1> HIDE DEF n, e
<1>3. CASE e = l.enabled
  <2>1. Look(Strike(l)) = Look(l)
    BY <1>2, <1>3 DEF Look, Layer
  <2> QED BY <1>1, <2>1 DEF Dims
<1>4. CASE e = FALSE
  <2>1. /\ Strike(l).enabled = FALSE /\ Strike(l).visible = l.visible
        /\ Strike(l).copyable = l.copyable /\ Strike(l).topology = l.topology
    BY <1>2, <1>4 DEF Layer
  <2>2. Look(Strike(l)) = Shown!Off(Look(l))
    BY <2>1, OffLook DEF Look
  <2> QED BY <1>1, <2>2 DEF Dims
<1> QED BY <1>3, <1>4, <1>5

LEMMA DimsAgain ==
  ASSUME NEW k \in Layer, NEW l, NEW m, Dims(k, l), Dims(l, m)
  PROVE  Dims(k, m)
<1>1. Shown!Off(Shown!Off(Look(k))) = Shown!Off(Look(k))
  BY DEF Shown!Off, Look
<1> QED BY <1>1 DEF Dims

LEMMA RenderLayerDims ==
  ASSUME NEW l \in Layer, NEW o
  PROVE  Dims(l, RenderLayer(l, o))
<1> DEFINE timed == Timed(l, OverBudget(o))
<1>1. OverBudget(o) \in BOOLEAN
  BY DEF OverBudget
<1>2. timed \in Layer /\ Look(timed) = Look(l)
  <2>1. timed \in Layer
    BY <1>1, TimedType
  <2>2. PICK s, n : timed = [l EXCEPT !.samples = s, !.over = n]
    BY DEF Timed
  <2> HIDE DEF timed
  <2> QED BY <2>1, <2>2 DEF Look, Layer
<1>3. Dims(l, l) /\ Dims(l, timed)
  BY <1>2 DEF Dims
<1>4. RenderLayer(l, o) \in Layer
  BY RenderLayerType
<1> HIDE DEF timed
<1>5. Look([timed EXCEPT !.enabled = FALSE]) = Shown!Off(Look(l))
  <2> DEFINE off == [timed EXCEPT !.enabled = FALSE]
  <2>1. /\ off.enabled = FALSE /\ off.visible = timed.visible
        /\ off.copyable = timed.copyable /\ off.topology = timed.topology
    BY <1>2 DEF Layer
  <2> HIDE DEF off
  <2>2. Look(off) = Shown!Off(Look(timed))
    BY <1>2, <2>1, OffLook DEF Look
  <2> QED BY <1>2, <2>2 DEF off
<1>6. Look([timed EXCEPT !.failures = 0]) = Look(l)
  BY <1>2 DEF Look, Layer
<1>7. RenderLayer(l, o) \in {l, Strike(l), [timed EXCEPT !.enabled = FALSE],
                            Strike(timed), [timed EXCEPT !.failures = 0]}
  BY DEF RenderLayer, timed
<1>8. Dims(l, Strike(l)) /\ Dims(l, Strike(timed))
  BY <1>2, <1>3, StrikeDims, DimsAgain
<1> QED BY <1>3, <1>4, <1>5, <1>6, <1>7, <1>8 DEF Dims

LEMMA RenderCompositionDims ==
  ASSUME NEW h, NEW ids, NEW outcome, NEW id \in LayerId, h[id] \in Layer
  PROVE  Dims(h[id], RenderComposition(h, ids, outcome)[id])
<1>1. RenderComposition(h, ids, outcome)[id]
        \in {RenderLayer(h[id], outcome[id]), h[id]}
  BY DEF RenderComposition
<1>2. Dims(h[id], h[id])
  BY DEF Dims
<1> QED BY <1>1, <1>2, RenderLayerDims

LEMMA RenderShown ==
  ASSUME IInv, IInv', NEW gap \in 1..MaxGap, NEW dt \in 1..MaxGap,
         NEW viewers \in BOOLEAN, Render(gap, dt, viewers)
  PROVE  Shown!Frame
<1> DEFINE age == Age(gap)
           fading == Crossfading /\ age < cf.duration
           ghosts == IF fading THEN ToSet(cf.previous) ELSE {}
           tick == IF mode = "design" /\ viewers THEN 1 - previewTick ELSE previewTick
           fresh == mode = "design" /\ viewers /\ tick = 0
           drafts == IF fresh THEN Ids("preview") ELSE {}
<1>1. /\ cf' = IF fading THEN [cf EXCEPT !.age = age] ELSE NoCrossfade
      /\ comp' = comp /\ crossfadeSeconds' = crossfadeSeconds
      /\ mode' = mode /\ topology' = topology
  BY DEF Render, settings
<1>2. PICK before, now, draft :
        Collect(RenderComposition(
                  RenderComposition(
                    RenderComposition(heap, ghosts, before),
                    Ids("live"), now),
                  drafts, draft))
  BY DEF Render
<1>3. mode = "live" => drafts = {}
  OBVIOUS
<1>4. ghosts \subseteq ToSet(cf.previous)
  OBVIOUS
<1> DEFINE shown == Ids("live")
           h1 == RenderComposition(heap, ghosts, before)
           h2 == RenderComposition(h1, shown, now)
           h3 == RenderComposition(h2, drafts, draft)
<1>5. heap' = [id \in LayerId |-> IF id \in Reachable' THEN h3[id] ELSE Collected]
  BY <1>2 DEF Collect
<1> HIDE DEF fading, ghosts, drafts, fresh
<1>6. /\ Layers("live") \in Seq(LayerId) /\ Layers("preview") \in Seq(LayerId)
      /\ cf.previous \in Seq(LayerId) /\ heap \in [LayerId -> Layer]
      /\ Reachable' \subseteq LayerId
  BY ReachableTyped, NextReachable DEF IInv, Slot, TypeOK
<1>7. ASSUME NEW id \in LayerId
      PROVE  Dims(heap[id], h3[id])
  <2>1. heap[id] \in Layer
    BY <1>6
  <2>2. Dims(heap[id], h1[id])
    BY <2>1, RenderCompositionDims
  <2>3. h1[id] \in Layer
    BY <2>2 DEF Dims
  <2> HIDE DEF h1, shown
  <2>4. Dims(h1[id], h2[id])
    BY <2>3, RenderCompositionDims
  <2>5. h2[id] \in Layer
    BY <2>4 DEF Dims
  <2> HIDE DEF h2
  <2>6. Dims(h2[id], h3[id])
    BY <2>5, RenderCompositionDims
  <2> HIDE DEF h3
  <2>7. Dims(heap[id], h2[id])
    BY <2>1, <2>2, <2>4, DimsAgain
  <2> QED BY <2>1, <2>6, <2>7, DimsAgain
<1>8. ASSUME NEW id \in LayerId, id \notin ghosts, id \notin shown, id \notin drafts
      PROVE  h3[id] = heap[id]
  BY <1>8 DEF RenderComposition
<1> HIDE DEF h3
<1>9. ASSUME NEW q \in Seq(LayerId), ToSet(q) \subseteq Reachable'
      PROVE  Shown!Dimmed(LooksIn(heap', q), LooksIn(heap, q))
  <2>1. \A i \in DOMAIN q : q[i] \in LayerId /\ q[i] \in Reachable'
    BY <1>9 DEF ToSet
  <2>2. \A i \in DOMAIN q : Look(heap'[q[i]]) \in {Look(heap[q[i]]),
                                                  Shown!Off(Look(heap[q[i]]))}
    BY <1>5, <1>7, <2>1 DEF Dims
  <2> QED BY <2>2 DEF Shown!Dimmed, LooksIn
<1>10. /\ ToSet(comp'["live"].layers) \subseteq Reachable'
       /\ ToSet(comp'["preview"].layers) \subseteq Reachable'
       /\ ToSet(cf'.previous) \subseteq Reachable'
  BY DEF Reachable, Ids, Layers
<1>11. /\ Shown!Dimmed(LooksIn(heap', Layers("live")), LooksIn(heap, Layers("live")))
       /\ Shown!Dimmed(LooksIn(heap', Layers("preview")), LooksIn(heap, Layers("preview")))
  BY <1>1, <1>6, <1>9, <1>10 DEF Layers
<1>12. ASSUME mode = "live"
       PROVE  LooksIn(heap', Layers("preview")) = LooksIn(heap, Layers("preview"))
  <2>1. \A id \in Ids("preview") : id \notin ghosts /\ id \notin shown /\ id \notin drafts
    BY <1>3, <1>4, <1>12 DEF IInv, Isolated
  <2>2. ToSet(Layers("preview")) \subseteq Reachable'
    BY <1>1, <1>10 DEF Layers
  <2>3. Agree(heap', heap, Layers("preview"))
    <3>1. \A i \in DOMAIN Layers("preview") :
            /\ Layers("preview")[i] \in LayerId
            /\ Layers("preview")[i] \in Ids("preview")
            /\ Layers("preview")[i] \in Reachable'
      BY <1>6, <2>2 DEF Ids, ToSet
    <3> HIDE DEF shown
    <3> QED BY <1>5, <1>8, <2>1, <3>1 DEF Agree
  <2> QED BY <2>3, SameLooks
<1>13. \/ ShownFade(heap', cf') = Shown!NoFade
       \/ /\ Shown!Dimmed(LooksIn(heap', cf'.previous), LooksIn(heap, cf.previous))
          /\ cf'.duration = cf.duration
  <2>1. CASE ~fading
    <3>1. cf'.previous = << >> /\ cf'.duration = 0
      BY <1>1, <2>1 DEF NoCrossfade
    <3>2. LooksIn(heap', << >>) = << >>
      BY DEF LooksIn
    <3> QED BY <3>1, <3>2 DEF ShownFade, Shown!NoFade
  <2>2. CASE fading
    <3>1. cf' = [cf EXCEPT !.age = age]
      BY <1>1, <2>2
    <3>2. cf'.previous = cf.previous /\ cf'.duration = cf.duration
      BY <3>1 DEF IInv, TypeOK
    <3> QED BY <1>6, <1>9, <1>10, <3>2
  <2> QED BY <2>1, <2>2
<1>14. Layers("live")' = Layers("live") /\ Layers("preview")' = Layers("preview")
  BY <1>1 DEF Layers
<1>15. \/ ShownFade(heap, cf)' = Shown!NoFade
       \/ /\ Shown!Dimmed(ShownFade(heap, cf)'.from, ShownFade(heap, cf).from)
          /\ ShownFade(heap, cf)' = [ShownFade(heap, cf) EXCEPT
                                      !.from = ShownFade(heap, cf)'.from]
  BY <1>13 DEF ShownFade
<1> QED BY <1>1, <1>11, <1>12, <1>14, <1>15
     DEF Shown!Frame, Shown!settings, ShownFade

LEMMA StepShown == IInv /\ IInv' /\ [Next]_vars => [Shown!Next]_(Shown!vars)
<1> SUFFICES ASSUME IInv, IInv', [Next]_vars PROVE [Shown!Next]_(Shown!vars)
  OBVIOUS
<1>1. Index \subseteq Nat /\ Copyable \subseteq BOOLEAN /\ Visible \subseteq BOOLEAN
  BY DEF Index
<1>2. ASSUME NEW slot \in Slot, NEW index \in Index, NEW copyable \in Copyable,
             NEW visible \in Visible,
             \/ ReplaceLayer(slot, index, copyable, visible)
             \/ InsertLayer(slot, index, copyable, visible)
      PROVE  Shown!Next
  <2>1. Installs(slot)
    BY <1>1, <1>2, ReplaceLayerInstalls, InsertLayerInstalls
  <2> QED BY <2>1, InstallShown DEF Shown!Next
<1>3. ASSUME NEW slot \in Slot, NEW index \in Index, RemoveLayer(slot, index)
      PROVE  Shown!Next
  <2>1. Rearranges(slot)
    BY <1>1, <1>3, RemoveLayerRearranges
  <2> QED BY <2>1, RearrangeShown DEF Shown!Next
<1>4. ASSUME NEW slot \in Slot, NEW src \in Index, NEW dst \in Index,
             ReorderLayer(slot, src, dst)
      PROVE  Shown!Next
  <2>1. Rearranges(slot)
    BY <1>1, <1>4, ReorderLayerRearranges
  <2> QED BY <2>1, RearrangeShown DEF Shown!Next
<1>5. ASSUME NEW slot \in Slot, NEW index \in Index, NEW visible \in Visible,
             NEW enabled \in BOOLEAN, PatchLayerMeta(slot, index, visible, enabled)
      PROVE  Shown!Next
  BY <1>1, <1>5, PatchShown DEF Shown!Next
<1>6. ASSUME NEW slot \in Slot, NEW index \in Index, SelectLayer(slot, index)
      PROVE  UNCHANGED Shown!vars
  <2>1. /\ \A any \in Slot : comp'[any].layers = comp[any].layers
        /\ UNCHANGED <<heap, cf, settings, frameState>>
    BY <1>6 DEF SelectLayer, Selecting, IInv, TypeOK, Composition
  <2>2. Layers("live")' = Layers("live") /\ Layers("preview")' = Layers("preview")
    BY <2>1 DEF Layers, Slot
  <2> QED BY <2>1, <2>2 DEF Shown!vars, settings
<1>7. ASSUME NEW m \in Modes, SetMode(m) PROVE Shown!Next
  <2>1. Shown!SetMode
    <3>1. Layers("live")' = Layers("live") /\ Layers("preview")' = Layers("preview")
      BY <1>7 DEF SetMode, Layers
    <3> QED BY <1>7, <3>1 DEF SetMode, Shown!SetMode
  <2> QED BY <2>1 DEF Shown!Next
<1>8. ASSUME NEW d \in Durations, SetCrossfadeSeconds(d) PROVE Shown!Next
  <2>1. Shown!SetSeconds
    <3>1. Layers("live")' = Layers("live") /\ Layers("preview")' = Layers("preview")
      BY <1>8 DEF SetCrossfadeSeconds, Layers
    <3> QED BY <1>8, <3>1 DEF SetCrossfadeSeconds, Shown!SetSeconds
  <2> QED BY <2>1 DEF Shown!Next
<1>9. ASSUME Promote PROVE Shown!Next
  BY <1>9, PromoteShown DEF Shown!Next
<1>10. ASSUME PullLiveToPreview PROVE Shown!Next
  BY <1>10, PullShown DEF Shown!Next
<1>11. ASSUME NEW t \in Topology, SwapTopology(t) PROVE Shown!Next
  BY <1>11, SwapShown DEF Shown!Next
<1>12. ASSUME NEW gap \in 1..MaxGap, NEW dt \in 1..MaxGap, NEW viewers \in BOOLEAN,
              Render(gap, dt, viewers)
       PROVE  Shown!Next
  BY <1>12, RenderShown DEF Shown!Next
<1>13. CASE UNCHANGED vars
  <2>1. Layers("live")' = Layers("live") /\ Layers("preview")' = Layers("preview")
    BY <1>13 DEF vars, Layers
  <2> QED BY <1>13, <2>1 DEF vars, Shown!vars
<1>14. CASE OperatorEdit
  BY <1>2, <1>3, <1>4, <1>5, <1>6, <1>7, <1>8, <1>9, <1>10, <1>11, <1>14
     DEF OperatorEdit
<1>15. CASE Frame
  BY <1>12, <1>15 DEF Frame
<1> QED BY <1>13, <1>14, <1>15 DEF Next

LEMMA StartShown == Init => Shown!Init
<1> SUFFICES ASSUME Init PROVE Shown!Init
  OBVIOUS
<1>1. /\ Layers("live") = << >> /\ Layers("preview") = << >>
      /\ cf.previous = << >> /\ cf.duration = 0
  BY DEF Init, Layers, EmptyStack, NoCrossfade, Slot
<1>2. LooksIn(heap, << >>) = << >>
  BY DEF LooksIn
<1> QED BY <1>1, <1>2 DEF Init, Shown!Init, Shown!NoFade

(***************************************************************************)
(* The runtime implements Stage: layers are objects that frames and edits  *)
(* change in place and that a crossfade keeps alive, and yet the operator  *)
(* sees two stacks of values.                                              *)
(***************************************************************************)
THEOREM Implements == Spec => IsStage
<1>1. IInv /\ IInv' /\ [Next]_vars => [Shown!Next]_(Shown!vars)
  BY StepShown
<1> QED BY Invariance, StartShown, <1>1, PTL DEF Spec, IsStage, Shown!Spec
=============================================================================
