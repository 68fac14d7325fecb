----------------------------- MODULE MCRuntime -----------------------------
(***************************************************************************)
(* Instances of Runtime for TLC, and a view that forgets which identity a  *)
(* layer object has: two states that differ only in a renaming of the      *)
(* identities have the same view.                                          *)
(***************************************************************************)
EXTENDS Runtime

References == Layers("live") \o Layers("preview") \o cf.previous

Canonical ==
  LET refs == References
  IN  <<[i \in DOMAIN refs |-> heap[refs[i]]],
        [i \in DOMAIN refs |-> SelectInSeq(refs, LAMBDA id : id = refs[i])],
        [s \in Slot |-> <<Len(Layers(s)), comp[s].selected>>],
        cf.duration, cf.age, settings, frameState>>
=============================================================================
