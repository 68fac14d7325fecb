------------------------------ MODULE Library ------------------------------
(***************************************************************************)
(* The library of saved effects (surface/persistence.py, EffectStore), the *)
(* handlers of server.py that use it, and the layers that are on the rig:  *)
(* an effect is a directory with its source and a yaml file with its       *)
(* schema and values; a layer remembers the effect only by its name, under *)
(* which every slider drag is written back.                                *)
(*                                                                         *)
(* Covered faults: a crash, or an error of the file system, after any      *)
(* write, truncation or removal of a file that an operation makes, and the *)
(* restart that follows; files are written in place.  Not covered: a       *)
(* directory entry lost or reordered by the file system itself.            *)
(*                                                                         *)
(* A source is known by its version, a torn source does not compile.  A    *)
(* slot holds one layer, the one an operation addresses; the others and    *)
(* their selection are the matter of Runtime.                              *)
(***************************************************************************)
EXTENDS Params, FiniteSets

CONSTANTS
  Name,       \* names of effects
  Version,    \* effect sources, strings
  Schemas,    \* the schema each source declares
  Bundle,     \* the bundled examples: the source of each, by name
  PulseMono,  \* the effect both slots boot with
  Patches,    \* the slider patches operators send
  MaxFaults   \* bound: interrupted operations and crashes

ASSUME LibraryAssumption ==
  /\ Version \cap {"none", "torn", "blank"} = {}
  /\ DOMAIN Schemas = Version
  /\ \A v \in Version : \A k \in DOMAIN Schemas[v] : IsSpec(Schemas[v][k])
  /\ "?" \notin Text /\ "nowhere" \notin Name
  /\ Bundle \in [DOMAIN Bundle -> Version] /\ DOMAIN Bundle \subseteq Name
  /\ PulseMono \in DOMAIN Bundle
  /\ \A patch \in Patches :
       /\ Len(patch) \in Nat /\ DOMAIN patch = 1..Len(patch)
       /\ \A i \in DOMAIN patch : IsValue(patch[i][2])
  /\ MaxFaults \in Nat

VARIABLES
  up,       \* the server runs
  store,    \* the effect directories
  slot,     \* the live and the preview layer
  damaged,  \* history: names whose last write was interrupted, or whose
            \* values were written by a layer that never came from them
  faults    \* number of faults so far

vars == <<up, store, slot, damaged, faults>>

-----------------------------------------------------------------------------
Slot == {"live", "preview"}
Nothing == [k \in {} |-> 0]
Nowhere == "nowhere"

(***************************************************************************)
(* effect.yaml: the version whose schema it holds, and the values.  Parsed *)
(* as {} it is "blank".  A torn file parses as {} or raises; both end in a *)
(* refused load, and save_values and star then write a blank file or none. *)
(***************************************************************************)
Yaml(of, values) == [of |-> of, values |-> values]
NoYaml == Yaml("none", Nothing)
TornYaml == Yaml("torn", Nothing)

NoDirectory == [here |-> FALSE, py |-> "none", yml |-> NoYaml]
Directory(py, yml) == [here |-> TRUE, py |-> py, yml |-> yml]

SchemaOf(of) == IF of \in Version THEN Schemas[of] ELSE Nothing

(* EffectStore.exists, list and load ask for both files. *)
Complete(dir) == dir.py # "none" /\ dir.yml.of # "none"

(***************************************************************************)
(* A layer: its name, the version of its source and of its schema, its     *)
(* values, and (history) the saved effect it came from or was saved to.    *)
(***************************************************************************)
Layer(name, source, schema, values, home) ==
  [name |-> name, source |-> source, schema |-> schema, values |-> values,
   home |-> home]
NoLayer == Layer(Nowhere, "none", "none", Nothing, Nowhere)

Homeless(layer) == [layer EXCEPT !.home = Nowhere]
LosingHome(n) ==
  [s \in Slot |-> IF slot[s].home = n THEN Homeless(slot[s]) ELSE slot[s]]

(***************************************************************************)
(* load and install_layer: what loading a directory may put on the rig.    *)
(* The source must compile, no stored value may be refused, and the fence  *)
(* test renders it, which needs the keys it reads; of a source under       *)
(* another's schema the test may decide either way.                        *)
(***************************************************************************)
Loads(n, dir) ==
  LET schema == SchemaOf(dir.yml.of)
      layer == Layer(n, dir.py, dir.yml.of, Initial(schema, dir.yml.values), n)
  IN  IF \/ dir.py \notin Version
         \/ ~(DOMAIN Schemas[dir.py] \subseteq DOMAIN schema)
         \/ Raises(schema, dir.yml.values)
      THEN {NoLayer}
      ELSE IF dir.py = dir.yml.of THEN {layer} ELSE {layer, NoLayer}

-----------------------------------------------------------------------------
(***************************************************************************)
(* What each operation does to one directory, one file-system step after   *)
(* the other: save truncates and writes effect.py, then effect.yaml.       *)
(* Mutant: only the source of an effect that existed is written.           *)
(***************************************************************************)
SaveStepsSourceOnly(dir, source, yml) ==
  IF Complete(dir) THEN <<Directory("torn", dir.yml), Directory(source, dir.yml)>>
  ELSE <<Directory(dir.py, dir.yml), Directory("torn", dir.yml),
         Directory(source, dir.yml), Directory(source, TornYaml),
         Directory(source, yml)>>

SaveSteps(dir, source, yml) ==
  <<Directory(dir.py, dir.yml), Directory("torn", dir.yml),
    Directory(source, dir.yml), Directory(source, TornYaml),
    Directory(source, yml)>>

RewriteSteps(dir, yml) ==
  <<Directory(dir.py, TornYaml), Directory(dir.py, yml)>>

(* shutil.rmtree, in either order. *)
DeleteSteps(dir, pyFirst) ==
  <<IF pyFirst THEN Directory("none", dir.yml) ELSE Directory(dir.py, NoYaml),
    Directory("none", NoYaml), NoDirectory>>

(* A yaml file after it was read, changed and written back. *)
Rewritten(yml) == IF yml.of = "torn" THEN Yaml("blank", Nothing) ELSE yml

Merged(old, new) ==
  [k \in DOMAIN old \cup DOMAIN new |-> IF k \in DOMAIN new THEN new[k] ELSE old[k]]
WithValues(yml, values) ==
  Yaml(Rewritten(yml).of, Merged(yml.values, values))

(***************************************************************************)
(* An operation that writes runs to its end, or is cut off after some step *)
(* of it: by a crash, or by an error the handler answers, or suppresses,   *)
(* with the layers as in onError.                                          *)
(***************************************************************************)
Finish(n, steps) == store' = [store EXCEPT ![n] = steps[Len(steps)]]

Interrupt(n, steps, onError) ==
  /\ faults < MaxFaults /\ faults' = faults + 1
  /\ \E i \in 1..(Len(steps) - 1) : store' = [store EXCEPT ![n] = steps[i]]
  /\ damaged' = damaged \cup {n}
  /\ \/ up' = FALSE /\ slot' = [s \in Slot |-> NoLayer]
     \/ up' = TRUE /\ slot' = onError

-----------------------------------------------------------------------------
Init ==
  /\ up = FALSE
  /\ store = [n \in Name |-> NoDirectory]
  /\ slot = [s \in Slot |-> NoLayer]
  /\ damaged = {}
  /\ faults = 0

Crash ==
  /\ up /\ faults < MaxFaults
  /\ up' = FALSE
  /\ slot' = [s \in Slot |-> NoLayer]
  /\ faults' = faults + 1
  /\ UNCHANGED <<store, damaged>>

(***************************************************************************)
(* create_app: install_examples_if_missing copies the examples that do not *)
(* exist, then both slots load pulse_mono, and stay empty if that fails.   *)
(* Mutant: a directory that is left over counts as the example.            *)
(***************************************************************************)
NotHere(b) == ~store[b].here
Missing(b) == ~Complete(store[b])

ExampleSteps(b) ==
  SaveSteps(store[b], Bundle[b], Yaml(Bundle[b], Defaults(Schemas[Bundle[b]])))

InstallExample(b) ==
  /\ ~up /\ Missing(b)
  /\ \/ /\ Finish(b, ExampleSteps(b))
        /\ damaged' = damaged \ {b}
        /\ UNCHANGED <<up, slot, faults>>
     \/ Interrupt(b, ExampleSteps(b), slot) /\ up' = FALSE

Boot ==
  /\ ~up /\ \A b \in DOMAIN Bundle : ~Missing(b)
  /\ up' = TRUE
  /\ \E live, preview \in Loads(PulseMono, store[PulseMono]) :
       slot' = [s \in Slot |-> IF s = "live" THEN live ELSE preview]
  /\ UNCHANGED <<store, damaged, faults>>

(***************************************************************************)
(* The LLM's write_effect: a name and a source of its choice, with the     *)
(* operator's tweaks of equal key carried over.  A tweak the new control   *)
(* refuses raises and nothing is installed.                                *)
(* Mutant: tweaks are carried over as they are.                            *)
(***************************************************************************)
CarriedAsIs(schema, values) == Merged(Defaults(schema), Carry(schema, values))
Carried(schema, values) == Initial(schema, Carry(schema, values))

WriteEffect(n, v) ==
  /\ up
  /\ ~Raises(Schemas[v], Carry(Schemas[v], slot["preview"].values))
  /\ slot' = [slot EXCEPT !["preview"] =
       Layer(n, v, v, Carried(Schemas[v], slot["preview"].values), Nowhere)]
  /\ UNCHANGED <<up, store, damaged, faults>>

(***************************************************************************)
(* save_preview: the layer takes the name it is saved under.  Any other    *)
(* layer that came from the effect it overwrites has lost it, unless it is *)
(* of the same source.                                                     *)
(* Mutant: the layer keeps its name.                                       *)
(***************************************************************************)
SavedKeepingName(n) ==
  [LosingHome(n) EXCEPT !["preview"] = [slot["preview"] EXCEPT !.home = n]]

Saved(n) ==
  [s \in Slot |->
     IF s = "preview" THEN [slot[s] EXCEPT !.name = n, !.home = n]
     ELSE IF slot[s].home = n
             /\ \/ slot[s].name # n
                \/ slot[s].source # slot["preview"].source
                \/ slot[s].schema # slot["preview"].schema
          THEN Homeless(slot[s])
     ELSE slot[s]]

SavePreview(n, overwrite) ==
  LET layer == slot["preview"]
      steps == SaveSteps(store[n], layer.source, Yaml(layer.schema, layer.values))
  IN  /\ up /\ layer # NoLayer
      /\ overwrite \/ ~Complete(store[n])
      /\ \/ /\ Finish(n, steps)
            /\ slot' = Saved(n)
            /\ damaged' = IF layer.source = layer.schema THEN damaged \ {n}
                                                         ELSE damaged \cup {n}
            /\ UNCHANGED <<up, faults>>
         \/ Interrupt(n, steps, slot)

(***************************************************************************)
(* rename_effect: the directory moves, its yaml is rewritten, and the      *)
(* layers of both slots that carry the old name get the new one.           *)
(* Mutant: only the preview does.                                          *)
(***************************************************************************)
Following(layer, old, new) ==
  [layer EXCEPT !.name = IF @ = old THEN new ELSE @,
                !.home = IF @ = old THEN new ELSE @]
Moving(layer, old, new) == [layer EXCEPT !.home = IF @ = old THEN new ELSE @]

RenamedPreviewOnly(old, new) ==
  [s \in Slot |-> IF s = "preview" THEN Following(slot[s], old, new)
                                   ELSE Moving(slot[s], old, new)]
Renamed(old, new) == [s \in Slot |-> Following(slot[s], old, new)]

RenameSteps(dir) ==
  <<dir, Directory(dir.py, TornYaml), Directory(dir.py, Rewritten(dir.yml))>>

RenameEffect(old, new) ==
  LET moved == [store EXCEPT ![old] = NoDirectory]
      steps == RenameSteps(store[old])
  IN  /\ up /\ Complete(store[old])
      /\ old # new /\ ~store[new].here
      /\ \/ /\ store' = [moved EXCEPT ![new] = steps[3]]
            /\ slot' = Renamed(old, new)
            /\ damaged' = (damaged \ {old, new})
                          \cup (IF old \in damaged THEN {new} ELSE {})
            /\ UNCHANGED <<up, faults>>
         \/ /\ faults < MaxFaults /\ faults' = faults + 1
            /\ \E i \in 1..2 : store' = [moved EXCEPT ![new] = steps[i]]
            /\ damaged' = (damaged \ {old}) \cup {new}
            /\ \/ up' = FALSE /\ slot' = [s \in Slot |-> NoLayer]
               \/ up' = TRUE /\ slot' = [s \in Slot |-> Moving(slot[s], old, new)]

DeleteEffect(n) ==
  /\ up /\ store[n].here
  /\ \E pyFirst \in BOOLEAN :
       \/ /\ Finish(n, DeleteSteps(store[n], pyFirst))
          /\ slot' = LosingHome(n)
          /\ damaged' = damaged \ {n}
          /\ UNCHANGED <<up, faults>>
       \/ Interrupt(n, DeleteSteps(store[n], pyFirst), LosingHome(n))

StarEffect(n) ==
  LET steps == RewriteSteps(store[n], Rewritten(store[n].yml))
  IN  /\ up /\ Complete(store[n])
      /\ \/ Finish(n, steps) /\ UNCHANGED <<up, slot, damaged, faults>>
         \/ Interrupt(n, steps, slot)

(***************************************************************************)
(* load_preview, load_live, and the playlist's loads.                      *)
(***************************************************************************)
LoadEffect(s, n) ==
  /\ up /\ Complete(store[n])
  /\ \E layer \in Loads(n, store[n]) \ {NoLayer} :
       slot' = [slot EXCEPT ![s] = layer]
  /\ UNCHANGED <<up, store, damaged, faults>>

(***************************************************************************)
(* save_values writes all values of a layer under its name, if there is a  *)
(* yaml file of that name.                                                 *)
(***************************************************************************)
SaveValues(layer, after) ==
  LET n == layer.name
      steps == RewriteSteps(store[n], WithValues(store[n].yml, layer.values))
  IN  IF n \in Name /\ store[n].yml.of # "none"
      THEN \/ /\ Finish(n, steps)
              /\ slot' = after
              /\ damaged' = IF layer.home = n THEN damaged ELSE damaged \cup {n}
              /\ UNCHANGED <<up, faults>>
           \/ Interrupt(n, steps, after)
      ELSE slot' = after /\ UNCHANGED <<up, store, damaged, faults>>

(***************************************************************************)
(* _patch_params: what is applied is applied, and is written only when     *)
(* nothing raised.                                                         *)
(***************************************************************************)
PatchParams(s, patch) ==
  LET schema == SchemaOf(slot[s].schema)
      layer == [slot[s] EXCEPT !.values = Updated(schema, @, patch)]
      after == [slot EXCEPT ![s] = layer]
  IN  /\ up /\ slot[s] # NoLayer
      /\ IF Refused(schema, patch) = {}
         THEN SaveValues(layer, after)
         ELSE slot' = after /\ UNCHANGED <<up, store, damaged, faults>>

(* promote copies preview to live and writes the values of the live layer. *)
Promote ==
  /\ up
  /\ SaveValues(slot["preview"], [slot EXCEPT !["live"] = slot["preview"]])

PullLiveToPreview ==
  /\ up
  /\ slot' = [slot EXCEPT !["preview"] = slot["live"]]
  /\ UNCHANGED <<up, store, damaged, faults>>

-----------------------------------------------------------------------------
Next ==
  \/ Crash \/ Boot
  \/ \E b \in DOMAIN Bundle : InstallExample(b)
  \/ \E n \in Name, v \in Version : WriteEffect(n, v)
  \/ \E n \in Name, overwrite \in BOOLEAN : SavePreview(n, overwrite)
  \/ \E old, new \in Name : RenameEffect(old, new)
  \/ \E n \in Name : DeleteEffect(n) \/ StarEffect(n)
  \/ \E s \in Slot, n \in Name : LoadEffect(s, n)
  \/ \E s \in Slot, patch \in Patches : PatchParams(s, patch)
  \/ Promote \/ PullLiveToPreview

Spec == Init /\ [][Next]_vars

-----------------------------------------------------------------------------
IsYaml(yml) ==
  /\ yml.of \in Version \cup {"none", "torn", "blank"}
  /\ yml = Yaml(yml.of, yml.values)
IsLayer(layer) ==
  /\ layer = Layer(layer.name, layer.source, layer.schema, layer.values, layer.home)
  /\ layer.name \in Name \cup {Nowhere} /\ layer.home \in Name \cup {Nowhere}
  /\ layer.source \in Version \cup {"none"}
  /\ layer.schema \in Version \cup {"none", "blank", "torn"}
  /\ layer # NoLayer =>
       DOMAIN layer.values = DOMAIN SchemaOf(layer.schema)

TypeOK ==
  /\ up \in BOOLEAN
  /\ DOMAIN store = Name
  /\ \A n \in Name :
       /\ store[n] = [here |-> store[n].here, py |-> store[n].py, yml |-> store[n].yml]
       /\ store[n].here \in BOOLEAN
       /\ store[n].py \in Version \cup {"none", "torn"}
       /\ IsYaml(store[n].yml)
       /\ ~store[n].here => store[n] = NoDirectory
  /\ DOMAIN slot = Slot /\ \A s \in Slot : IsLayer(slot[s])
  /\ damaged \subseteq Name
  /\ faults \in 0..MaxFaults

(* "subsequent /params drags would call store.save_values(<old>)" is what the
   walk of rename_effect and the renaming in save_preview prevent: a layer
   always carries the present name of the saved effect it came from, through
   renames, saves, promotes and pulls, unless a write of that effect was cut
   off. *)
FollowsItsEffect ==
  \A s \in Slot :
    slot[s].home \in Name \ damaged => slot[s].name = slot[s].home

(* "type-validated bag": on whatever way a value has reached a layer, it is
   one the layer's control allows. *)
ParamsFit ==
  \A s \in Slot : LET schema == SchemaOf(slot[s].schema)
                  IN  \A k \in DOMAIN schema : Fits(schema[k], slot[s].values[k])

(* A saved effect that no fault has touched, and no other effect's slider,
   loads, with the source and the schema of one save and with exactly the
   values it was left with: "so a restart preserves them". *)
StoredEffectsLoad ==
  \A n \in Name \ damaged :
    Complete(store[n]) =>
      LET yml == store[n].yml
      IN  Loads(n, store[n]) = {Layer(n, yml.of, yml.of, yml.values, n)}

(* Whatever was interrupted before, by a crash inside a delete or an install,
   after the server has booted every bundled example has both its files; and
   both legs show pulse_mono, unless that effect was itself damaged. *)
BundledComeBack ==
  [][Boot => /\ \A b \in DOMAIN Bundle :
                  store'[b].py # "none" /\ store'[b].yml.of # "none"
             /\ PulseMono \notin damaged =>
                  \A s \in Slot : slot'[s].name = PulseMono]_vars

(***************************************************************************)
(* What the repository says and the code does not do.                      *)
(***************************************************************************)

(* server.py:647, saving renames the layer lest drags "quietly overwrite a
   different on-disk effect", and tool.py:154, the LLM's effects are not
   persisted: "the operator must explicitly click save".  So, as long as no
   operation was interrupted, no values are written under a saved effect by a
   layer that never came from it. *)
DragsStayHome == faults = 0 => damaged = {}
=============================================================================
