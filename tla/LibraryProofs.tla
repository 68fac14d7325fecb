--------------------------- MODULE LibraryProofs ---------------------------
(***************************************************************************)
(* Proofs about Library, for any effects, schemas, bundle and patches: its *)
(* types, that a layer follows the saved effect it came from, that values  *)
(* fit their controls, and that what was saved loads again unchanged.      *)
(*                                                                         *)
(* The argument: a coerced value fits its control (CoerceFits) and a value *)
(* that fits is its own coercion (CoerceKeeps), so what a layer holds may  *)
(* go to the disk and come back.  What ties a layer to the disk is Homes:  *)
(* unless a write was cut off, the effect it came from is there in full,   *)
(* with the layer's schema, under the layer's name.                        *)
(***************************************************************************)
EXTENDS Library, TLAPS

-----------------------------------------------------------------------------
(***************************************************************************)
(* _coerce.                                                                *)
(***************************************************************************)
LEMMA WholeIsWhole ==
  ASSUME NEW h \in Int
  PROVE  Whole(h) \in Int /\ Whole(Whole(h)) = Whole(h)
BY DEF Whole


(* Whatever is offered to a control, what it accepts fits it. *)
LEMMA CoerceFits ==
  ASSUME NEW spec, IsSpec(spec), NEW raw, IsValue(raw), Coerce(spec, raw) # Bad
  PROVE  Fits(spec, Coerce(spec, raw)) /\ IsValue(Coerce(spec, raw))
<1>1. ~IsText(raw) => Halves(raw) \in Int
  BY DEF IsValue, IsText, IsNum, IsFlag, Halves
<1>2. CASE spec.control = "slider"
  <2>1. Coerce(spec, raw) = Num(Clamp(spec, Halves(raw))) /\ ~IsText(raw)
    BY <1>2 DEF Coerce, CoerceSlider
  <2>2. Clamp(spec, Halves(raw)) \in spec.min..spec.max /\ spec.min \in Int
        /\ spec.max \in Int
    BY <1>1, <1>2, <2>1 DEF IsSpec, Clamp
  <2> QED
    BY <1>2, <2>1, <2>2 DEF Fits, IsValue, IsNum, Num
<1>3. CASE spec.control = "int_slider"
  <2>1. Coerce(spec, raw) = Num(Clamp(spec, Whole(Halves(raw)))) /\ ~IsText(raw)
    BY <1>3 DEF Coerce, CoerceIntSlider
  <2>2. /\ Whole(Halves(raw)) \in Int
        /\ Whole(Whole(Halves(raw))) = Whole(Halves(raw))
    BY <1>1, <2>1, WholeIsWhole
  <2>3. /\ spec.min \in Int /\ spec.max \in Int /\ spec.min <= spec.max
        /\ Whole(spec.min) = spec.min /\ Whole(spec.max) = spec.max
    BY <1>3 DEF IsSpec
  <2> DEFINE w == Clamp(spec, Whole(Halves(raw)))
  <2>4. w \in spec.min..spec.max /\ Whole(w) = w
    BY <2>2, <2>3 DEF Clamp
  <2> QED
    BY <1>3, <2>1, <2>3, <2>4 DEF Fits, IsValue, IsNum, Num
<1>4. CASE spec.control = "color"
  <2>1. /\ Shown(raw) \in DOMAIN AsColour
        /\ Coerce(spec, raw) = Str(AsColour[Shown(raw)])
    BY <1>4 DEF Coerce, CoerceColor
  <2>2. AsColour[Shown(raw)] \in DOMAIN AsColour
        /\ AsColour[AsColour[Shown(raw)]] = AsColour[Shown(raw)]
    BY <2>1, ParamsAssumption
  <2> QED
    BY <1>4, <2>1, <2>2 DEF Fits, IsValue, IsText, Str
<1>5. CASE spec.control = "select"
  <2>1. \E s \in spec.options : Coerce(spec, raw) = Str(s)
    BY <1>5 DEF Coerce, CoerceSelect, IsSpec
  <2> QED
    BY <1>5, <2>1 DEF Fits, IsValue, IsText, Str
<1>6. CASE spec.control = "toggle"
  <2>1. \E b \in BOOLEAN : Coerce(spec, raw) = Flag(b)
    BY <1>6 DEF Coerce, CoerceToggle
  <2> QED
    BY <1>6, <2>1 DEF Fits, IsValue, IsFlag, Flag
<1>7. CASE spec.control = "palette"
  <2>1. \E s \in Palette : Coerce(spec, raw) = Str(s)
    BY <1>7 DEF Coerce, CoercePalette, IsSpec
  <2> QED
    BY <1>7, <2>1 DEF Fits, IsValue, IsText, Str
<1> QED
  BY <1>2, <1>3, <1>4, <1>5, <1>6, <1>7 DEF IsSpec

(* What fits a control passes it unchanged. *)
LEMMA CoerceKeeps ==
  ASSUME NEW spec, IsSpec(spec), NEW v, IsValue(v), Fits(spec, v)
  PROVE  Coerce(spec, v) = v /\ v # Bad
<1>1. v # Bad
  BY DEF IsValue, IsNum, IsFlag, IsText, Bad
<1>2. CASE spec.control = "slider"
  <2>1. Halves(v) = v[2] /\ ~IsText(v) /\ v = Num(v[2]) /\ v[2] \in spec.min..spec.max
    BY <1>2 DEF Fits, IsValue, IsNum, IsFlag, IsText, Halves, Num
  <2>2. spec.min \in Int /\ spec.max \in Int
    BY <1>2 DEF IsSpec
  <2>3. Clamp(spec, v[2]) = v[2]
    BY <2>1, <2>2 DEF Clamp
  <2> QED
    BY <1>1, <1>2, <2>1, <2>3 DEF Coerce, CoerceSlider
<1>3. CASE spec.control = "int_slider"
  <2>1. /\ Halves(v) = v[2] /\ ~IsText(v) /\ v = Num(v[2])
        /\ v[2] \in spec.min..spec.max /\ Whole(v[2]) = v[2]
    BY <1>3 DEF Fits, IsValue, IsNum, IsFlag, IsText, Halves, Num
  <2>2. spec.min \in Int /\ spec.max \in Int
    BY <1>3 DEF IsSpec
  <2>3. Clamp(spec, v[2]) = v[2]
    BY <2>1, <2>2 DEF Clamp
  <2> QED
    BY <1>1, <1>3, <2>1, <2>3 DEF Coerce, CoerceIntSlider
<1>4. CASE spec.control \in {"color", "select", "palette"}
  <2>1. IsText(v) /\ v = Str(v[2]) /\ Shown(v) = v[2]
    BY <1>4 DEF Fits, IsValue, IsText, Str, Shown
  <2> QED
    BY <1>1, <1>4, <2>1
    DEF Fits, Coerce, CoerceColor, CoerceSelect, CoercePalette
<1>5. CASE spec.control = "toggle"
  <2>1. v = Flag(v[2]) /\ v[2] \in BOOLEAN /\ IsFlag(v)
    BY <1>5 DEF Fits, IsValue, IsFlag, Flag
  <2>2. CASE v[2] = TRUE
    BY <1>1, <1>5, <2>1, <2>2 DEF Coerce, CoerceToggle, Halves, IsFlag, IsText
  <2>3. CASE v[2] = FALSE
    BY <1>1, <1>5, <2>1, <2>3 DEF Coerce, CoerceToggle, Halves, IsFlag, IsText
  <2> QED
    BY <2>1, <2>2, <2>3
<1> QED
  BY <1>2, <1>3, <1>4, <1>5 DEF IsSpec

LEMMA DefaultFits ==
  ASSUME NEW spec, IsSpec(spec)
  PROVE  /\ Coerce(spec, AsValue(spec)) # Bad
         /\ Fits(spec, Coerce(spec, AsValue(spec)))
         /\ IsValue(Coerce(spec, AsValue(spec)))
<1>1. IsValue(AsValue(spec))
  BY DEF IsSpec, AsValue, IsValue, IsNum, IsFlag, IsText, Num, Flag, Str
<1>2. Coerce(spec, AsValue(spec)) # Bad
  <2>1. CASE spec.control \in {"slider", "int_slider"}
    BY <2>1 DEF Coerce, CoerceSlider, CoerceIntSlider, AsValue, IsText, Num, Bad
  <2>2. CASE spec.control = "color"
    BY <2>2 DEF IsSpec, Coerce, CoerceColor, AsValue, Shown, IsText, Str, Bad
  <2>3. CASE spec.control \in {"select", "toggle", "palette"}
    BY <2>3 DEF Coerce, CoerceSelect, CoerceToggle, CoercePalette, Str, Flag, Bad
  <2> QED
    BY <2>1, <2>2, <2>3 DEF IsSpec
<1> QED
  BY <1>1, <1>2, CoerceFits

-----------------------------------------------------------------------------
(***************************************************************************)
(* Bags of values.  Good says what a layer may hold under a schema.        *)
(***************************************************************************)
IsSchema(schema) == \A k \in DOMAIN schema : IsSpec(schema[k])

Good(schema, values) ==
  /\ IsBag(values)
  /\ DOMAIN values = DOMAIN schema
  /\ \A k \in DOMAIN schema : Fits(schema[k], values[k])

LEMMA SchemasAreSchemas ==
  ASSUME NEW of
  PROVE  IsSchema(SchemaOf(of)) /\ (of \in Version => SchemaOf(of) = Schemas[of])
BY LibraryAssumption DEF IsSchema, SchemaOf, Nothing

LEMMA DefaultsGood ==
  ASSUME NEW schema, IsSchema(schema)
  PROVE  Good(schema, Defaults(schema))
BY DefaultFits DEF IsSchema, Good, IsBag, Defaults

LEMMA InitialGood ==
  ASSUME NEW schema, IsSchema(schema), NEW given, IsBag(given),
         ~Raises(schema, given)
  PROVE  Good(schema, Initial(schema, given))
<1>1. ASSUME NEW k \in DOMAIN schema
      PROVE  Fits(schema[k], Initial(schema, given)[k])
             /\ IsValue(Initial(schema, given)[k])
  <2>1. CASE k \in DOMAIN given
    <3>1. IsSpec(schema[k]) /\ IsValue(given[k]) /\ Coerce(schema[k], given[k]) # Bad
      BY <2>1 DEF IsSchema, IsBag, Raises
    <3>2. Initial(schema, given)[k] = Coerce(schema[k], given[k])
      BY <2>1 DEF Initial
    <3> QED
      BY <3>1, <3>2, CoerceFits
  <2>2. CASE k \notin DOMAIN given
    <3>1. Initial(schema, given)[k] = Defaults(schema)[k]
      BY <2>2 DEF Initial
    <3> QED
      BY <3>1, DefaultsGood DEF Good, IsBag
  <2> QED
    BY <2>1, <2>2
<1>2. /\ DOMAIN Initial(schema, given) = DOMAIN schema
      /\ Initial(schema, given) =
           [k \in DOMAIN schema |-> Initial(schema, given)[k]]
  BY DEF Initial
<1> QED
  BY <1>1, <1>2 DEF Good, IsBag

(* A good bag loads as it is. *)
LEMMA InitialKeeps ==
  ASSUME NEW schema, IsSchema(schema), NEW values, Good(schema, values)
  PROVE  ~Raises(schema, values) /\ Initial(schema, values) = values
<1>1. \A k \in DOMAIN schema :
        Coerce(schema[k], values[k]) = values[k] /\ values[k] # Bad
  BY CoerceKeeps DEF IsSchema, Good, IsBag
<1>2. Initial(schema, values) = [k \in DOMAIN schema |-> values[k]]
  BY <1>1 DEF Initial, Good
<1> QED
  BY <1>1, <1>2 DEF Raises, Good, IsBag

LEMMA CarryIsBag ==
  ASSUME NEW schema, NEW values, IsBag(values)
  PROVE  IsBag(Carry(schema, values))
BY DEF IsBag, Carry

LEMMA MergedIsBag ==
  ASSUME NEW old, NEW new, IsBag(old), IsBag(new)
  PROVE  IsBag(Merged(old, new))
BY DEF IsBag, Merged

(* Writing a layer's values over those of a yaml file with the same keys. *)
LEMMA MergedGood ==
  ASSUME NEW schema, NEW old, NEW new, DOMAIN old = DOMAIN schema, Good(schema, new)
  PROVE  Good(schema, Merged(old, new))
BY DEF Good, IsBag, Merged

LEMMA UpdatedGood ==
  ASSUME NEW schema, IsSchema(schema), NEW values, Good(schema, values),
         NEW patch \in Patches
  PROVE  Good(schema, Updated(schema, values, patch))
<1> DEFINE new == Updated(schema, values, patch)
           hits(k) == {i \in Applied(schema, patch) : patch[i][1] = k}
           hit(k) == CHOOSE i \in hits(k) : TRUE
<1>1. /\ Len(patch) \in Nat /\ DOMAIN patch = 1..Len(patch)
      /\ \A i \in DOMAIN patch : IsValue(patch[i][2])
  BY LibraryAssumption
<1>2. ASSUME NEW k \in DOMAIN schema
      PROVE  Fits(schema[k], new[k]) /\ IsValue(new[k])
  <2>1. new[k] = IF hits(k) = {} THEN values[k]
                 ELSE Coerce(schema[k], patch[hit(k)][2])
    BY DEF Updated, Good
  <2>2. CASE hits(k) = {}
    BY <2>1, <2>2 DEF Good, IsBag
  <2>3. CASE hits(k) # {}
    <3> HIDE DEF hits
    <3>1. hit(k) \in hits(k)
      BY <2>3
    <3> HIDE DEF hit
    <3>2. /\ hit(k) \in DOMAIN patch /\ patch[hit(k)][1] = k
          /\ \A j \in Refused(schema, patch) : hit(k) < j
      BY <3>1 DEF hits, Applied
    <3>3. hit(k) \notin Refused(schema, patch)
      BY <1>1, <3>2
    <3>4. Coerce(schema[k], patch[hit(k)][2]) # Bad
      BY <3>2, <3>3 DEF Refused
    <3>5. IsSpec(schema[k]) /\ IsValue(patch[hit(k)][2])
      BY <1>1, <3>2 DEF IsSchema
    <3> QED
      BY <2>1, <2>3, <3>4, <3>5, CoerceFits
  <2> QED
    BY <2>2, <2>3
<1>3. DOMAIN new = DOMAIN schema /\ new = [k \in DOMAIN new |-> new[k]]
  BY DEF Updated, Good
<1> QED
  BY <1>2, <1>3 DEF Good, IsBag

-----------------------------------------------------------------------------
(***************************************************************************)
(* The invariant.                                                          *)
(***************************************************************************)
LayerOK(layer) ==
  /\ layer = Layer(layer.name, layer.source, layer.schema, layer.values, layer.home)
  /\ layer.name \in Name \cup {Nowhere} /\ layer.home \in Name \cup {Nowhere}
  /\ layer.source \in Version \cup {"none"}
  /\ layer.schema \in Version \cup {"none", "blank", "torn"}
  /\ Good(SchemaOf(layer.schema), layer.values)
  /\ layer = NoLayer \/ (layer.source \in Version /\ layer.schema # "none")

DirOK(dir) ==
  /\ dir = [here |-> dir.here, py |-> dir.py, yml |-> dir.yml]
  /\ dir.here \in BOOLEAN
  /\ dir.py \in Version \cup {"none", "torn"}
  /\ IsYaml(dir.yml) /\ IsBag(dir.yml.values)
  /\ ~dir.here => dir = NoDirectory

(* Both files are of one save. *)
Intact(dir) ==
  /\ dir.py \in Version /\ dir.yml.of = dir.py
  /\ Good(Schemas[dir.py], dir.yml.values)

StoreOK(st, dam) ==
  /\ DOMAIN st = Name
  /\ \A n \in Name : DirOK(st[n]) /\ (n \notin dam /\ Complete(st[n]) => Intact(st[n]))

(* The effect a layer came from is on the disk, and, unless damaged, under
   the layer's name, in full and with the layer's schema. *)
HomeOK(layer, st, dam) ==
  layer.home \in Name =>
    /\ st[layer.home].here
    /\ layer.home \notin dam => /\ layer.name = layer.home
                                /\ Complete(st[layer.home])
                                /\ layer.schema = st[layer.home].yml.of

Homes(sl, st, dam) == \A s \in Slot : HomeOK(sl[s], st, dam)

SlotOK(sl) == DOMAIN sl = Slot /\ \A s \in Slot : LayerOK(sl[s])

Empty(sl) == \A s \in Slot : sl[s] = NoLayer

Inv ==
  /\ up \in BOOLEAN /\ damaged \subseteq Name /\ faults \in 0..MaxFaults
  /\ StoreOK(store, damaged)
  /\ SlotOK(slot)
  /\ ~up => Empty(slot)
  /\ Homes(slot, store, damaged)

LEMMA EmptyOK ==
  /\ LayerOK(NoLayer)
  /\ \A sl : DOMAIN sl = Slot /\ Empty(sl) =>
       SlotOK(sl) /\ \A st, dam : Homes(sl, st, dam)
<1>1. IsBag(Nothing) /\ DOMAIN Nothing = {}
  BY DEF Nothing, IsBag
<1>2. SchemaOf("none") = Nothing
  BY LibraryAssumption DEF SchemaOf
<1>3. Good(SchemaOf("none"), Nothing)
  BY <1>1, <1>2 DEF Good
<1>4. LayerOK(NoLayer) /\ NoLayer.home \notin Name
  BY <1>3, LibraryAssumption DEF LayerOK, NoLayer, Layer, Nowhere
<1> QED
  BY <1>4 DEF Empty, SlotOK, Homes, HomeOK

LEMMA LoadsOK ==
  ASSUME NEW n \in Name, NEW dir, DirOK(dir), Complete(dir),
         NEW layer \in Loads(n, dir)
  PROVE  /\ LayerOK(layer)
         /\ layer # NoLayer => /\ layer.name = n /\ layer.home = n
                               /\ layer.schema = dir.yml.of
<1> DEFINE schema == SchemaOf(dir.yml.of)
           loaded == Layer(n, dir.py, dir.yml.of, Initial(schema, dir.yml.values), n)
<1>1. CASE layer = NoLayer
  BY <1>1, EmptyOK
<1>2. CASE layer # NoLayer
  <2>1. /\ layer = loaded /\ dir.py \in Version
        /\ ~Raises(schema, dir.yml.values)
    BY <1>2 DEF Loads
  <2>2. Good(schema, Initial(schema, dir.yml.values))
    BY <2>1, SchemasAreSchemas, InitialGood DEF DirOK
  <2>3. dir.yml.of \in Version \cup {"blank", "torn"}
    BY DEF DirOK, IsYaml, Complete
  <2> QED
    BY <2>1, <2>2, <2>3, LibraryAssumption DEF LayerOK, Layer
<1> QED
  BY <1>1, <1>2

(* An intact effect loads as it was left. *)
LEMMA IntactLoads ==
  ASSUME NEW n, NEW dir, Intact(dir)
  PROVE  Loads(n, dir) = {Layer(n, dir.yml.of, dir.yml.of, dir.yml.values, n)}
<1>1. dir.yml.of = dir.py /\ SchemaOf(dir.yml.of) = Schemas[dir.py]
      /\ IsSchema(Schemas[dir.py])
  BY SchemasAreSchemas DEF Intact
<1>2. /\ ~Raises(Schemas[dir.py], dir.yml.values)
      /\ Initial(Schemas[dir.py], dir.yml.values) = dir.yml.values
  BY <1>1, InitialKeeps DEF Intact
<1> QED
  BY <1>1, <1>2 DEF Loads, Intact

(* Good bags, a source and a schema make an intact directory. *)
LEMMA SavedIntact ==
  ASSUME NEW v \in Version, NEW values, Good(Schemas[v], values)
  PROVE  /\ DirOK(Directory(v, Yaml(v, values)))
         /\ Complete(Directory(v, Yaml(v, values)))
         /\ Intact(Directory(v, Yaml(v, values)))
BY LibraryAssumption
DEF DirOK, Directory, Yaml, IsYaml, Complete, Intact, Good

LEMMA DirectoryOK ==
  ASSUME NEW py \in Version \cup {"none", "torn"},
         NEW yml, IsYaml(yml), IsBag(yml.values)
  PROVE  DirOK(Directory(py, yml)) /\ Directory(py, yml).here
BY DEF DirOK, Directory, IsYaml

LEMMA YamlOK ==
  ASSUME NEW of \in Version \cup {"none", "torn", "blank"}, NEW values, IsBag(values)
  PROVE  /\ IsYaml(Yaml(of, values)) /\ IsBag(Yaml(of, values).values)
         /\ IsYaml(NoYaml) /\ IsBag(NoYaml.values)
         /\ IsYaml(TornYaml) /\ IsBag(TornYaml.values)
BY DEF IsYaml, Yaml, NoYaml, TornYaml, Nothing, IsBag

-----------------------------------------------------------------------------
(***************************************************************************)
(* The file-system steps of the operations, and what cuts them off.        *)
(***************************************************************************)
LEMMA SaveStepsOK ==
  ASSUME NEW dir, DirOK(dir), NEW source \in Version \cup {"none"},
         NEW yml, IsYaml(yml), IsBag(yml.values)
  PROVE  /\ Len(SaveSteps(dir, source, yml)) = 5
         /\ \A i \in 1..5 : /\ DirOK(SaveSteps(dir, source, yml)[i])
                            /\ SaveSteps(dir, source, yml)[i].here
         /\ SaveSteps(dir, source, yml)[5] = Directory(source, yml)
<1> DEFINE steps == SaveSteps(dir, source, yml)
<1>1. /\ Len(steps) = 5
      /\ steps[1] = Directory(dir.py, dir.yml) /\ steps[2] = Directory("torn", dir.yml)
      /\ steps[3] = Directory(source, dir.yml) /\ steps[4] = Directory(source, TornYaml)
      /\ steps[5] = Directory(source, yml)
  BY DEF SaveSteps
<1>2. IsYaml(TornYaml) /\ IsBag(TornYaml.values)
  BY DEF IsYaml, TornYaml, Yaml, Nothing, IsBag
<1>3. dir.py \in Version \cup {"none", "torn"} /\ IsYaml(dir.yml) /\ IsBag(dir.yml.values)
  BY DEF DirOK
<1> HIDE DEF steps
<1>4. \A i \in 1..5 : i = 1 \/ i = 2 \/ i = 3 \/ i = 4 \/ i = 5
  OBVIOUS
<1>5. \A i \in 1..5 : DirOK(steps[i]) /\ steps[i].here
  BY <1>1, <1>2, <1>3, <1>4, DirectoryOK
<1> QED
  BY <1>1, <1>5 DEF steps

LEMMA RewriteStepsOK ==
  ASSUME NEW dir, DirOK(dir), NEW yml, IsYaml(yml), IsBag(yml.values)
  PROVE  /\ RewriteSteps(dir, yml) = <<Directory(dir.py, TornYaml), Directory(dir.py, yml)>>
         /\ Len(RewriteSteps(dir, yml)) = 2
         /\ \A i \in 1..2 : /\ DirOK(RewriteSteps(dir, yml)[i])
                            /\ RewriteSteps(dir, yml)[i].here
         /\ RewriteSteps(dir, yml)[2] = Directory(dir.py, yml)
<1>1. RewriteSteps(dir, yml) = <<Directory(dir.py, TornYaml), Directory(dir.py, yml)>>
  BY DEF RewriteSteps
<1>2. IsYaml(TornYaml) /\ IsBag(TornYaml.values)
  BY DEF IsYaml, TornYaml, Yaml, Nothing, IsBag
<1>3. dir.py \in Version \cup {"none", "torn"}
  BY DEF DirOK
<1>4. \A i \in 1..2 : i = 1 \/ i = 2
  OBVIOUS
<1> QED
  BY <1>1, <1>2, <1>3, <1>4, DirectoryOK

LEMMA DeleteStepsOK ==
  ASSUME NEW dir, DirOK(dir), NEW pyFirst \in BOOLEAN
  PROVE  /\ Len(DeleteSteps(dir, pyFirst)) = 3
         /\ \A i \in 1..2 : /\ DirOK(DeleteSteps(dir, pyFirst)[i])
                            /\ DeleteSteps(dir, pyFirst)[i].here
         /\ DeleteSteps(dir, pyFirst)[3] = NoDirectory
<1> DEFINE first == IF pyFirst THEN Directory("none", dir.yml)
                               ELSE Directory(dir.py, NoYaml)
<1>1. DeleteSteps(dir, pyFirst) = <<first, Directory("none", NoYaml), NoDirectory>>
  BY DEF DeleteSteps
<1>2. IsYaml(NoYaml) /\ IsBag(NoYaml.values)
  BY DEF IsYaml, NoYaml, Yaml, Nothing, IsBag
<1>3. dir.py \in Version \cup {"none", "torn"} /\ IsYaml(dir.yml) /\ IsBag(dir.yml.values)
  BY DEF DirOK
<1>4. DirOK(first) /\ first.here
  BY <1>2, <1>3, DirectoryOK
<1>5. DirOK(Directory("none", NoYaml)) /\ Directory("none", NoYaml).here
  BY <1>2, DirectoryOK
<1>6. \A i \in 1..2 : i = 1 \/ i = 2
  OBVIOUS
<1> HIDE DEF first
<1> QED
  BY <1>1, <1>4, <1>5, <1>6

LEMMA RewrittenOK ==
  ASSUME NEW yml, IsYaml(yml), IsBag(yml.values), NEW values, IsBag(values)
  PROVE  /\ IsYaml(Rewritten(yml)) /\ IsBag(Rewritten(yml).values)
         /\ IsYaml(WithValues(yml, values)) /\ IsBag(WithValues(yml, values).values)
         /\ yml.of \in Version => /\ Rewritten(yml) = yml
                                  /\ WithValues(yml, values).of = yml.of
<1>1. /\ yml.of \in Version \cup {"none", "torn", "blank"}
      /\ yml = Yaml(yml.of, yml.values)
  BY DEF IsYaml
<1>2. IsBag(Nothing)
  BY DEF Nothing, IsBag
<1>3. IsBag(Merged(yml.values, values))
  BY MergedIsBag
<1>4. /\ IsYaml(Rewritten(yml)) /\ IsBag(Rewritten(yml).values)
      /\ yml.of \in Version => Rewritten(yml) = yml
  BY <1>1, <1>2, LibraryAssumption, YamlOK DEF Rewritten, Yaml
<1>5. Rewritten(yml).of \in Version \cup {"none", "torn", "blank"}
  BY <1>4 DEF IsYaml
<1> QED
  BY <1>3, <1>4, <1>5, YamlOK DEF WithValues, Yaml

(* An interruption damages the effect it hits and leaves the rest alone. *)
LEMMA InterruptKeeps ==
  ASSUME Inv, NEW n \in Name, NEW steps, Len(steps) \in Nat,
         \A i \in 1..(Len(steps) - 1) : DirOK(steps[i]) /\ steps[i].here,
         NEW onError, SlotOK(onError), Homes(onError, store, damaged),
         Interrupt(n, steps, onError)
  PROVE  Inv'
<1>1. PICK i \in 1..(Len(steps) - 1) : store' = [store EXCEPT ![n] = steps[i]]
  BY DEF Interrupt
<1>2. damaged' = damaged \cup {n} /\ faults < MaxFaults /\ faults' = faults + 1
  BY DEF Interrupt
<1>3. DOMAIN store = Name /\ DirOK(steps[i]) /\ steps[i].here
  BY DEF Inv, StoreOK
<1>4. StoreOK(store', damaged')
  BY <1>1, <1>2, <1>3 DEF Inv, StoreOK
<1>5. Homes(onError, store', damaged')
  BY <1>1, <1>2, <1>3 DEF Homes, HomeOK
<1>6. \/ up' = FALSE /\ DOMAIN slot' = Slot /\ Empty(slot')
      \/ up' = TRUE /\ slot' = onError
  BY DEF Interrupt, Empty
<1>7. SlotOK(slot') /\ Homes(slot', store', damaged') /\ (~up' => Empty(slot'))
      /\ up' \in BOOLEAN
  <2>1. CASE up' = FALSE /\ DOMAIN slot' = Slot /\ Empty(slot')
    BY <2>1, EmptyOK
  <2>2. CASE up' = TRUE /\ slot' = onError
    BY <1>5, <2>2
  <2> QED
    BY <1>6, <2>1, <2>2
<1>8. damaged' \subseteq Name /\ faults' \in 0..MaxFaults
  BY <1>2, LibraryAssumption DEF Inv
<1> QED
  BY <1>4, <1>7, <1>8 DEF Inv, StoreOK, SlotOK, Homes, Empty

LEMMA FinishKeeps ==
  ASSUME Inv, NEW n \in Name, NEW dir, DirOK(dir),
         store' = [store EXCEPT ![n] = dir],
         \A m \in Name \ {n} : m \in damaged' <=> m \in damaged,
         n \notin damaged' /\ Complete(dir) => Intact(dir)
  PROVE  /\ StoreOK(store', damaged')
         /\ store'[n] = dir /\ \A m \in Name \ {n} : store'[m] = store[m]
BY DEF Inv, StoreOK

LEMMA RewriteFinish ==
  ASSUME NEW n, NEW steps, Len(steps) = 2, Finish(n, steps)
  PROVE  store' = [store EXCEPT ![n] = steps[2]]
BY DEF Finish

-----------------------------------------------------------------------------
(***************************************************************************)
(* The steps of Next.                                                      *)
(***************************************************************************)
LEMMA InitInv == Init => Inv
<1> SUFFICES ASSUME Init PROVE Inv
  OBVIOUS
<1>1. DirOK(NoDirectory) /\ ~Complete(NoDirectory)
  BY DEF DirOK, NoDirectory, Complete, IsYaml, NoYaml, Yaml, IsBag, Nothing
<1>2. DOMAIN slot = Slot /\ Empty(slot)
  BY DEF Init, Empty
<1>3. SlotOK(slot) /\ Homes(slot, store, damaged)
  BY <1>2, EmptyOK
<1>4. StoreOK(store, damaged)
  BY <1>1 DEF Init, StoreOK
<1>5. MaxFaults \in Nat
  BY LibraryAssumption
<1>6. up = FALSE /\ damaged = {} /\ faults = 0
  BY DEF Init
<1>7. faults \in 0..MaxFaults
  BY <1>5, <1>6
<1>8. up \in BOOLEAN /\ damaged \subseteq Name
  BY <1>6
<1> QED
  BY <1>2, <1>3, <1>4, <1>7, <1>8 DEF Inv

LEMMA InstallExampleKeeps ==
  ASSUME Inv, NEW b \in DOMAIN Bundle, InstallExample(b)
  PROVE  Inv'
<1> DEFINE v == Bundle[b]
           yml == Yaml(v, Defaults(Schemas[v]))
           steps == ExampleSteps(b)
<1>1. b \in Name /\ v \in Version /\ ~up /\ Empty(slot)
  BY LibraryAssumption DEF InstallExample, Inv
<1>2. Good(Schemas[v], Defaults(Schemas[v]))
  BY <1>1, SchemasAreSchemas, DefaultsGood
<1>3. IsYaml(yml) /\ IsBag(yml.values) /\ DirOK(store[b])
  BY <1>1, <1>2, YamlOK DEF Good, Inv, StoreOK
<1>4. /\ Len(steps) = 5 /\ \A i \in 1..5 : DirOK(steps[i]) /\ steps[i].here
      /\ steps[5] = Directory(v, yml)
  BY <1>1, <1>3, SaveStepsOK DEF ExampleSteps
<1>5. SlotOK(slot) /\ Homes(slot, store, damaged)
  BY DEF Inv
<1>6. CASE Interrupt(b, steps, slot)
  BY <1>1, <1>4, <1>5, <1>6, InterruptKeeps
<1>7. CASE Finish(b, steps) /\ damaged' = damaged \ {b} /\ UNCHANGED <<up, slot, faults>>
  <2>1. store' = [store EXCEPT ![b] = Directory(v, yml)]
    BY <1>4, <1>7 DEF Finish
  <2>2. StoreOK(store', damaged')
    BY <1>1, <1>2, <1>7, <2>1, SavedIntact, FinishKeeps
  <2>3. DOMAIN slot' = Slot /\ Empty(slot')
    BY <1>1, <1>5, <1>7 DEF Empty, SlotOK
  <2>4. SlotOK(slot') /\ Homes(slot', store', damaged')
    BY <2>3, EmptyOK
  <2>5. up' \in BOOLEAN /\ damaged' \subseteq Name /\ faults' \in 0..MaxFaults
    BY <1>7 DEF Inv
  <2> QED
    BY <2>2, <2>3, <2>4, <2>5 DEF Inv, StoreOK, SlotOK, Homes, HomeOK, Empty
<1> QED
  BY <1>6, <1>7 DEF InstallExample

LEMMA BootKeeps ==
  ASSUME Inv, Boot
  PROVE  Inv'
<1>1. PulseMono \in Name /\ Complete(store[PulseMono]) /\ DirOK(store[PulseMono])
  BY LibraryAssumption DEF Boot, Missing, Inv, StoreOK
<1>2. PICK live, preview \in Loads(PulseMono, store[PulseMono]) :
        slot' = [s \in Slot |-> IF s = "live" THEN live ELSE preview]
  BY DEF Boot
<1>3. ASSUME NEW l \in {live, preview}
      PROVE  LayerOK(l) /\ HomeOK(l, store, damaged)
  <2>1. CASE l = NoLayer
    BY <2>1, EmptyOK, LibraryAssumption DEF HomeOK, NoLayer, Layer, Nowhere
  <2>2. CASE l # NoLayer
    <3>1. LayerOK(l) /\ l.name = PulseMono /\ l.home = PulseMono
          /\ l.schema = store[PulseMono].yml.of
      BY <1>1, <1>2, <2>2, LoadsOK
    <3>2. store[PulseMono].here
      BY <1>1 DEF DirOK, NoDirectory, Complete, NoYaml, Yaml
    <3> QED
      BY <1>1, <3>1, <3>2 DEF HomeOK
  <2> QED
    BY <2>1, <2>2
<1>4. SlotOK(slot') /\ Homes(slot', store, damaged)
  BY <1>2, <1>3 DEF SlotOK, Homes
<1> QED
  BY <1>4 DEF Boot, Inv, StoreOK, SlotOK, Homes, HomeOK, Empty

LEMMA WriteEffectKeeps ==
  ASSUME Inv, NEW n \in Name, NEW v \in Version, WriteEffect(n, v)
  PROVE  Inv'
<1> DEFINE tweaks == Carry(Schemas[v], slot["preview"].values)
           layer == Layer(n, v, v, Carried(Schemas[v], slot["preview"].values), Nowhere)
<1>1. IsSchema(Schemas[v]) /\ SchemaOf(v) = Schemas[v]
  BY SchemasAreSchemas
<1>2. IsBag(tweaks) /\ ~Raises(Schemas[v], tweaks)
  BY CarryIsBag DEF Inv, SlotOK, Slot, LayerOK, Good, WriteEffect
<1>3. Good(Schemas[v], Carried(Schemas[v], slot["preview"].values))
  BY <1>1, <1>2, InitialGood DEF Carried
<1>4. LayerOK(layer)
  BY <1>1, <1>3, LibraryAssumption DEF LayerOK, Layer
<1>5. slot' = [slot EXCEPT !["preview"] = layer] /\ layer.home \notin Name
  BY LibraryAssumption DEF WriteEffect, Layer, Nowhere
<1>6. SlotOK(slot') /\ Homes(slot', store, damaged)
  BY <1>4, <1>5 DEF Inv, SlotOK, Homes, HomeOK
<1> QED
  BY <1>6 DEF WriteEffect, Inv, StoreOK, SlotOK, Homes, HomeOK, Empty

LEMMA HomelessOK ==
  ASSUME NEW layer, LayerOK(layer), NEW st, NEW dam
  PROVE  LayerOK(Homeless(layer)) /\ HomeOK(Homeless(layer), st, dam)
<1>1. /\ Homeless(layer) = Layer(layer.name, layer.source, layer.schema,
                                 layer.values, Nowhere)
      /\ layer = Layer(layer.name, layer.source, layer.schema, layer.values, layer.home)
  BY DEF Homeless, LayerOK, Layer
<1>2. Nowhere \notin Name
  BY LibraryAssumption DEF Nowhere
<1>3. /\ Homeless(layer).name = layer.name /\ Homeless(layer).source = layer.source
      /\ Homeless(layer).schema = layer.schema
      /\ Homeless(layer).values = layer.values /\ Homeless(layer).home = Nowhere
  BY <1>1 DEF Layer
<1>4. layer = NoLayer => Homeless(layer) = NoLayer
  BY <1>1 DEF NoLayer, Layer
<1> QED
  BY <1>1, <1>2, <1>3, <1>4 DEF LayerOK, HomeOK

(* Once the layers that came from n have lost it, nothing ties them to what
   becomes of n. *)
LEMMA LosingHomeOK ==
  ASSUME Inv, NEW n \in Name
  PROVE  /\ SlotOK(LosingHome(n)) /\ Homes(LosingHome(n), store, damaged)
         /\ \A s \in Slot : LosingHome(n)[s].home # n
<1>1. ASSUME NEW s \in Slot
      PROVE  /\ LayerOK(LosingHome(n)[s]) /\ HomeOK(LosingHome(n)[s], store, damaged)
             /\ LosingHome(n)[s].home # n
  <2>1. LayerOK(slot[s]) /\ HomeOK(slot[s], store, damaged)
    BY DEF Inv, SlotOK, Homes
  <2>2. CASE slot[s].home = n
    <3>1. LosingHome(n)[s] = Homeless(slot[s])
      BY <2>2 DEF LosingHome
    <3>2. Homeless(slot[s]).home = Nowhere /\ Nowhere \notin Name
      BY <2>1, LibraryAssumption DEF Homeless, LayerOK, Layer, Nowhere
    <3> QED
      BY <2>1, <3>1, <3>2, HomelessOK
  <2>3. CASE slot[s].home # n
    BY <2>1, <2>3 DEF LosingHome
  <2> QED
    BY <2>2, <2>3
<1>2. DOMAIN LosingHome(n) = Slot
  BY DEF LosingHome
<1> QED
  BY <1>1, <1>2 DEF SlotOK, Homes

(* A layer tied to another effect, or to none, does not notice. *)
LEMMA ElsewhereOK ==
  ASSUME Inv, NEW n \in Name, NEW layer, HomeOK(layer, store, damaged),
         layer.home # n,
         \A m \in Name \ {n} : store'[m] = store[m] /\ (m \in damaged' <=> m \in damaged)
  PROVE  HomeOK(layer, store', damaged')
BY DEF HomeOK

LEMMA DeleteEffectKeeps ==
  ASSUME Inv, NEW n \in Name, DeleteEffect(n)
  PROVE  Inv'
<1>1. PICK pyFirst \in BOOLEAN :
        \/ /\ Finish(n, DeleteSteps(store[n], pyFirst))
           /\ slot' = LosingHome(n)
           /\ damaged' = damaged \ {n}
           /\ UNCHANGED <<up, faults>>
        \/ Interrupt(n, DeleteSteps(store[n], pyFirst), LosingHome(n))
  BY DEF DeleteEffect
<1> DEFINE steps == DeleteSteps(store[n], pyFirst)
<1>2. DirOK(store[n])
  BY DEF Inv, StoreOK
<1>3. Len(steps) = 3 /\ steps[3] = NoDirectory
      /\ \A i \in 1..2 : DirOK(steps[i]) /\ steps[i].here
  BY <1>2, DeleteStepsOK
<1> HIDE DEF steps
<1>4. CASE Interrupt(n, steps, LosingHome(n))
  <2>1. /\ Len(steps) \in Nat
        /\ \A i \in 1..(Len(steps) - 1) : DirOK(steps[i]) /\ steps[i].here
    BY <1>3
  <2>2. SlotOK(LosingHome(n)) /\ Homes(LosingHome(n), store, damaged)
    BY LosingHomeOK
  <2> QED
    BY <1>4, <2>1, <2>2, InterruptKeeps
<1>5. CASE /\ Finish(n, steps) /\ slot' = LosingHome(n)
           /\ damaged' = damaged \ {n} /\ UNCHANGED <<up, faults>>
  <2>1. store' = [store EXCEPT ![n] = NoDirectory]
    BY <1>3, <1>5 DEF Finish
  <2>2. DirOK(NoDirectory) /\ ~Complete(NoDirectory)
    BY DEF DirOK, NoDirectory, Complete, IsYaml, NoYaml, Yaml, IsBag, Nothing
  <2>3. /\ StoreOK(store', damaged')
        /\ \A m \in Name \ {n} : store'[m] = store[m]
    BY <1>5, <2>1, <2>2, FinishKeeps
  <2>4. Homes(slot', store', damaged')
    <3> SUFFICES ASSUME NEW s \in Slot PROVE HomeOK(slot'[s], store', damaged')
      BY DEF Homes
    <3>1. HomeOK(slot'[s], store, damaged) /\ slot'[s].home # n
      BY <1>5, LosingHomeOK DEF Homes
    <3>2. \A m \in Name \ {n} : m \in damaged' <=> m \in damaged
      BY <1>5
    <3> QED
      BY <2>3, <3>1, <3>2, ElsewhereOK
  <2>5. SlotOK(slot')
    BY <1>5, LosingHomeOK
  <2>6. up /\ up' = up /\ damaged' \subseteq Name /\ faults' \in 0..MaxFaults
    BY <1>5 DEF DeleteEffect, Inv
  <2> QED
    BY <2>3, <2>4, <2>5, <2>6 DEF Inv, StoreOK, SlotOK, Homes, HomeOK, Empty
<1> QED
  BY <1>1, <1>4, <1>5 DEF steps

LEMMA StarEffectKeeps ==
  ASSUME Inv, NEW n \in Name, StarEffect(n)
  PROVE  Inv'
<1> DEFINE yml == Rewritten(store[n].yml)
           steps == RewriteSteps(store[n], yml)
<1>1. DirOK(store[n]) /\ SlotOK(slot) /\ Homes(slot, store, damaged)
      /\ Complete(store[n])
  BY DEF Inv, StoreOK, StarEffect
<1>2. /\ IsYaml(yml) /\ IsBag(yml.values)
      /\ store[n].yml.of \in Version => yml = store[n].yml
  BY <1>1, RewrittenOK DEF DirOK
<1>3. /\ Len(steps) = 2 /\ \A i \in 1..2 : DirOK(steps[i]) /\ steps[i].here
      /\ steps[2] = Directory(store[n].py, yml)
  BY <1>1, <1>2, RewriteStepsOK
<1>4. CASE Interrupt(n, steps, slot)
  BY <1>1, <1>3, <1>4, InterruptKeeps
<1>5. CASE Finish(n, steps) /\ UNCHANGED <<up, slot, damaged, faults>>
  <2> DEFINE dir == Directory(store[n].py, yml)
  <2>1. store' = [store EXCEPT ![n] = dir] /\ DirOK(dir) /\ dir.here
    BY <1>3, <1>5, RewriteFinish
  <2>2. n \notin damaged => Intact(store[n]) /\ dir.yml = store[n].yml
                            /\ dir.py = store[n].py
    BY <1>1, <1>2 DEF Inv, StoreOK, Intact, Directory
  <2>3. n \notin damaged => Intact(dir) /\ Complete(dir)
    BY <1>1, <2>2 DEF Intact, Complete
  <2> HIDE DEF dir
  <2>4. /\ StoreOK(store', damaged') /\ store'[n] = dir
        /\ \A m \in Name \ {n} : store'[m] = store[m]
    BY <1>5, <2>1, <2>3, FinishKeeps
  <2>5. Homes(slot', store', damaged')
    <3> SUFFICES ASSUME NEW s \in Slot PROVE HomeOK(slot'[s], store', damaged')
      BY DEF Homes
    <3>1. HomeOK(slot[s], store, damaged) /\ slot'[s] = slot[s] /\ damaged' = damaged
      BY <1>1, <1>5 DEF Homes
    <3>2. CASE slot[s].home # n
      BY <2>4, <3>1, <3>2 DEF HomeOK
    <3>3. CASE slot[s].home = n
      BY <2>1, <2>2, <2>3, <2>4, <3>1, <3>3 DEF HomeOK
    <3> QED
      BY <3>2, <3>3
  <2> QED
    BY <1>5, <2>4, <2>5 DEF Inv, StoreOK, SlotOK, Homes, HomeOK, Empty
<1> QED
  BY <1>4, <1>5 DEF StarEffect

LEMMA SavePreviewKeeps ==
  ASSUME Inv, NEW n \in Name, NEW overwrite \in BOOLEAN, SavePreview(n, overwrite)
  PROVE  Inv'
<1> DEFINE layer == slot["preview"]
           yml == Yaml(layer.schema, layer.values)
           dir == Directory(layer.source, yml)
           steps == SaveSteps(store[n], layer.source, yml)
<1>1. /\ SlotOK(slot) /\ Homes(slot, store, damaged) /\ DirOK(store[n]) /\ up
      /\ LayerOK(layer) /\ layer.source \in Version /\ layer.schema # "none"
  BY DEF Inv, StoreOK, SlotOK, Slot, LayerOK, SavePreview
<1>2. IsYaml(yml) /\ IsBag(yml.values)
  <2>1. layer.schema \in Version \cup {"none", "torn", "blank"} /\ IsBag(layer.values)
    BY <1>1 DEF LayerOK, Good
  <2> QED
    BY <2>1, YamlOK
<1>3. /\ Len(steps) = 5 /\ \A i \in 1..5 : DirOK(steps[i]) /\ steps[i].here
      /\ steps[5] = dir
  <2>1. layer.source \in Version \cup {"none"}
    BY <1>1
  <2> HIDE DEF layer, yml
  <2> QED
    BY <1>1, <1>2, <2>1, SaveStepsOK
<1> HIDE DEF steps
<1>4. CASE Interrupt(n, steps, slot)
  <2>1. /\ Len(steps) \in Nat
        /\ \A i \in 1..(Len(steps) - 1) : DirOK(steps[i]) /\ steps[i].here
    BY <1>3
  <2> QED
    BY <1>1, <1>4, <2>1, InterruptKeeps
<1>5. CASE /\ Finish(n, steps) /\ slot' = Saved(n)
           /\ damaged' = IF layer.source = layer.schema THEN damaged \ {n}
                                                        ELSE damaged \cup {n}
           /\ UNCHANGED <<up, faults>>
  <2>1. store' = [store EXCEPT ![n] = dir] /\ DirOK(dir) /\ dir.here
        /\ dir.yml = yml /\ yml.of = layer.schema
    <3>1. DirOK(steps[5]) /\ steps[5].here
      BY <1>3
    <3> QED
      BY <1>3, <1>5, <3>1 DEF Finish, Directory, Yaml
  <2>2. n \notin damaged' => Intact(dir) /\ Complete(dir)
    <3> SUFFICES ASSUME n \notin damaged' PROVE Intact(dir) /\ Complete(dir)
      OBVIOUS
    <3>1. layer.source = layer.schema
      BY <1>5
    <3>2. Good(Schemas[layer.source], layer.values)
      BY <1>1, <3>1, SchemasAreSchemas DEF LayerOK
    <3> QED
      BY <1>1, <3>1, <3>2, SavedIntact
  <2> HIDE DEF dir
  <2>3. \A m \in Name \ {n} : m \in damaged' <=> m \in damaged
    BY <1>5
  <2>4. /\ StoreOK(store', damaged') /\ store'[n] = dir
        /\ \A m \in Name \ {n} : store'[m] = store[m]
    BY <2>1, <2>2, <2>3, FinishKeeps
  <2>5. ASSUME NEW s \in Slot
        PROVE  LayerOK(slot'[s]) /\ HomeOK(slot'[s], store', damaged')
    <3>1. LayerOK(slot[s]) /\ HomeOK(slot[s], store, damaged)
      BY <1>1 DEF SlotOK, Homes
    <3>2. CASE s = "preview"
      <4>1. slot'[s] = Layer(n, layer.source, layer.schema, layer.values, n)
        BY <1>1, <1>5, <3>2 DEF Saved, LayerOK, Layer
      <4>2. LayerOK(slot'[s])
        BY <1>1, <4>1 DEF LayerOK, Layer
      <4>3. slot'[s].name = n /\ slot'[s].home = n /\ slot'[s].schema = layer.schema
        BY <4>1 DEF Layer
      <4> QED
        BY <2>1, <2>2, <2>4, <4>2, <4>3 DEF HomeOK
    <3>3. CASE s # "preview" /\ slot[s].home # n
      <4>1. slot'[s] = slot[s]
        BY <1>5, <3>3 DEF Saved
      <4> QED
        BY <2>3, <2>4, <3>1, <3>3, <4>1, ElsewhereOK
    <3>4. CASE s # "preview" /\ slot'[s] = Homeless(slot[s])
      BY <3>1, <3>4, HomelessOK
    <3>5. CASE /\ slot'[s] = slot[s] /\ slot[s].home = n /\ slot[s].name = n
               /\ slot[s].schema = layer.schema
      BY <2>1, <2>2, <2>4, <3>1, <3>5 DEF HomeOK
    <3>6. s # "preview" /\ slot[s].home = n =>
            \/ slot'[s] = Homeless(slot[s])
            \/ slot'[s] = slot[s] /\ slot[s].name = n /\ slot[s].schema = layer.schema
      BY <1>5 DEF Saved
    <3> QED
      BY <3>2, <3>3, <3>4, <3>5, <3>6
  <2>6. SlotOK(slot') /\ Homes(slot', store', damaged')
    BY <1>5, <2>5 DEF SlotOK, Homes, Saved
  <2>7. up' = up /\ damaged' \subseteq Name /\ faults' \in 0..MaxFaults
    BY <1>5 DEF Inv
  <2> QED
    BY <1>1, <2>4, <2>6, <2>7 DEF Inv, StoreOK, SlotOK, Homes, HomeOK, Empty
<1> QED
  BY <1>4, <1>5 DEF SavePreview, steps

LEMMA LoadEffectKeeps ==
  ASSUME Inv, NEW s \in Slot, NEW n \in Name, LoadEffect(s, n)
  PROVE  Inv'
<1>1. PICK layer \in Loads(n, store[n]) \ {NoLayer} : slot' = [slot EXCEPT ![s] = layer]
  BY DEF LoadEffect
<1>2. DirOK(store[n]) /\ Complete(store[n]) /\ up
  BY DEF LoadEffect, Inv, StoreOK
<1>3. LayerOK(layer) /\ layer.name = n /\ layer.home = n /\ layer.schema = store[n].yml.of
  BY <1>1, <1>2, LoadsOK
<1>4. store[n].here
  BY <1>2 DEF DirOK, NoDirectory, Complete, NoYaml, Yaml
<1>5. HomeOK(layer, store, damaged)
  BY <1>2, <1>3, <1>4 DEF HomeOK
<1>6. SlotOK(slot') /\ Homes(slot', store, damaged)
  BY <1>1, <1>3, <1>5 DEF Inv, SlotOK, Homes
<1> QED
  BY <1>2, <1>6 DEF LoadEffect, Inv, StoreOK, SlotOK, Homes, HomeOK, Empty

LEMMA PullKeeps ==
  ASSUME Inv, PullLiveToPreview
  PROVE  Inv'
<1>1. SlotOK(slot') /\ Homes(slot', store, damaged)
  BY DEF PullLiveToPreview, Inv, SlotOK, Homes, Slot
<1> QED
  BY <1>1 DEF PullLiveToPreview, Inv, StoreOK, SlotOK, Homes, HomeOK, Empty

LEMMA CrashKeeps ==
  ASSUME Inv, Crash
  PROVE  Inv'
<1>1. DOMAIN slot' = Slot /\ Empty(slot')
  BY DEF Crash, Empty
<1>2. SlotOK(slot') /\ Homes(slot', store', damaged')
  BY <1>1, EmptyOK
<1>3. MaxFaults \in Nat
  BY LibraryAssumption
<1>4. faults' \in 0..MaxFaults
  BY <1>3 DEF Crash, Inv
<1>5. up' \in BOOLEAN /\ damaged' \subseteq Name /\ StoreOK(store', damaged')
  BY DEF Crash, Inv
<1> QED
  BY <1>1, <1>2, <1>4, <1>5 DEF Inv, StoreOK, SlotOK, Homes, HomeOK, Empty

(* Writing a layer's values under its name: an effect that is not damaged by
   it is the one the layer came from, whose schema the layer has. *)
LEMMA SaveValuesKeeps ==
  ASSUME Inv, up, NEW layer, LayerOK(layer), HomeOK(layer, store, damaged),
         NEW after, SlotOK(after), Homes(after, store, damaged),
         SaveValues(layer, after)
  PROVE  Inv'
<1> DEFINE n == layer.name
           yml == WithValues(store[n].yml, layer.values)
           dir == Directory(store[n].py, yml)
           steps == RewriteSteps(store[n], yml)
<1>1. CASE n \in Name /\ store[n].yml.of # "none"
  <2>1. DirOK(store[n]) /\ IsBag(layer.values)
    BY <1>1 DEF Inv, StoreOK, LayerOK, Good
  <2>2. /\ IsYaml(yml) /\ IsBag(yml.values)
        /\ store[n].yml.of \in Version => yml.of = store[n].yml.of
    BY <2>1, RewrittenOK DEF DirOK
  <2>3. /\ Len(steps) = 2 /\ \A i \in 1..2 : DirOK(steps[i]) /\ steps[i].here
        /\ steps[2] = dir
    BY <2>1, <2>2, RewriteStepsOK
  <2> HIDE DEF steps
  <2>4. CASE Interrupt(n, steps, after)
    <3>1. /\ Len(steps) \in Nat
          /\ \A i \in 1..(Len(steps) - 1) : DirOK(steps[i]) /\ steps[i].here
      BY <2>3
    <3> QED
      BY <1>1, <2>4, <3>1, InterruptKeeps
  <2>5. CASE /\ Finish(n, steps) /\ slot' = after
             /\ damaged' = IF layer.home = n THEN damaged ELSE damaged \cup {n}
             /\ UNCHANGED <<up, faults>>
    <3>1. store' = [store EXCEPT ![n] = dir] /\ DirOK(dir) /\ dir.here
          /\ dir.yml = yml /\ dir.py = store[n].py
      <4>1. DirOK(steps[2]) /\ steps[2].here /\ steps[2] = dir
        BY <2>3
      <4>2. store' = [store EXCEPT ![n] = steps[2]]
        BY <2>3, <2>5, RewriteFinish
      <4>3. dir.yml = yml /\ dir.py = store[n].py
        BY DEF Directory
      <4> HIDE DEF dir
      <4> QED
        BY <4>1, <4>2, <4>3
    <3>2. ASSUME n \notin damaged'
          PROVE  /\ Intact(dir) /\ Complete(dir)
                 /\ n \notin damaged /\ dir.yml.of = store[n].yml.of
      <4>1. layer.home = n /\ n \notin damaged
        BY <2>5, <3>2
      <4>2. Complete(store[n]) /\ layer.schema = store[n].yml.of
        BY <1>1, <4>1 DEF HomeOK
      <4>3. Intact(store[n])
        BY <1>1, <4>1, <4>2 DEF Inv, StoreOK
      <4>4. store[n].py \in Version /\ store[n].yml.of = store[n].py
            /\ yml.of = store[n].py
        BY <2>2, <4>3 DEF Intact
      <4>5. Good(Schemas[store[n].py], layer.values)
        BY <4>2, <4>4, SchemasAreSchemas DEF LayerOK
      <4>6. DOMAIN store[n].yml.values = DOMAIN Schemas[store[n].py]
        BY <4>3 DEF Intact, Good
      <4>7. yml.values = Merged(store[n].yml.values, layer.values)
        BY DEF WithValues, Yaml
      <4>8. Good(Schemas[store[n].py], yml.values)
        BY <4>5, <4>6, <4>7, MergedGood
      <4>9. Intact(dir)
        BY <3>1, <4>4, <4>8 DEF Intact
      <4> QED
        BY <3>1, <4>1, <4>2, <4>4, <4>9 DEF Complete
    <3> HIDE DEF dir
    <3>3. \A m \in Name \ {n} : m \in damaged' <=> m \in damaged
      BY <2>5
    <3>4. /\ StoreOK(store', damaged') /\ store'[n] = dir
          /\ \A m \in Name \ {n} : store'[m] = store[m]
      BY <1>1, <3>1, <3>2, <3>3, FinishKeeps
    <3>5. Homes(slot', store', damaged')
      <4> SUFFICES ASSUME NEW s \in Slot PROVE HomeOK(slot'[s], store', damaged')
        BY DEF Homes
      <4>1. HomeOK(after[s], store, damaged) /\ slot'[s] = after[s]
        BY <2>5 DEF Homes
      <4>2. CASE after[s].home # n
        BY <1>1, <3>3, <3>4, <4>1, <4>2, ElsewhereOK
      <4>3. CASE after[s].home = n
        BY <1>1, <3>1, <3>2, <3>4, <4>1, <4>3 DEF HomeOK
      <4> QED
        BY <4>2, <4>3
    <3>6. up' = up /\ damaged' \subseteq Name /\ faults' \in 0..MaxFaults
      BY <1>1, <2>5 DEF Inv
    <3>7. SlotOK(slot')
      BY <2>5
    <3> QED
      BY <3>4, <3>5, <3>6, <3>7 DEF Inv, StoreOK, SlotOK, Homes, HomeOK, Empty
  <2> QED
    BY <1>1, <2>4, <2>5 DEF SaveValues, steps
<1>2. CASE ~(n \in Name /\ store[n].yml.of # "none")
  <2>1. slot' = after /\ UNCHANGED <<up, store, damaged, faults>>
    BY <1>2 DEF SaveValues
  <2> QED
    BY <2>1 DEF Inv, StoreOK, SlotOK, Homes, HomeOK, Empty
<1> QED
  BY <1>1, <1>2

LEMMA PatchParamsKeeps ==
  ASSUME Inv, NEW s \in Slot, NEW patch \in Patches, PatchParams(s, patch)
  PROVE  Inv'
<1> DEFINE schema == SchemaOf(slot[s].schema)
           values == Updated(schema, slot[s].values, patch)
           layer == [slot[s] EXCEPT !.values = Updated(schema, @, patch)]
           after == [slot EXCEPT ![s] = layer]
<1>1. LayerOK(slot[s]) /\ HomeOK(slot[s], store, damaged) /\ up /\ slot[s] # NoLayer
  BY DEF Inv, SlotOK, Homes, PatchParams
<1>2. Good(schema, values)
  BY <1>1, SchemasAreSchemas, UpdatedGood DEF LayerOK
<1>3. layer = Layer(slot[s].name, slot[s].source, slot[s].schema, values, slot[s].home)
  BY <1>1 DEF LayerOK, Layer
<1> HIDE DEF values, layer
<1>4. /\ layer.name = slot[s].name /\ layer.source = slot[s].source
      /\ layer.schema = slot[s].schema /\ layer.values = values
      /\ layer.home = slot[s].home
  BY <1>3 DEF Layer
<1>5. LayerOK(layer) /\ HomeOK(layer, store, damaged)
  BY <1>1, <1>2, <1>3, <1>4 DEF LayerOK, HomeOK
<1>6. SlotOK(after) /\ Homes(after, store, damaged)
  BY <1>5 DEF Inv, SlotOK, Homes
<1>7. CASE Refused(schema, patch) = {}
  <2>1. SaveValues(layer, after)
    BY <1>7 DEF PatchParams, layer
  <2> HIDE DEF after
  <2> QED
    BY <1>1, <1>5, <1>6, <2>1, SaveValuesKeeps
<1>8. CASE Refused(schema, patch) # {}
  <2>1. slot' = after /\ UNCHANGED <<up, store, damaged, faults>>
    BY <1>8 DEF PatchParams, layer
  <2> HIDE DEF after
  <2> QED
    BY <1>1, <1>6, <2>1 DEF Inv, StoreOK, SlotOK, Homes, HomeOK, Empty
<1> QED
  BY <1>7, <1>8

LEMMA PromoteKeeps ==
  ASSUME Inv, Promote
  PROVE  Inv'
<1> DEFINE after == [slot EXCEPT !["live"] = slot["preview"]]
<1>1. LayerOK(slot["preview"]) /\ HomeOK(slot["preview"], store, damaged) /\ up
  BY DEF Inv, SlotOK, Homes, Slot, Promote
<1>2. SlotOK(after) /\ Homes(after, store, damaged)
  BY <1>1 DEF Inv, SlotOK, Homes
<1>3. SaveValues(slot["preview"], after)
  BY DEF Promote
<1> QED
  BY <1>1, <1>2, <1>3, SaveValuesKeeps

FollowsRename(layer, old, new) ==
  /\ LayerOK(Following(layer, old, new))
  /\ layer.name = old => Following(layer, old, new).name = new
  /\ layer.name # old => Following(layer, old, new).name = layer.name
  /\ layer.home = old => Following(layer, old, new).home = new
  /\ layer.home # old => Following(layer, old, new).home = layer.home
  /\ Following(layer, old, new).schema = layer.schema
  /\ LayerOK(Moving(layer, old, new))
  /\ layer.home = old => Moving(layer, old, new).home = new
  /\ layer.home # old => Moving(layer, old, new) = layer

LEMMA FollowingOK ==
  ASSUME NEW layer, LayerOK(layer), NEW old \in Name, NEW new \in Name
  PROVE  FollowsRename(layer, old, new)
<1> DEFINE name == IF layer.name = old THEN new ELSE layer.name
           home == IF layer.home = old THEN new ELSE layer.home
<1>1. layer = Layer(layer.name, layer.source, layer.schema, layer.values, layer.home)
  BY DEF LayerOK
<1>2. /\ Following(layer, old, new) =
           Layer(name, layer.source, layer.schema, layer.values, home)
      /\ Moving(layer, old, new) =
           Layer(layer.name, layer.source, layer.schema, layer.values, home)
  <2>1. /\ Following(layer, old, new) = [layer EXCEPT !.name = name, !.home = home]
        /\ Moving(layer, old, new) = [layer EXCEPT !.home = home]
    BY DEF Following, Moving
  <2> HIDE DEF name, home
  <2> QED
    BY <1>1, <2>1 DEF Layer
<1>3. /\ name \in Name \cup {Nowhere} /\ home \in Name \cup {Nowhere}
  BY DEF LayerOK
<1>4. layer = NoLayer => name = Nowhere /\ home = Nowhere
  BY LibraryAssumption DEF NoLayer, Layer, Nowhere
<1> HIDE DEF name, home
<1>5. /\ LayerOK(Layer(name, layer.source, layer.schema, layer.values, home))
      /\ LayerOK(Layer(layer.name, layer.source, layer.schema, layer.values, home))
  <2>1. CASE layer # NoLayer
    BY <1>3, <2>1 DEF LayerOK, Layer
  <2>2. CASE layer = NoLayer
    BY <1>1, <1>4, <2>2, EmptyOK DEF NoLayer, Layer
  <2> QED
    BY <2>1, <2>2
<1> QED
  BY <1>1, <1>2, <1>5 DEF FollowsRename, Layer, name, home

LEMMA RenameEffectKeeps ==
  ASSUME Inv, NEW old \in Name, NEW new \in Name, RenameEffect(old, new)
  PROVE  Inv'
<1> DEFINE yml == Rewritten(store[old].yml)
           moved == [store EXCEPT ![old] = NoDirectory]
           steps == RenameSteps(store[old])
           dir == Directory(store[old].py, yml)
<1>1. /\ SlotOK(slot) /\ Homes(slot, store, damaged) /\ DirOK(store[old]) /\ up
      /\ Complete(store[old]) /\ old # new /\ ~store[new].here /\ DOMAIN store = Name
  BY DEF Inv, StoreOK, RenameEffect
<1>2. store[old].here
  BY <1>1 DEF DirOK, NoDirectory, Complete, NoYaml, Yaml
<1>3. /\ IsYaml(yml) /\ IsBag(yml.values)
      /\ store[old].yml.of \in Version => yml = store[old].yml
  BY <1>1, RewrittenOK DEF DirOK
<1>4. /\ steps[1] = store[old] /\ steps[3] = dir
      /\ steps[2] = Directory(store[old].py, TornYaml)
  BY DEF RenameSteps
<1> HIDE DEF steps
<1>5. \A i \in 1..3 : DirOK(steps[i]) /\ steps[i].here
  <2>1. IsYaml(TornYaml) /\ IsBag(TornYaml.values)
    BY DEF IsYaml, TornYaml, Yaml, Nothing, IsBag
  <2>2. store[old].py \in Version \cup {"none", "torn"}
    BY <1>1 DEF DirOK
  <2>3. /\ DirOK(steps[1]) /\ steps[1].here
        /\ DirOK(steps[2]) /\ steps[2].here
        /\ DirOK(steps[3]) /\ steps[3].here
    BY <1>1, <1>2, <1>3, <1>4, <2>1, <2>2, DirectoryOK
  <2>4. \A i \in 1..3 : i = 1 \/ i = 2 \/ i = 3
    OBVIOUS
  <2> QED
    BY <2>3, <2>4
<1>6. \A s \in Slot : slot[s].home # new /\ LayerOK(slot[s])
                      /\ HomeOK(slot[s], store, damaged)
  BY <1>1 DEF Homes, HomeOK, SlotOK
<1>7. CASE /\ store' = [moved EXCEPT ![new] = steps[3]]
           /\ slot' = Renamed(old, new)
           /\ damaged' = (damaged \ {old, new})
                         \cup (IF old \in damaged THEN {new} ELSE {})
           /\ UNCHANGED <<up, faults>>
  <2>1. /\ store'[new] = dir /\ store'[old] = NoDirectory /\ DOMAIN store' = Name
        /\ \A m \in Name \ {old, new} : store'[m] = store[m]
    BY <1>1, <1>4, <1>7
  <2>2. /\ old \notin damaged' /\ (new \in damaged' <=> old \in damaged)
        /\ \A m \in Name \ {old, new} : m \in damaged' <=> m \in damaged
    BY <1>1, <1>7
  <2>3. DirOK(dir) /\ dir.here /\ dir.py = store[old].py /\ dir.yml = yml
    <3>1. DirOK(steps[3]) /\ steps[3].here
      BY <1>5
    <3> QED
      BY <1>4, <3>1 DEF Directory
  <2>4. old \notin damaged => /\ Intact(dir) /\ Complete(dir)
                              /\ dir.yml.of = store[old].yml.of
    <3> SUFFICES ASSUME old \notin damaged
                 PROVE  Intact(dir) /\ Complete(dir) /\ dir.yml.of = store[old].yml.of
      OBVIOUS
    <3>1. Intact(store[old])
      BY <1>1 DEF Inv, StoreOK
    <3>2. dir.yml = store[old].yml
      BY <1>3, <2>3, <3>1 DEF Intact
    <3> QED
      BY <1>1, <2>3, <3>1, <3>2 DEF Intact, Complete
  <2> HIDE DEF dir
  <2>5. StoreOK(store', damaged')
    <3>1. DirOK(NoDirectory) /\ ~Complete(NoDirectory)
      BY DEF DirOK, NoDirectory, Complete, IsYaml, NoYaml, Yaml, IsBag, Nothing
    <3> QED
      BY <2>1, <2>2, <2>3, <2>4, <3>1 DEF Inv, StoreOK
  <2>6. ASSUME NEW s \in Slot
        PROVE  LayerOK(slot'[s]) /\ HomeOK(slot'[s], store', damaged')
    <3>1. slot'[s] = Following(slot[s], old, new)
      BY <1>7 DEF Renamed
    <3>2. /\ LayerOK(slot'[s])
          /\ slot[s].name = old => slot'[s].name = new
          /\ slot[s].name # old => slot'[s].name = slot[s].name
          /\ slot[s].home = old => slot'[s].home = new
          /\ slot[s].home # old => slot'[s].home = slot[s].home
          /\ slot'[s].schema = slot[s].schema
      <4>1. LayerOK(slot[s])
        BY <1>6
      <4>2. FollowsRename(slot[s], old, new)
        BY <4>1, FollowingOK
      <4> QED
        BY <3>1, <4>2 DEF FollowsRename
    <3>3. CASE slot[s].home = old
      BY <1>6, <2>1, <2>2, <2>3, <2>4, <3>2, <3>3 DEF HomeOK
    <3>4. CASE slot[s].home # old
      BY <1>6, <2>1, <2>2, <3>2, <3>4 DEF HomeOK
    <3> QED
      BY <3>2, <3>3, <3>4
  <2>7. SlotOK(slot') /\ Homes(slot', store', damaged')
    BY <1>7, <2>6 DEF SlotOK, Homes, Renamed
  <2>8. up' = up /\ damaged' \subseteq Name /\ faults' \in 0..MaxFaults
    BY <1>7 DEF Inv
  <2> QED
    BY <1>1, <2>5, <2>7, <2>8 DEF Inv, StoreOK, SlotOK, Homes, HomeOK, Empty
<1>8. CASE /\ faults < MaxFaults /\ faults' = faults + 1
           /\ \E i \in 1..2 : store' = [moved EXCEPT ![new] = steps[i]]
           /\ damaged' = (damaged \ {old}) \cup {new}
           /\ \/ up' = FALSE /\ slot' = [s \in Slot |-> NoLayer]
              \/ up' = TRUE /\ slot' = [s \in Slot |-> Moving(slot[s], old, new)]
  <2>1. PICK i \in 1..2 : store' = [moved EXCEPT ![new] = steps[i]]
    BY <1>8
  <2>2. /\ store'[new] = steps[i] /\ store'[old] = NoDirectory /\ DOMAIN store' = Name
        /\ \A m \in Name \ {old, new} : store'[m] = store[m]
    BY <1>1, <2>1
  <2>3. DirOK(steps[i]) /\ steps[i].here
    BY <1>5
  <2>4. /\ old \notin damaged' /\ new \in damaged'
        /\ \A m \in Name \ {old, new} : m \in damaged' <=> m \in damaged
    BY <1>1, <1>8
  <2>5. StoreOK(store', damaged')
    <3>1. DirOK(NoDirectory) /\ ~Complete(NoDirectory)
      BY DEF DirOK, NoDirectory, Complete, IsYaml, NoYaml, Yaml, IsBag, Nothing
    <3> QED
      BY <2>2, <2>3, <2>4, <3>1 DEF Inv, StoreOK
  <2>6. SlotOK(slot') /\ Homes(slot', store', damaged') /\ (~up' => Empty(slot'))
        /\ up' \in BOOLEAN
    <3>1. CASE up' = FALSE /\ slot' = [s \in Slot |-> NoLayer]
      <4>1. DOMAIN slot' = Slot /\ Empty(slot')
        BY <3>1 DEF Empty
      <4> QED
        BY <3>1, <4>1, EmptyOK
    <3>2. CASE up' = TRUE /\ slot' = [s \in Slot |-> Moving(slot[s], old, new)]
      <4>1. ASSUME NEW s \in Slot
            PROVE  LayerOK(slot'[s]) /\ HomeOK(slot'[s], store', damaged')
        <5>1. slot'[s] = Moving(slot[s], old, new)
          BY <3>2
        <5>2. /\ LayerOK(slot'[s])
              /\ slot[s].home = old => slot'[s].home = new
              /\ slot[s].home # old => slot'[s] = slot[s]
          <6>1. LayerOK(slot[s])
            BY <1>6
          <6>2. FollowsRename(slot[s], old, new)
            BY <6>1, FollowingOK
          <6> QED
            BY <5>1, <6>2 DEF FollowsRename
        <5>3. CASE slot[s].home = old
          BY <2>2, <2>3, <2>4, <5>2, <5>3 DEF HomeOK
        <5>4. CASE slot[s].home # old
          BY <1>6, <2>2, <2>4, <5>2, <5>4 DEF HomeOK
        <5> QED
          BY <5>2, <5>3, <5>4
      <4>2. DOMAIN slot' = Slot
        BY <3>2
      <4> QED
        BY <3>2, <4>1, <4>2 DEF SlotOK, Homes
    <3> QED
      BY <1>8, <3>1, <3>2
  <2>7. MaxFaults \in Nat
    BY LibraryAssumption
  <2>8. faults' \in 0..MaxFaults
    BY <1>8, <2>7 DEF Inv
  <2>9. damaged' \subseteq Name
    BY <1>8 DEF Inv
  <2> QED
    BY <2>5, <2>6, <2>8, <2>9 DEF Inv, StoreOK, SlotOK, Homes, HomeOK, Empty
<1> QED
  BY <1>7, <1>8 DEF RenameEffect, steps

-----------------------------------------------------------------------------
(***************************************************************************)
(* The theorems.                                                           *)
(***************************************************************************)
LEMMA NextInv ==
  ASSUME Inv, [Next]_vars
  PROVE  Inv'
<1>1. CASE Crash
  BY <1>1, CrashKeeps
<1>2. CASE Boot
  BY <1>2, BootKeeps
<1>3. CASE \E b \in DOMAIN Bundle : InstallExample(b)
  BY <1>3, InstallExampleKeeps
<1>4. CASE \E n \in Name, v \in Version : WriteEffect(n, v)
  BY <1>4, WriteEffectKeeps
<1>5. CASE \E n \in Name, overwrite \in BOOLEAN : SavePreview(n, overwrite)
  BY <1>5, SavePreviewKeeps
<1>6. CASE \E old, new \in Name : RenameEffect(old, new)
  BY <1>6, RenameEffectKeeps
<1>7. CASE \E n \in Name : DeleteEffect(n) \/ StarEffect(n)
  BY <1>7, DeleteEffectKeeps, StarEffectKeeps
<1>8. CASE \E s \in Slot, n \in Name : LoadEffect(s, n)
  BY <1>8, LoadEffectKeeps
<1>9. CASE \E s \in Slot, patch \in Patches : PatchParams(s, patch)
  BY <1>9, PatchParamsKeeps
<1>10. CASE Promote
  BY <1>10, PromoteKeeps
<1>11. CASE PullLiveToPreview
  BY <1>11, PullKeeps
<1>12. CASE UNCHANGED vars
  BY <1>12 DEF vars, Inv, StoreOK, SlotOK, Homes, HomeOK, Empty
<1> QED
  BY <1>1, <1>2, <1>3, <1>4, <1>5, <1>6, <1>7, <1>8, <1>9, <1>10, <1>11, <1>12
  DEF Next

(* Whatever is saved, renamed, deleted or cut off, disk and slots satisfy
   the invariant above. *)
THEOREM Invariance == Spec => []Inv
<1>1. Init => Inv
  BY InitInv
<1>2. Inv /\ [Next]_vars => Inv'
  BY NextInv
<1> QED
  BY <1>1, <1>2, PTL DEF Spec

(* The files of the library and the layers of both slots are of their types. *)
THEOREM TypeCorrect == Spec => []TypeOK
<1>1. Inv => TypeOK
  <2> SUFFICES ASSUME Inv PROVE TypeOK
    OBVIOUS
  <2>1. up \in BOOLEAN /\ damaged \subseteq Name /\ faults \in 0..MaxFaults
    BY DEF Inv
  <2>2. DOMAIN store = Name /\ \A n \in Name : DirOK(store[n])
    BY DEF Inv, StoreOK
  <2>3. DOMAIN slot = Slot /\ \A s \in Slot : LayerOK(slot[s])
    BY DEF Inv, SlotOK
  <2>4. \A s \in Slot : IsLayer(slot[s])
    BY <2>3 DEF IsLayer, LayerOK, Good
  <2>5. \A n \in Name :
          /\ store[n] = [here |-> store[n].here, py |-> store[n].py, yml |-> store[n].yml]
          /\ store[n].here \in BOOLEAN
          /\ store[n].py \in Version \cup {"none", "torn"}
          /\ IsYaml(store[n].yml)
          /\ ~store[n].here => store[n] = NoDirectory
    BY <2>2 DEF DirOK
  <2> QED
    BY <2>1, <2>2, <2>3, <2>4, <2>5 DEF TypeOK
<1> QED
  BY <1>1, Invariance, PTL

(* A layer carries the present name of the saved effect it came from, unless
   a write of that effect was cut off: the walk of rename_effect and the
   renaming in save_preview leave no layer behind. *)
THEOREM LayersFollow == Spec => []FollowsItsEffect
<1>1. Inv => FollowsItsEffect
  BY DEF Inv, Homes, HomeOK, FollowsItsEffect
<1> QED
  BY <1>1, Invariance, PTL

(* Every value in a layer is one its control allows, however it got there:
   _coerce stands on every way in. *)
THEOREM ValuesFit == Spec => []ParamsFit
<1>1. Inv => ParamsFit
  BY DEF Inv, SlotOK, LayerOK, Good, ParamsFit
<1> QED
  BY <1>1, Invariance, PTL

(* A saved effect no fault has touched, and no other effect's slider, loads
   exactly as it was left. *)
THEOREM SavedLoads == Spec => []StoredEffectsLoad
<1>1. Inv => StoredEffectsLoad
  BY IntactLoads DEF Inv, StoreOK, StoredEffectsLoad
<1> QED
  BY <1>1, Invariance, PTL

(***************************************************************************)
(* After a boot the bundled examples are complete, whatever was cut off    *)
(* before it, and unless pulse_mono was damaged both legs show it: it is   *)
(* an effect like any other, to which SavedLoads applies.                  *)
(***************************************************************************)
THEOREM RigComesUp == Spec => BundledComeBack
<1> DEFINE Back == /\ \A b \in DOMAIN Bundle :
                        store'[b].py # "none" /\ store'[b].yml.of # "none"
                   /\ PulseMono \notin damaged =>
                        \A s \in Slot : slot'[s].name = PulseMono
<1>1. StoredEffectsLoad /\ Boot => Back
  <2> SUFFICES ASSUME StoredEffectsLoad, Boot PROVE Back
    OBVIOUS
  <2>1. /\ \A b \in DOMAIN Bundle : Complete(store[b])
        /\ store' = store
    BY DEF Boot, Missing
  <2>2. PulseMono \in DOMAIN Bundle /\ PulseMono \in Name
    BY LibraryAssumption
  <2>3. PICK live \in Loads(PulseMono, store[PulseMono]),
             preview \in Loads(PulseMono, store[PulseMono]) :
               slot' = [s \in Slot |-> IF s = "live" THEN live ELSE preview]
    BY DEF Boot
  <2>4. ASSUME PulseMono \notin damaged
        PROVE  live.name = PulseMono /\ preview.name = PulseMono
    <3> DEFINE yml == store[PulseMono].yml
               layer == Layer(PulseMono, yml.of, yml.of, yml.values, PulseMono)
    <3>1. Loads(PulseMono, store[PulseMono]) = {layer}
      BY <2>1, <2>2, <2>4 DEF StoredEffectsLoad
    <3>2. layer.name = PulseMono
      BY DEF Layer
    <3> QED
      BY <2>3, <3>1, <3>2
  <2>5. PulseMono \notin damaged => \A s \in Slot : slot'[s].name = PulseMono
    BY <2>3, <2>4
  <2> QED
    BY <2>1, <2>5 DEF Complete
<1>2. StoredEffectsLoad /\ [Next]_vars => [Boot => Back]_vars
  BY <1>1
<1> QED
  BY <1>2, SavedLoads, PTL DEF Spec, BundledComeBack
=============================================================================
