------------------------------- MODULE Params -------------------------------
(***************************************************************************)
(* The parameters of an effect (surface/base.py, ParamStore; the controls  *)
(* of surface/schema.py): a schema gives each key a control, and every     *)
(* value that reaches a key, from the disk, a slider or the effect that a  *)
(* new one replaces, goes through _coerce.                                 *)
(*                                                                         *)
(* A value is a pair of a kind and a datum.  Numbers count halves, so that *)
(* int() has something to cut off.  Texts are opaque but for what _coerce  *)
(* asks of them: whether "#" and the text make a string of the length of a *)
(* colour (AsColour gives that string), and which of them are the names of *)
(* palettes.  No text in Text reads as a number.                           *)
(***************************************************************************)
EXTENDS Integers, Sequences

CONSTANTS
  Text,      \* the strings that occur
  AsColour,  \* the strings accepted as colours, each with its coerced form
  Printed,   \* str(x) of a number
  Palette    \* named_palette_names()

ASSUME ParamsAssumption ==
  /\ AsColour \in [DOMAIN AsColour -> DOMAIN AsColour]
  /\ \A s \in DOMAIN AsColour : AsColour[AsColour[s]] = AsColour[s]
  /\ DOMAIN AsColour \subseteq Text
  /\ Palette \subseteq Text /\ Palette # {}

Num(h) == <<"num", h>>
Flag(b) == <<"flag", b>>
Str(s) == <<"text", s>>
Bad == <<"raises", 0>>      \* float(), int() or the colour test raised

IsNum(v) == v[1] = "num"
IsFlag(v) == v[1] = "flag"
IsText(v) == v[1] = "text"

IsValue(v) ==
  /\ v = <<v[1], v[2]>>
  /\ \/ IsNum(v) /\ v[2] \in Int
     \/ IsFlag(v) /\ v[2] \in BOOLEAN
     \/ IsText(v)

(* A bag of values: what a layer holds, and the values of a yaml file. *)
IsBag(values) ==
  /\ values = [k \in DOMAIN values |-> values[k]]
  /\ \A k \in DOMAIN values : IsValue(values[k])

(* float(x) of a number or a bool, in halves; int(x) cuts towards zero. *)
Halves(v) == IF IsFlag(v) THEN (IF v[2] THEN 2 ELSE 0) ELSE v[2]
Whole(h) == IF h >= 0 THEN 2 * (h \div 2) ELSE -2 * ((-h) \div 2)

(* str(x): a number prints as Printed says, True and False as no colour,
   palette or option. *)
Shown(v) ==
  IF IsText(v) THEN v[2]
  ELSE IF IsNum(v) /\ v[2] \in DOMAIN Printed THEN Printed[v[2]] ELSE "?"

(***************************************************************************)
(* max(min, x), then min(max, x).                                          *)
(* Mutant: the upper bound is not applied.                                 *)
(***************************************************************************)
ClampFromBelow(spec, h) == IF h < spec.min THEN spec.min ELSE h

Clamp(spec, h) ==
  IF h < spec.min THEN spec.min ELSE IF h > spec.max THEN spec.max ELSE h

(***************************************************************************)
(* The branches of _coerce, one per control.                               *)
(***************************************************************************)
CoerceSlider(spec, raw) ==
  IF IsText(raw) THEN Bad ELSE Num(Clamp(spec, Halves(raw)))

CoerceIntSlider(spec, raw) ==
  IF IsText(raw) THEN Bad ELSE Num(Clamp(spec, Whole(Halves(raw))))

CoerceColor(spec, raw) ==
  IF Shown(raw) \in DOMAIN AsColour THEN Str(AsColour[Shown(raw)]) ELSE Bad

CoerceSelect(spec, raw) ==
  IF Shown(raw) \in spec.options THEN Str(Shown(raw)) ELSE Str(spec.default)

CoerceToggle(spec, raw) ==
  Flag(IF IsText(raw) THEN raw[2] # "" ELSE Halves(raw) # 0)

CoercePalette(spec, raw) ==
  IF Shown(raw) \in Palette THEN Str(Shown(raw)) ELSE Str(spec.default)

Coerce(spec, raw) ==
  CASE spec.control = "slider"     -> CoerceSlider(spec, raw)
    [] spec.control = "int_slider" -> CoerceIntSlider(spec, raw)
    [] spec.control = "color"      -> CoerceColor(spec, raw)
    [] spec.control = "select"     -> CoerceSelect(spec, raw)
    [] spec.control = "toggle"     -> CoerceToggle(spec, raw)
    [] spec.control = "palette"    -> CoercePalette(spec, raw)

(***************************************************************************)
(* A schema as WriteEffectArgs accepts it: bounds in order, the default    *)
(* within them, among the options, a hex colour, a known palette.          *)
(***************************************************************************)
IsSpec(spec) ==
  \/ /\ spec.control = "slider"
     /\ spec.min \in Int /\ spec.max \in Int /\ spec.default \in Int
     /\ spec.min <= spec.default /\ spec.default <= spec.max
  \/ /\ spec.control = "int_slider"
     /\ spec.min \in Int /\ spec.max \in Int /\ spec.default \in Int
     /\ spec.min <= spec.default /\ spec.default <= spec.max
     /\ \A h \in {spec.min, spec.max, spec.default} : Whole(h) = h
  \/ /\ spec.control = "color"
     /\ spec.default \in DOMAIN AsColour
  \/ /\ spec.control = "select"
     /\ spec.options \subseteq Text /\ spec.default \in spec.options
  \/ /\ spec.control = "toggle"
     /\ spec.default \in BOOLEAN
  \/ /\ spec.control = "palette"
     /\ spec.default \in Palette

(* What the effect's code may count on when it reads a parameter. *)
Fits(spec, v) ==
  \/ /\ spec.control = "slider"
     /\ IsNum(v) /\ v[2] \in spec.min..spec.max
  \/ /\ spec.control = "int_slider"
     /\ IsNum(v) /\ v[2] \in spec.min..spec.max /\ Whole(v[2]) = v[2]
  \/ /\ spec.control = "color"
     /\ IsText(v) /\ v[2] \in DOMAIN AsColour /\ AsColour[v[2]] = v[2]
  \/ /\ spec.control = "select"
     /\ IsText(v) /\ v[2] \in spec.options
  \/ /\ spec.control = "toggle"
     /\ IsFlag(v) /\ v[2] \in BOOLEAN
  \/ /\ spec.control = "palette"
     /\ IsText(v) /\ v[2] \in Palette

-----------------------------------------------------------------------------
(***************************************************************************)
(* ParamStore: a schema is a function from keys to controls, a bag of      *)
(* values a function from the same keys.                                   *)
(***************************************************************************)
AsValue(spec) ==
  CASE spec.control \in {"slider", "int_slider"} -> Num(spec.default)
    [] spec.control = "toggle" -> Flag(spec.default)
    [] OTHER -> Str(spec.default)

Defaults(schema) == [k \in DOMAIN schema |-> Coerce(schema[k], AsValue(schema[k]))]

(* set_initial_values on a fresh store raises when one value is refused. *)
Raises(schema, given) ==
  \E k \in DOMAIN schema \cap DOMAIN given : Coerce(schema[k], given[k]) = Bad

Initial(schema, given) ==
  [k \in DOMAIN schema |->
     IF k \in DOMAIN given THEN Coerce(schema[k], given[k])
                           ELSE Defaults(schema)[k]]

(* The operator's tweaks that a new effect takes over: those of equal key. *)
Carry(schema, values) == [k \in DOMAIN schema \cap DOMAIN values |-> values[k]]

(***************************************************************************)
(* update: the keys of a patch one by one, unknown keys skipped, until one *)
(* raises; what was applied before stays.  A patch, a JSON object, is the  *)
(* sequence of its <<key, value>>, no key twice.                           *)
(* Mutant: unknown keys are taken as they come.                            *)
(***************************************************************************)
Refused(schema, patch) ==
  {i \in DOMAIN patch : /\ patch[i][1] \in DOMAIN schema
                        /\ Coerce(schema[patch[i][1]], patch[i][2]) = Bad}

Applied(schema, patch) ==
  {i \in DOMAIN patch : patch[i][1] \in DOMAIN schema
                        /\ \A j \in Refused(schema, patch) : i < j}

UpdatedUnknown(schema, values, patch) ==
  [k \in DOMAIN values \cup {patch[i][1] : i \in DOMAIN patch} |->
     IF k \in DOMAIN values THEN values[k] ELSE Num(0)]

Updated(schema, values, patch) ==
  [k \in DOMAIN values |->
     LET hits == {i \in Applied(schema, patch) : patch[i][1] = k}
     IN  IF hits = {} THEN values[k]
         ELSE Coerce(schema[k], patch[CHOOSE i \in hits : TRUE][2])]
=============================================================================
