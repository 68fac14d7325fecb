----------------------------- MODULE MCLibrary -----------------------------
(***************************************************************************)
(* Constants of Library for TLC: the bundled pulse_mono, with a colour and *)
(* a slider, and an effect of the LLM's that uses the same two keys for a  *)
(* palette and an int slider.  "ice" with a "#" is as long as a colour and *)
(* is taken for one; "fire" is not.                                        *)
(***************************************************************************)
EXTENDS Library, TLC

CONSTANTS pulse_mono, other

Texts == {"ice", "fire", "#ice", "#ff5566"}
Colours == ("ice" :> "#ice") @@ ("#ice" :> "#ice") @@ ("#ff5566" :> "#ff5566")
Prints == [h \in {} |-> "?"]   \* no number meets a colour here
Palettes == {"ice", "fire"}

Pulse == ("color" :> [control |-> "color", default |-> "#ff5566"])
      @@ ("floor" :> [control |-> "slider", min |-> 0, max |-> 2, default |-> 1])
Written == ("color" :> [control |-> "palette", default |-> "fire"])
        @@ ("floor" :> [control |-> "int_slider", min |-> 2, max |-> 4, default |-> 2])

Declared == ("pulse" :> Pulse) @@ ("written" :> Written)
Examples == pulse_mono :> "pulse"

(* A drag out of range together with a palette and a key no effect has, and a
   patch whose second key is refused. *)
Drags == {<< <<"color", Str("ice")>>, <<"glow", Num(0)>>, <<"floor", Num(3)>> >>,
          << <<"floor", Num(3)>>, <<"color", Str("?")>> >>}
=============================================================================
