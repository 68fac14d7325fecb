--------------------------- MODULE ConfigRegister ---------------------------
(***************************************************************************)
(* What the installation's configuration promises its operators, without   *)
(* files: a register that holds a layout and the settings of the master    *)
(* knobs, and that is only ever seen whole.                                *)
(*   - The rig runs the stored layout from start to stop: what a restart   *)
(*     would restore is what is in force.                                  *)
(*   - A new layout replaces the stored layout and nothing else; the knobs *)
(*     may be turned without being stored, and storing them leaves the     *)
(*     layout alone.                                                       *)
(*   - When the server dies, the last operation has happened or has not.   *)
(***************************************************************************)
CONSTANTS
  Layout,    \* layouts that may be stored
  Playable,  \* those that a server starts with
  Knobs,     \* settings of the knobs
  Off        \* no server runs

VARIABLES
  stored,  \* the layout and the settings that a restart would restore
  inForce  \* the layout and the settings in force, or Off

vars == <<stored, inForce>>

Init ==
  /\ stored \in [layout : Layout, knobs : Knobs]
  /\ inForce = Off

Start ==
  /\ inForce = Off
  /\ stored.layout \in Playable
  /\ inForce' = stored
  /\ UNCHANGED stored

Relayout ==
  /\ inForce # Off
  /\ inForce'.layout \in Playable
  /\ inForce' = [inForce EXCEPT !.layout = inForce'.layout]
  /\ stored' = [stored EXCEPT !.layout = inForce'.layout]

Turn ==
  /\ inForce # Off
  /\ inForce'.knobs \in Knobs
  /\ inForce' = [inForce EXCEPT !.knobs = inForce'.knobs]
  /\ UNCHANGED stored

Keep ==
  /\ inForce # Off
  /\ inForce'.knobs \in Knobs
  /\ inForce' = [inForce EXCEPT !.knobs = inForce'.knobs]
  /\ stored' = [stored EXCEPT !.knobs = inForce'.knobs]

Stop ==
  /\ inForce # Off
  /\ inForce' = Off
  /\ \/ stored'.layout \in Playable /\ stored' = [stored EXCEPT !.layout = stored'.layout]
     \/ stored'.knobs \in Knobs /\ stored' = [stored EXCEPT !.knobs = stored'.knobs]

Next == Start \/ Stop \/ Relayout \/ Turn \/ Keep

Spec == Init /\ [][Next]_vars
=============================================================================
