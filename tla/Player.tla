------------------------------- MODULE Player -------------------------------
(***************************************************************************)
(* What the playlist promises the operator, without tasks or files: one    *)
(* player that goes round its list.                                        *)
(*   - Each entry is put on, if its effect is there and installs, and      *)
(*     keeps its slot either way; the entry after it in the list of that   *)
(*     moment follows.                                                     *)
(*   - Stopping takes hold at once: nothing is put on afterwards, and a    *)
(*     start, however soon, begins with the first entry and a full slot.   *)
(*   - The list outlives the process.  An edit may fail to be kept, and is  *)
(*     then in force until the next start only, but never unbeknownst to   *)
(*     the operator.                                                       *)
(***************************************************************************)
EXTENDS Integers, Sequences

CONSTANTS
  Name,   \* effects there may be
  Boot,   \* the one shown after boot
  Broken  \* those that do not install

VARIABLES
  entries,  \* the list
  kept,     \* the list that a restart brings back
  acknowledged,  \* the operator was told that the last edit is kept
  running,
  index,    \* the entry that is on, or comes first
  slot,     \* what is left of its slot
  library,  \* effects there are
  live      \* the one that is shown

lists == <<entries, kept, acknowledged>>
vars == <<lists, running, index, slot, library, live>>

Pending == [on |-> FALSE, left |-> 0]
Slot(slices) == [on |-> TRUE, left |-> slices]

Init ==
  /\ entries = << >> /\ kept = << >> /\ acknowledged = TRUE
  /\ ~running /\ index = 0 /\ slot = Pending
  /\ library = Name /\ live = Boot

(* Another list, of effects there are; the slot under way is sat out. *)
Edit ==
  /\ entries' \in Seq([name : library, slices : Nat])
  /\ \/ kept' = entries' /\ acknowledged' = TRUE
     \/ kept' = kept /\ acknowledged' = FALSE
  /\ index' = IF index < Len(entries') THEN index ELSE 0
  /\ UNCHANGED <<running, slot, library, live>>

Start ==
  /\ ~running /\ entries # << >>
  /\ running' = TRUE /\ index' = 0 /\ slot' = Pending
  /\ UNCHANGED <<lists, library, live>>

Stop ==
  /\ running' = FALSE /\ slot' = Pending
  /\ UNCHANGED <<lists, index, library, live>>

PutOn(i) ==
  /\ entries # << >>
  /\ LET entry == entries[i + 1]
     IN  /\ slot' = Slot(entry.slices)
         /\ live' = IF entry.name \in library \ Broken THEN entry.name ELSE live
  /\ index' = i
  /\ UNCHANGED <<lists, running, library>>

Idle ==
  /\ entries = << >>
  /\ slot' = Pending
  /\ UNCHANGED <<lists, running, index, library, live>>

Sit ==
  /\ slot.left > 1
  /\ slot' = Slot(slot.left - 1)
  /\ UNCHANGED <<lists, running, index, library, live>>

Play ==
  /\ running
  /\ \/ ~slot.on /\ PutOn(index)
     \/ slot.on /\ slot.left <= 1 /\ PutOn((index + 1) % Len(entries))
     \/ slot.on /\ Sit
     \/ ~(slot.on /\ slot.left > 1) /\ Idle

(* Around it: effects come and go and are put on by hand; a restart. *)
ChangeLibrary == library' \subseteq Name /\ UNCHANGED <<lists, running, index, slot, live>>

Load(name) ==
  /\ name \in library \ Broken
  /\ live' = name
  /\ UNCHANGED <<lists, running, index, slot, library>>

Restart ==
  /\ running' = FALSE /\ index' = 0 /\ slot' = Pending
  /\ live' = Boot
  /\ entries' = kept
  /\ UNCHANGED <<kept, acknowledged, library>>

Next ==
  \/ Edit \/ Start \/ Stop \/ Play
  \/ ChangeLibrary \/ Restart
  \/ \E name \in Name : Load(name)

Spec == Init /\ [][Next]_vars
=============================================================================
