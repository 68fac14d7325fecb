--------------------------- MODULE MCInstallation ---------------------------
(***************************************************************************)
(* Constants of Installation for TLC: the installer has written any two    *)
(* strips on either controller in any two arms of the rig, or any three on *)
(* one controller in any order; the editor knows three layouts, one of     *)
(* which overlaps.                                                         *)
(***************************************************************************)
EXTENDS Installation, TLC

Strip(id, controller, offset, count, bucket, endx, reversed) ==
  [id |-> id, controller |-> controller, offset |-> offset, count |-> count,
   bucket |-> bucket, endx |-> endx, reversed |-> reversed]

Sizes == ("a" :> 4) @@ ("b" :> 2)

Pairs ==
  {<<Strip(1, "a", o1, n1, 1, 1, FALSE), Strip(2, c, o2, n2, b2, x, TRUE)>> :
     o1 \in 0..1, n1 \in 1..2, c \in {"a", "b"}, o2 \in 0..2, n2 \in 1..2,
     b2 \in {1, 4}, x \in {0, 2}}

Triples ==
  {<<Strip(1, "a", o1, n1, 0, 1, FALSE), Strip(2, "a", o2, n2, 1, 1, FALSE),
     Strip(3, "a", o3, n3, 2, -1, FALSE)>> :
     o1 \in 0..2, n1 \in 1..2, o2 \in 0..2, n2 \in 1..2, o3 \in 0..2, n3 \in 1..3}

Twins == {<<Strip(1, "a", 0, 1, 0, 1, FALSE), Strip(1, "a", 1, 1, 0, 1, FALSE)>>}

Written == Pairs \cup Triples \cup Twins

Editor ==
  {<<Strip(1, "a", 0, 1, 0, 1, FALSE)>>,
   <<Strip(1, "a", 2, 2, 3, -1, TRUE), Strip(2, "a", 0, 2, 0, 1, FALSE)>>,
   <<Strip(1, "a", 0, 3, 0, 1, FALSE), Strip(2, "a", 2, 1, 1, 1, FALSE)>>}

Bounds == ("brightness" :> 2) @@ ("speed" :> 3)
Turns == {"brightness" :> 0, "brightness" :> 3, "speed" :> 1}
=============================================================================
