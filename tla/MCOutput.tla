------------------------------ MODULE MCOutput ------------------------------
(***************************************************************************)
(* Constants of Output for TLC: levels in quarters of full, a frame of one *)
(* packet and one of two.                                                  *)
(***************************************************************************)
EXTENDS Output

Gamma == <<10, 60, 140, 255>>
Table == [v \in 0..4 |-> IF v = 0 THEN 0 ELSE Gamma[v]]

Halves == [h \in 0..4 |-> [t \in 0..2 |-> h \div 2^t]]

Chosen == {{2}}
=============================================================================
