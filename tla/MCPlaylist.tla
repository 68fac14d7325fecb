----------------------------- MODULE MCPlaylist -----------------------------
(***************************************************************************)
(* Constants of Playlist for TLC: the empty list, one entry, and pairs in  *)
(* which the broken effect comes first, last and not at all.               *)
(***************************************************************************)
EXTENDS Playlist

CONSTANTS a, b, c  \* effects; c is broken

Long(name) == [name |-> name, slices |-> 2]
Short(name) == [name |-> name, slices |-> 1]

Chosen ==
  {<< >>, <<Short(b)>>, <<Long(c)>>,
   <<Long(a), Long(b)>>, <<Long(b), Long(c)>>, <<Long(c), Short(a)>>}
=============================================================================
