------------------------------ MODULE Topology ------------------------------
(***************************************************************************)
(* Where the LEDs are (config.py, topology.py, surface/frames.py): which   *)
(* lists of strips a configuration may hold, which LED of which strip each *)
(* pixel of a frame is, and the order in which u_loop walks the rig.       *)
(*                                                                         *)
(* A strip is a stretch of pixels on a controller.  Of its geometry only   *)
(* the bucket that _compute_u_loop puts it in is kept, and the x of its    *)
(* end.  Positions, frames other than u_loop and strip_id, and the         *)
(* normalisation to the bounding box are arithmetic and are left out.      *)
(***************************************************************************)
EXTENDS Integers, Sequences, FiniteSets, FiniteSetsExt

CONSTANT Capacity  \* pixel_count of each controller

ASSUME TopologyAssumption == Capacity \in [DOMAIN Capacity -> Nat \ {0}]

Controller == DOMAIN Capacity

(***************************************************************************)
(* A list of strips as StripConfig types them.  Ids and ends stand for     *)
(* strings and floats, of which only the order is asked.                   *)
(***************************************************************************)
IsList(strips) ==
  /\ strips \in Seq(Range(strips))
  /\ \A j \in DOMAIN strips : /\ strips[j].id \in Int
                              /\ strips[j].offset \in Nat
                              /\ strips[j].count \in Nat \ {0}
                              /\ strips[j].bucket \in 0..4
                              /\ strips[j].endx \in Int

First(s) == s.offset
End(s) == s.offset + s.count
Pixels(s) == First(s)..(End(s) - 1)

(***************************************************************************)
(* AppConfig._check_strip_layout: within a controller the ranges are       *)
(* sorted by start, end and id, and each is compared with the next.        *)
(* Mutant: ends are taken for the last pixels.                             *)
(***************************************************************************)
OnController(strips, c) == {j \in DOMAIN strips : strips[j].controller = c}

Sorted(strips, j, k) ==
  LET s == strips[j]
      t == strips[k]
  IN  \/ First(s) < First(t)
      \/ First(s) = First(t) /\ End(s) < End(t)
      \/ First(s) = First(t) /\ End(s) = End(t) /\ s.id < t.id

Neighbours(strips, c) ==
  {p \in OnController(strips, c) \X OnController(strips, c) :
     /\ Sorted(strips, p[1], p[2])
     /\ ~\E k \in OnController(strips, c) :
          Sorted(strips, p[1], k) /\ Sorted(strips, k, p[2])}

OverlappingInside(strips, c) ==
  \E p \in Neighbours(strips, c) : First(strips[p[2]]) < End(strips[p[1]]) - 1

Overlapping(strips, c) ==
  \E p \in Neighbours(strips, c) : First(strips[p[2]]) < End(strips[p[1]])

Accepted(strips) ==
  /\ strips # <<>>
  /\ \A j, k \in DOMAIN strips : strips[j].id = strips[k].id => j = k
  /\ \A j \in DOMAIN strips :
       /\ strips[j].controller \in Controller
       /\ End(strips[j]) <= Capacity[strips[j].controller]
  /\ \A c \in Controller : ~Overlapping(strips, c)

(***************************************************************************)
(* Topology.from_config: the strips are laid into one list of LEDs by      *)
(* their offsets, whatever their controller, the later over the earlier;   *)
(* what no strip covers is a placeholder.  reversed turns the positions    *)
(* round, never the chain.                                                 *)
(* Mutant: it turns the chain round.                                       *)
(***************************************************************************)
PixelCount(strips) == Max({End(strips[j]) : j \in DOMAIN strips})
Hole == <<0, -1>>

Covering(strips, g) == {j \in DOMAIN strips : g \in Pixels(strips[j])}

ChainTurned(strip, g) ==
  IF strip.reversed THEN End(strip) - 1 - g ELSE g - First(strip)
Chain(strip, g) == g - First(strip)

Led(strips, g) ==
  IF Covering(strips, g) = {} THEN Hole
  ELSE LET j == Max(Covering(strips, g)) IN <<j, Chain(strips[j], g)>>

Leds(strips) == [g \in 0..(PixelCount(strips) - 1) |-> Led(strips, g)]

(***************************************************************************)
(* _compute_u_loop: top right, bottom right backwards, bottom left, top    *)
(* left backwards, then what fits nowhere; within a bucket by the x of the *)
(* end.  u_loop is the rank divided by the pixel count less one.           *)
(* Mutant: the walk counts strips, not their pixels.                       *)
(***************************************************************************)
WalksBack(strip) == strip.bucket \in {1, 3}

WalkedBefore(strips, k, j) ==
  LET s == strips[k]
      t == strips[j]
  IN  \/ s.bucket < t.bucket
      \/ s.bucket = t.bucket /\ s.endx < t.endx
      \/ s.bucket = t.bucket /\ s.endx = t.endx /\ k < j

Earlier(strips, j) == {k \in DOMAIN strips : WalkedBefore(strips, k, j)}
Walked(strips, ks) == UNION {{k} \X Pixels(strips[k]) : k \in ks}

StartCountingStrips(strips, j) == Cardinality(Earlier(strips, j))
StartRank(strips, j) == Cardinality(Walked(strips, Earlier(strips, j)))

Rank(strips, g) ==
  IF Covering(strips, g) = {} THEN 0
  ELSE LET j == CHOOSE j \in Covering(strips, g) :
                  \A k \in Covering(strips, g) \ {j} : WalkedBefore(strips, k, j)
           strip == strips[j]
       IN  StartRank(strips, j)
             + (IF WalksBack(strip) THEN End(strip) - 1 - g ELSE g - First(strip))

Loop(strips) == [g \in 0..(PixelCount(strips) - 1) |-> Rank(strips, g)]

Built(strips) == [strips |-> strips, leds |-> Leds(strips), loop |-> Loop(strips)]

-----------------------------------------------------------------------------
(* One controller drives all strips (server.py drives the first one only). *)
OneController(strips) ==
  \A j, k \in DOMAIN strips : strips[j].controller = strips[k].controller

(* Each LED of each strip is at the pixel the controller will send to it. *)
EveryLedAtItsPixel(strips, leds) ==
  \A j \in DOMAIN strips : \A i \in 0..(strips[j].count - 1) :
    /\ strips[j].offset + i \in DOMAIN leds
    /\ leds[strips[j].offset + i] = <<j, i>>

(* The walk visits every LED once and wastes no rank on the gaps. *)
WalkIsComplete(leds, loop) ==
  LET lit == {g \in DOMAIN leds : leds[g] # Hole}
  IN  {loop[g] : g \in lit} = 0..(Cardinality(lit) - 1)
=============================================================================
