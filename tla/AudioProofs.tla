---------------------------- MODULE AudioProofs ----------------------------
(***************************************************************************)
(* Proofs about AudioBridge for any threshold, any watchdog period and any *)
(* number of onsets.                                                       *)
(***************************************************************************)
EXTENDS AudioBridge, TLAPS

(***************************************************************************)
(* What a connected feed owes to the watchdog, at each of its steps: the   *)
(* last packet is at most as old as the threshold and the time since the   *)
(* last test; while the watchdog acts on a test, no time passes.           *)
(***************************************************************************)
Heard == connected /\ listener = "serving"

Watched ==
  /\ watchdog = "waiting" /\ Heard => age <= Stale + timer
  /\ watchdog = "overdue" /\ Heard => age <= Stale + Poll
  /\ watchdog = "complaining" /\ Heard => age = 0
  /\ watchdog # "waiting" => timer = 0

(***************************************************************************)
(* The latch never passes the counter, every flash moved it, and an onset  *)
(* that no frame has counted is still ahead of it.                         *)
(***************************************************************************)
Latched ==
  /\ flashes <= lastBeats
  /\ lastBeats <= beatCount
  /\ owed => lastBeats < beatCount

IInv == TypeOK /\ Watched /\ Latched

LEMMA InitEstablishes == Init => IInv
<1> SUFFICES ASSUME Init PROVE IInv
  OBVIOUS
<1>1. TypeOK
  <2>1. view \in [level : Level, beat : BOOLEAN, connected : BOOLEAN]
    BY DEF Init, Level
  <2>2. age \in 0..Forever
    BY BridgeAssumption DEF Init, Forever
  <2>3. timer \in 0..Poll /\ beatCount \in 0..MaxBeats
        /\ lastBeats \in 0..MaxBeats /\ flashes \in 0..MaxBeats
    BY BridgeAssumption DEF Init
  <2> QED BY <2>1, <2>2, <2>3 DEF Init, TypeOK, Level
<1>2. Watched
  BY DEF Init, Watched, Heard
<1>3. Latched
  BY DEF Init, Latched
<1> QED BY <1>1, <1>2, <1>3 DEF IInv

(***************************************************************************)
(* The listener.                                                           *)
(***************************************************************************)
LEMMA ListenerKeeps ==
  ASSUME IInv, Listener PROVE IInv'
<1> USE DEF IInv, threads, engine
<1>1. ASSUME NEW l \in Level, OnLmh(l) PROVE IInv'
  <2>1. TypeOK'
    BY <1>1 DEF OnLmh, Connect, TypeOK
  <2>2. Watched'
    BY <1>1 DEF OnLmh, Watched, Heard
  <2>3. Latched'
    BY <1>1 DEF OnLmh, Latched
  <2> QED BY <2>1, <2>2, <2>3
<1>2. CASE OnMeta
  <2>1. TypeOK'
    BY <1>2 DEF OnMeta, Connect, TypeOK
  <2>2. Watched'
    BY <1>2 DEF OnMeta, Watched, Heard
  <2>3. Latched'
    BY <1>2 DEF OnMeta, Latched
  <2> QED BY <2>1, <2>2, <2>3
<1>3. CASE MarkPacket
  <2>1. TypeOK'
    <3>1. age' \in 0..Forever
      BY <1>3, BridgeAssumption DEF MarkPacket, Forever
    <3> QED BY <1>3, <3>1 DEF MarkPacket, TypeOK
  <2>2. Watched'
    BY <1>3, BridgeAssumption DEF MarkPacket, Watched, Heard, TypeOK
  <2>3. Latched'
    BY <1>3 DEF MarkPacket, Latched
  <2> QED BY <2>1, <2>2, <2>3
<1>4. CASE OnBeat
  <2>1. TypeOK'
    BY <1>4, BridgeAssumption DEF OnBeat, TypeOK
  <2>2. Watched'
    BY <1>4 DEF OnBeat, Watched, Heard
  <2>3. Latched'
    BY <1>4, BridgeAssumption DEF OnBeat, Latched, TypeOK
  <2> QED BY <2>1, <2>2, <2>3
<1> QED BY <1>1, <1>2, <1>3, <1>4 DEF Listener

(***************************************************************************)
(* The watchdog: what it finds not overdue is within the threshold again.  *)
(***************************************************************************)
LEMMA WatchdogKeeps ==
  ASSUME IInv, Watchdog PROVE IInv'
<1> USE DEF IInv, bridgeState, engine
<1>1. CASE WatchdogTests
  <2>1. TypeOK'
    BY <1>1, BridgeAssumption DEF WatchdogTests, TypeOK
  <2>2. Watched'
    BY <1>1, BridgeAssumption
    DEF WatchdogTests, Overdue, Watched, Heard, TypeOK, Forever
  <2>3. Latched'
    BY <1>1 DEF WatchdogTests, Latched
  <2> QED BY <2>1, <2>2, <2>3
<1>2. CASE WatchdogDisconnects
  <2>1. TypeOK'
    BY <1>2 DEF WatchdogDisconnects, TypeOK
  <2>2. Watched'
    BY <1>2 DEF WatchdogDisconnects, Watched, Heard
  <2>3. Latched'
    BY <1>2 DEF WatchdogDisconnects, Latched
  <2> QED BY <2>1, <2>2, <2>3
<1>3. CASE WatchdogComplains
  <2>1. TypeOK'
    BY <1>3 DEF WatchdogComplains, TypeOK
  <2>2. Watched'
    BY <1>3, BridgeAssumption DEF WatchdogComplains, Watched, Heard
  <2>3. Latched'
    BY <1>3 DEF WatchdogComplains, Latched
  <2> QED BY <2>1, <2>2, <2>3
<1> QED BY <1>1, <1>2, <1>3 DEF Watchdog

(***************************************************************************)
(* A frame moves the latch to the counter.                                 *)
(***************************************************************************)
LEMMA FrameKeeps ==
  ASSUME IInv, Frame PROVE IInv'
<1> USE DEF IInv, bridgeState, threads
<1>1. CASE LatchBeat
  <2>1. Latched'
    <3>1. /\ flashes \in Nat /\ lastBeats \in Nat /\ beatCount \in Nat
          /\ flashes <= lastBeats /\ lastBeats <= beatCount
      BY BridgeAssumption DEF Latched, TypeOK
    <3>2. /\ lastBeats' = beatCount /\ beatCount' = beatCount
          /\ flashes' = flashes + (IF beatCount > lastBeats THEN 1 ELSE 0)
      BY <1>1 DEF LatchBeat
    <3>3. flashes' <= lastBeats' /\ lastBeats' <= beatCount'
      <4>1. CASE beatCount > lastBeats
        BY <3>1, <3>2, <4>1
      <4>2. CASE ~(beatCount > lastBeats)
        BY <3>1, <3>2, <4>2
      <4> QED BY <4>1, <4>2
    <3>4. ~owed'
      <4>1. owed => ~(beatCount <= lastBeats)
        BY <3>1 DEF Latched
      <4>2. owed' = (owed /\ beatCount <= lastBeats)
        BY <1>1 DEF LatchBeat
      <4> QED BY <4>1, <4>2, Zenon
    <3> QED BY <3>3, <3>4 DEF Latched
  <2>2. flashes' \in 0..MaxBeats
    BY <1>1, <2>1, BridgeAssumption DEF LatchBeat, Latched, TypeOK
  <2>3. view' \in [level : Level, beat : BOOLEAN, connected : BOOLEAN]
    <3> DEFINE fresh == beatCount > lastBeats
    <3>1. fresh \in BOOLEAN
      OBVIOUS
    <3>2. view' = [view EXCEPT !.beat = fresh]
      BY <1>1 DEF LatchBeat
    <3> HIDE DEF fresh
    <3> QED BY <3>1, <3>2 DEF TypeOK
  <2>4. owed' \in BOOLEAN
    BY <1>1 DEF LatchBeat, TypeOK
  <2>5. TypeOK'
    BY <1>1, <2>2, <2>3, <2>4 DEF LatchBeat, TypeOK
  <2>6. Watched'
    BY <1>1 DEF LatchBeat, Watched, Heard
  <2> QED BY <2>1, <2>5, <2>6
<1>2. CASE ReadBands
  <2>1. view' \in [level : Level, beat : BOOLEAN, connected : BOOLEAN]
    BY <1>2 DEF ReadBands, TypeOK
  <2>2. TypeOK'
    BY <1>2, <2>1 DEF ReadBands, TypeOK
  <2>3. Watched'
    BY <1>2 DEF ReadBands, Watched, Heard
  <2>4. Latched'
    BY <1>2 DEF ReadBands, Latched
  <2> QED BY <2>2, <2>3, <2>4
<1> QED BY <1>1, <1>2 DEF Frame

(***************************************************************************)
(* Time ages the last packet and the watchdog's wait alike.                *)
(***************************************************************************)
LEMMA TickKeeps ==
  ASSUME IInv, Tick PROVE IInv'
<1> USE DEF IInv, engine
<1>1. TypeOK'
  BY BridgeAssumption DEF Tick, Older, Forever, TypeOK
<1>2. Watched'
  BY BridgeAssumption DEF Tick, Older, Forever, Watched, Heard, TypeOK
<1>3. Latched'
  BY DEF Tick, Latched
<1> QED BY <1>1, <1>2, <1>3

LEMMA StepKeeps == IInv /\ [Next]_vars => IInv'
<1> SUFFICES ASSUME IInv, [Next]_vars PROVE IInv'
  OBVIOUS
<1>1. CASE Next
  BY <1>1, ListenerKeeps, WatchdogKeeps, FrameKeeps, TickKeeps DEF Next
<1>2. CASE UNCHANGED vars
  <2>1. TypeOK'
    BY <1>2 DEF vars, bridgeState, threads, engine, IInv, TypeOK
  <2>2. Watched'
    BY <1>2 DEF vars, bridgeState, threads, engine, IInv, Watched, Heard
  <2>3. Latched'
    BY <1>2 DEF vars, bridgeState, threads, engine, IInv, Latched
  <2> QED BY <2>1, <2>2, <2>3 DEF IInv
<1> QED BY <1>1, <1>2

LEMMA InvariantHolds == Spec => []IInv
BY InitEstablishes, StepKeeps, PTL DEF Spec

(* Every variable of the feed keeps its type; in particular no more frames
   flash than there were onsets. *)
THEOREM TypeCorrect == Spec => []TypeOK
<1>1. IInv => TypeOK
  BY DEF IInv
<1> QED BY <1>1, InvariantHolds, PTL

(* A feed shown as connected was heard at most one threshold and one watchdog
   period ago, in every interleaving of the listener and the watchdog. *)
THEOREM OutagesNoticed == Spec => []OutageIsNoticed
<1>1. IInv => OutageIsNoticed
  <2> SUFFICES ASSUME IInv, Heard PROVE age <= Stale + Poll
    BY DEF OutageIsNoticed, Heard
  <2> QED BY BridgeAssumption DEF IInv, Watched, TypeOK
<1> QED BY <1>1, InvariantHolds, PTL

(* No frame flashes without an onset that no earlier frame has counted. *)
THEOREM FlashesHaveOnsets == Spec => []NoPhantomFlash
<1>1. IInv => NoPhantomFlash
  BY BridgeAssumption DEF IInv, Latched, TypeOK, NoPhantomFlash
<1> QED BY <1>1, InvariantHolds, PTL
=============================================================================
