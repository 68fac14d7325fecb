------------------------------- MODULE Output -------------------------------
(***************************************************************************)
(* From the rendered frame to the LEDs: the master output stage, blackout  *)
(* and calibration at the end of Runtime.render, the bytes of PixelBuffer, *)
(* the two legs of SplitTransport, the packets of DDPTransport, and the    *)
(* controller that shows them.                                             *)
(*                                                                         *)
(* A pixel is one level in 0..Full, as grey is, which the saturation stage *)
(* leaves alone; the peak envelope only asks for the greatest level.  Real *)
(* numbers are kept as integers, and a gain is a fraction.                 *)
(*                                                                         *)
(* A frame is sent by one handler without an await, packet by packet, so   *)
(* that only the network can come between its packets, by failing.  The    *)
(* loss of a packet that was sent goes unnoticed on both sides and is not  *)
(* covered.                                                                *)
(***************************************************************************)
EXTENDS Integers, Sequences, FiniteSetsExt

CONSTANTS
  Full,           \* the level 1.0
  Released,       \* what is left of a peak after a time (_PEAK_RELEASE_HALFLIFE)
  PeakFloor,      \* _PEAK_FLOOR
  MaxGain,        \* _MAX_ADAPTIVE_GAIN
  Encoded,        \* the byte of each level, after gamma
  Sizes,          \* pixel counts of the topologies
  PacketPixels,   \* MAX_PIXELS_PER_PACKET
  Brightness,     \* settings of the master knob
  Solos, Steps,   \* the calibration requests
  Levels,         \* the levels effects draw with
  MaxTime         \* bound: the engine's clock

ASSUME OutputAssumption ==
  /\ Full \in Nat /\ PeakFloor \in 1..Full /\ MaxGain \in Nat \ {0}
  /\ Released \in [0..Full -> [0..MaxTime -> 0..Full]]
  /\ Encoded \in [0..Full -> 0..255] /\ Encoded[0] = 0
  /\ Sizes \subseteq Nat \ {0} /\ Sizes # {}
  /\ PacketPixels \in Nat \ {0}
  /\ Brightness \subseteq 0..(2 * Full)
  /\ Solos \subseteq SUBSET Nat /\ Steps \subseteq Nat \ {0}
  /\ Levels \subseteq 0..Full
  /\ MaxTime \in Nat

VARIABLES
  n,            \* pixel count of the topology
  brightness,   \* masters.brightness
  blackout,     \* Runtime.blackout
  calibration,  \* Runtime.calibration
  peak,         \* _recent_peak
  lastPeak,     \* _last_peak_wall_t
  elapsed,      \* Engine.elapsed: the time of the last frame
  leg,          \* the LED leg: idle, about to send, or between two packets
  paused,       \* DDPTransport.paused
  buffer,       \* the bytes the controller has received
  shown,        \* the bytes the controller shows
  whole         \* history: the last frame that was sent to its end

operator == <<n, brightness, blackout, calibration, paused>>
envelope == <<peak, lastPeak>>
controller == <<buffer, shown, whole>>
vars == <<operator, envelope, elapsed, leg, controller>>

Pixels(k) == 0..(k - 1)
Positions == UNION {Pixels(k) : k \in Sizes}
Dark == [p \in Positions |-> 0]
Brightest(levels) == Max({levels[p] : p \in DOMAIN levels})

-----------------------------------------------------------------------------
(***************************************************************************)
(* _update_peak_envelope: up at once, down slowly.                         *)
(***************************************************************************)
NextPeak(current, now) ==
  IF lastPeak = -1 \/ now < lastPeak THEN current
  ELSE LET decayed == Released[peak][now - lastPeak]
       IN  IF current >= decayed THEN current ELSE decayed

(***************************************************************************)
(* The gain of _apply_master_output, a fraction: plain brightness below    *)
(* 1.0, above it enough to lift the recent peak part of the way to full.   *)
(***************************************************************************)
Gain(recent) ==
  IF brightness <= Full THEN <<brightness, Full>>
  ELSE LET p == IF recent > PeakFloor THEN recent ELSE PeakFloor
           target == p * Full + (brightness - Full) * (Full - p)
       IN  IF target > MaxGain * p * Full THEN <<MaxGain, 1>> ELSE <<target, p * Full>>

Lifted(v, gain) ==
  LET lifted == (v * gain[1]) \div gain[2]
  IN  IF lifted > Full THEN Full ELSE lifted

(***************************************************************************)
(* _apply_calibration: the chosen pixels alone, those that still exist; or *)
(* one pixel that moves along.                                             *)
(***************************************************************************)
NoCalibration == [mode |-> "none"]
Solo(indices) == [mode |-> "solo", indices |-> indices]
Walk(step, start) == [mode |-> "walk", step |-> step, start |-> start]

Lit(now) ==
  IF calibration.mode = "solo" THEN calibration.indices \cap Pixels(n)
  ELSE LET since == IF now > calibration.start THEN now - calibration.start ELSE 0
       IN  {(since * calibration.step) % n}

Calibrated(levels, now) ==
  IF calibration.mode = "none" THEN levels
  ELSE [p \in Pixels(n) |-> IF p \in Lit(now) THEN Full ELSE 0]

(***************************************************************************)
(* The end of Runtime.render on either leg, and the engine's encoding.     *)
(* Mutant: blackout holds for the preview only.                            *)
(***************************************************************************)
BlackedPreviewOnly(levels) == levels
Blacked(levels) == IF blackout THEN [p \in DOMAIN levels |-> 0] ELSE levels

Bytes(levels) == [p \in DOMAIN levels |-> Encoded[levels[p]]]

Drawn(levels, gain, now) ==
  Bytes(Calibrated([p \in DOMAIN levels |-> Lifted(Blacked(levels)[p], gain)], now))

Idle == [at |-> "idle"]
Ready(frame) == [at |-> "ready", frame |-> frame]
Sending(frame, next) == [at |-> "sending", frame |-> frame, next |-> next]
Dead == [at |-> "dead"]    \* the engine's loop has ended

(***************************************************************************)
(* A frame on the live leg, which moves the envelope unless blacked out.   *)
(* The preview is given the same gain and leaves the envelope alone.       *)
(* Mutant: the gain is taken from the envelope before it moves.            *)
(***************************************************************************)
Envelope(live, now) == IF blackout THEN peak ELSE NextPeak(Brightest(live), now)

UsedPeakBefore(live, now) == peak
UsedPeak(live, now) == Envelope(live, now)

Render(live, now) ==
  /\ leg = Idle
  /\ elapsed' = now
  /\ peak' = Envelope(live, now)
  /\ lastPeak' = IF blackout THEN lastPeak ELSE now
  /\ leg' = Ready(Drawn(live, Gain(UsedPeak(live, now)), now))
  /\ UNCHANGED <<operator, controller>>

-----------------------------------------------------------------------------
(***************************************************************************)
(* DDPTransport.send_frame.  The packets of a frame of k pixels begin at   *)
(* multiples of PacketPixels; the one that reaches the end says PUSH.      *)
(* Mutants: every packet is full; every full packet says PUSH.             *)
(***************************************************************************)
Length(frame) == Cardinality(DOMAIN frame)

PacketFull(k, next) == next + PacketPixels
PacketEnd(k, next) == IF next + PacketPixels < k THEN next + PacketPixels ELSE k

PushFull(k, next) == PacketEnd(k, next) = k \/ PacketEnd(k, next) = next + PacketPixels
Push(k, next) == PacketEnd(k, next) = k

(* The browsers have been sent to; the LED leg sends, unless it is paused. *)
BeginSend ==
  /\ leg.at = "ready"
  /\ leg' = IF paused THEN Idle ELSE Sending(leg.frame, 0)
  /\ UNCHANGED <<operator, envelope, elapsed, controller>>

(* sendto, and the controller: it keeps the bytes, and shows all it has when
   told to. *)
SendPacket ==
  /\ leg.at = "sending"
  /\ LET frame == leg.frame
         k     == Length(frame)
         end   == PacketEnd(k, leg.next)
         received == [p \in Positions |->
                        IF p \in leg.next..(end - 1) THEN frame[p] ELSE buffer[p]]
     IN  /\ buffer' = received
         /\ shown' = IF Push(k, leg.next) THEN received ELSE shown
         /\ leg' = IF end = k THEN Idle ELSE Sending(frame, end)
         /\ whole' = IF end = k THEN frame ELSE whole
  /\ UNCHANGED <<operator, envelope, elapsed>>

(* sendto raises; nothing catches it, and the render loop ends. *)
NetworkFails ==
  /\ leg.at = "sending"
  /\ leg' = Dead
  /\ UNCHANGED <<operator, envelope, elapsed, controller>>

-----------------------------------------------------------------------------
(***************************************************************************)
(* The operator's requests, served while the loop waits or sends to the    *)
(* browsers.                                                               *)
(***************************************************************************)
Served == leg.at \in {"idle", "ready", "dead"}

PostBlackout(on) ==
  /\ Served /\ blackout # on
  /\ blackout' = on
  /\ UNCHANGED <<n, brightness, calibration, paused, envelope, elapsed, leg, controller>>

SetBrightness(b) ==
  /\ Served /\ brightness # b
  /\ brightness' = b
  /\ UNCHANGED <<n, blackout, calibration, paused, envelope, elapsed, leg, controller>>

PauseTransport(on) ==
  /\ Served /\ paused # on
  /\ paused' = on
  /\ UNCHANGED <<n, brightness, blackout, calibration, envelope, elapsed, leg, controller>>

SwapTopology(k) ==
  /\ Served /\ n # k
  /\ n' = k
  /\ UNCHANGED <<brightness, blackout, calibration, paused, envelope, elapsed, leg,
                 controller>>

(* Indices out of range are dropped; none left is refused. *)
CalibrationSolo(indices) ==
  /\ Served /\ indices \cap Pixels(n) # {}
  /\ calibration' = Solo(indices \cap Pixels(n))
  /\ UNCHANGED <<n, brightness, blackout, paused, envelope, elapsed, leg, controller>>

CalibrationWalk(step) ==
  /\ Served
  /\ calibration' = Walk(step, elapsed)
  /\ UNCHANGED <<n, brightness, blackout, paused, envelope, elapsed, leg, controller>>

CalibrationStop ==
  /\ Served /\ calibration # NoCalibration
  /\ calibration' = NoCalibration
  /\ UNCHANGED <<n, brightness, blackout, paused, envelope, elapsed, leg, controller>>

-----------------------------------------------------------------------------
NoFrame == [p \in {} |-> 0]

Init ==
  /\ n \in Sizes
  /\ brightness \in Brightness
  /\ blackout = FALSE
  /\ calibration = NoCalibration
  /\ peak = 0 /\ lastPeak = -1
  /\ elapsed = 0
  /\ leg = Idle
  /\ paused = FALSE
  /\ buffer = Dark /\ shown = Dark
  /\ whole = NoFrame

(* What effects draw: a ground with one pixel of another level. *)
Drawing == {[p \in Pixels(n) |-> IF p = 0 THEN a ELSE b] : a, b \in Levels}

RenderAny == \E live \in Drawing, now \in elapsed..MaxTime : Render(live, now)

Next ==
  \/ RenderAny \/ BeginSend \/ SendPacket \/ NetworkFails
  \/ \E on \in BOOLEAN : PostBlackout(on) \/ PauseTransport(on)
  \/ \E b \in Brightness : SetBrightness(b)
  \/ \E k \in Sizes : SwapTopology(k)
  \/ \E indices \in Solos : CalibrationSolo(indices)
  \/ \E step \in Steps : CalibrationWalk(step)
  \/ CalibrationStop

Spec == Init /\ [][Next]_vars

(* The render loop goes on; nothing is assumed of the operator, and the
   network may fail. *)
FairSpec == Spec /\ WF_vars(RenderAny) /\ WF_vars(BeginSend) /\ WF_vars(SendPacket)

-----------------------------------------------------------------------------
Calibrations ==
  {NoCalibration} \cup {Solo(indices) : indices \in SUBSET Positions}
    \cup {Walk(step, start) : step \in Steps, start \in 0..MaxTime}

IsFrame(frame) == \E k \in Sizes : frame \in [Pixels(k) -> 0..255]

TypeOK ==
  /\ n \in Sizes
  /\ brightness \in Brightness
  /\ blackout \in BOOLEAN /\ paused \in BOOLEAN
  /\ calibration \in Calibrations
  /\ peak \in 0..Full /\ lastPeak \in -1..MaxTime
  /\ elapsed \in 0..MaxTime
  /\ \/ leg \in {Idle, Dead}
     \/ leg = Ready(leg.frame) /\ IsFrame(leg.frame)
     \/ leg = Sending(leg.frame, leg.next) /\ IsFrame(leg.frame)
        /\ leg.next \in DOMAIN leg.frame
  /\ buffer \in [Positions -> 0..255] /\ shown \in [Positions -> 0..255]
  /\ (IsFrame(whole) \/ whole = NoFrame)

(* "Adaptive brightness": above 1.0 the gain is chosen by the envelope of the
   recent past, yet however the scene, the knob and blackout change from one
   frame to the next, no pixel of the live leg is pushed beyond full and
   flattened by the final clip. *)
HighlightsSurvive ==
  [][\A live \in Drawing, now \in elapsed..MaxTime : Render(live, now) =>
       LET gain == Gain(UsedPeak(live, now))
       IN  \A p \in DOMAIN live : Blacked(live)[p] * gain[1] <= Full * gain[2]]_vars

(* "PUSH flag only on the final packet of each frame": what the controller
   shows of the rig is the last frame that was sent to its end, never parts
   of two, whatever the network does between packets and however the number
   of pixels changes between frames. *)
ControllerShowsWholeFrames ==
  \A p \in DOMAIN whole : shown[p] = whole[p]

(* "/blackout: instant black": when the operator has pressed blackout and
   leaves the rig alone, uncalibrated and unpaused, every pixel of it goes
   dark, as long as the loop lives. *)
BlackoutReachesTheRig ==
  \A k \in Sizes :
    <>[](blackout /\ calibration = NoCalibration /\ ~paused /\ leg # Dead /\ n = k)
      => <>[](\A p \in Pixels(k) : shown[p] = 0)
=============================================================================
