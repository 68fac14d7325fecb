---------------------------- MODULE OutputProofs ----------------------------
(***************************************************************************)
(* Proofs about Output, for every table of encoded levels, every release   *)
(* of the envelope, every packet size and every set of topologies:         *)
(*   - its type invariant;                                                 *)
(*   - the controller shows whole frames: while a frame is on its way, the *)
(*     controller has every byte up to the next packet;                    *)
(*   - no highlight is clipped, from bounds on the gain;                   *)
(*   - what is drawn in a blackout is dark, so that a blackout waits for   *)
(*     one frame to be sent and then holds.                                *)
(***************************************************************************)
EXTENDS Output, FiniteSetTheorems, TLAPS

(* While a frame is on its way, the bytes before the next packet are there. *)
Received ==
  leg.at = "sending" =>
    \A p \in DOMAIN leg.frame : p < leg.next => buffer[p] = leg.frame[p]

IInv == TypeOK /\ Received /\ ControllerShowsWholeFrames

-----------------------------------------------------------------------------
(***************************************************************************)
(* Arithmetic.                                                             *)
(***************************************************************************)
LEMMA TimesMonotone ==
  ASSUME NEW x \in Nat, NEW y \in Nat, NEW z \in Nat, x <= y
  PROVE  x * z <= y * z /\ z * x <= z * y
OBVIOUS

LEMMA TimesNat ==
  ASSUME NEW x \in Nat, NEW y \in Nat
  PROVE  x * y \in Nat
OBVIOUS

LEMMA QuotientNat ==
  ASSUME NEW x \in Nat, NEW y \in Nat \ {0}
  PROVE  x \div y \in Nat
OBVIOUS

(* The lifted peak lies between the peak and full. *)
LEMMA TargetBounded ==
  ASSUME NEW F \in Nat, NEW p \in 0..F, NEW b \in Nat, F <= b, b <= 2 * F
  PROVE  p * F + (b - F) * (F - p) \in 0..(F * F)
<1> DEFINE u == b - F
           v == F - p
<1>1. u \in 0..F /\ v \in 0..F /\ v \in Nat /\ u \in Nat
  OBVIOUS
<1>2. u * v <= F * v /\ u * v \in Nat
  BY <1>1, TimesMonotone, TimesNat
<1>3. p * F + F * v = F * F
  OBVIOUS
<1>4. p * F \in Nat /\ F * F \in Nat /\ F * v \in Nat
  BY <1>1, TimesNat
<1> HIDE DEF u, v
<1>5. p * F + u * v \in 0..(F * F)
  BY <1>2, <1>3, <1>4
<1> QED BY <1>5 DEF u, v

(***************************************************************************)
(* The gain is a fraction.                                                 *)
(***************************************************************************)
LEMMA GainType ==
  ASSUME TypeOK, NEW recent \in 0..Full
  PROVE  Gain(recent)[1] \in Nat /\ Gain(recent)[2] \in Nat \ {0}
<1> DEFINE p == IF recent > PeakFloor THEN recent ELSE PeakFloor
           target == p * Full + (brightness - Full) * (Full - p)
<1>0. Full \in Nat /\ PeakFloor \in 1..Full /\ MaxGain \in Nat
  BY OutputAssumption
<1>1. p \in 1..Full /\ p \in Nat \ {0} /\ Full \in Nat \ {0}
  BY <1>0
<1>2. brightness \in Nat /\ brightness <= 2 * Full
  BY <1>0, OutputAssumption DEF TypeOK
<1>3. CASE brightness <= Full
  BY <1>1, <1>2, <1>3 DEF Gain
<1>4. CASE brightness > Full
  <2>1. target \in Nat
    BY <1>1, <1>2, <1>4, TargetBounded, TimesNat
  <2>2. p * Full \in Nat \ {0}
    BY <1>1
  <2>3. Gain(recent) = IF target > MaxGain * p * Full
                       THEN <<MaxGain, 1>> ELSE <<target, p * Full>>
    <3>1. ~(brightness <= Full)
      BY <1>0, <1>2, <1>4
    <3> QED BY <3>1, Zenon DEF Gain
  <2> HIDE DEF target, p
  <2> QED BY <1>0, <2>1, <2>2, <2>3
<1> QED BY <1>1, <1>2, <1>3, <1>4

(***************************************************************************)
(* A level that the envelope covers is not lifted beyond full.             *)
(***************************************************************************)
LEMMA GainBounded ==
  ASSUME TypeOK, NEW recent \in 0..Full, NEW v \in 0..Full, v <= recent
  PROVE  v * Gain(recent)[1] <= Full * Gain(recent)[2]
<1> DEFINE p == IF recent > PeakFloor THEN recent ELSE PeakFloor
           target == p * Full + (brightness - Full) * (Full - p)
<1>0. Full \in Nat /\ PeakFloor \in 1..Full /\ MaxGain \in Nat
  BY OutputAssumption
<1>1. p \in 1..Full /\ p \in Nat \ {0} /\ Full \in Nat \ {0} /\ v <= p /\ v \in Nat
  BY <1>0
<1>2. brightness \in Nat /\ brightness <= 2 * Full
  BY <1>0, OutputAssumption DEF TypeOK
<1>3. CASE brightness <= Full
  <2>1. Gain(recent) = <<brightness, Full>>
    BY <1>3 DEF Gain
  <2>2. v * brightness <= Full * brightness /\ Full * brightness <= Full * Full
    BY <1>1, <1>2, <1>3, TimesMonotone
  <2>3. v * brightness \in Nat /\ Full * brightness \in Nat /\ Full * Full \in Nat
    BY <1>1, <1>2, TimesNat
  <2> QED BY <2>1, <2>2, <2>3
<1>4. CASE brightness > Full
  <2>1. target \in 0..(Full * Full)
    BY <1>1, <1>2, <1>4, TargetBounded
  <2>2. Gain(recent) = IF target > MaxGain * p * Full
                       THEN <<MaxGain, 1>> ELSE <<target, p * Full>>
    <3>1. ~(brightness <= Full)
      BY <1>0, <1>2, <1>4
    <3> QED BY <3>1, Zenon DEF Gain
  <2> HIDE DEF target, p
  <2>3. CASE target > MaxGain * p * Full
    <3>1. MaxGain * p \in Nat /\ (MaxGain * p) * Full < Full * Full
      BY <1>0, <1>1, <2>1, <2>3, TimesNat
    <3>2. MaxGain * p < Full
      <4>1. SUFFICES ASSUME Full <= MaxGain * p PROVE FALSE
        BY <1>1, <3>1
      <4>2. Full * Full <= (MaxGain * p) * Full
        BY <1>1, <3>1, <4>1, TimesMonotone
      <4> QED BY <1>1, <3>1, <4>2
    <3>3. v * MaxGain <= p * MaxGain /\ v * MaxGain \in Nat /\ p * MaxGain = MaxGain * p
      BY <1>0, <1>1, TimesMonotone, TimesNat
    <3> QED BY <1>0, <1>1, <2>2, <2>3, <3>1, <3>2, <3>3
  <2>4. CASE ~(target > MaxGain * p * Full)
    <3>1. target \in Nat /\ v * target <= p * target /\ p * target <= p * (Full * Full)
      BY <1>1, <2>1, TimesMonotone, TimesNat
    <3>2. p * (Full * Full) = Full * (p * Full)
      BY <1>1
    <3>3. /\ v * target \in Nat /\ p * target \in Nat
          /\ p * (Full * Full) \in Nat /\ Full * (p * Full) \in Nat
      BY <1>1, <3>1, TimesNat
    <3>4. v * target <= Full * (p * Full)
      BY <3>1, <3>2, <3>3
    <3> QED BY <2>2, <2>4, <3>4
  <2> QED BY <2>3, <2>4
<1> QED BY <1>1, <1>2, <1>3, <1>4

-----------------------------------------------------------------------------
(***************************************************************************)
(* What is drawn is a frame of bytes.                                      *)
(***************************************************************************)
LEMMA PositionsCover ==
  ASSUME NEW k \in Sizes
  PROVE  Pixels(k) \subseteq Positions
BY DEF Positions

LEMMA LiftedType ==
  ASSUME TypeOK, NEW recent \in 0..Full, NEW v \in 0..Full
  PROVE  Lifted(v, Gain(recent)) \in 0..Full
<1>0. Full \in Nat
  BY OutputAssumption
<1> DEFINE gain == Gain(recent)
<1>1. gain[1] \in Nat /\ gain[2] \in Nat \ {0}
  BY GainType
<1> HIDE DEF gain
<1>2. v * gain[1] \in Nat
  BY <1>0, <1>1, TimesNat
<1>3. (v * gain[1]) \div gain[2] \in Nat
  BY <1>1, <1>2, QuotientNat
<1>4. Lifted(v, gain) \in 0..Full
  <2> DEFINE lifted == (v * gain[1]) \div gain[2]
  <2>1. Lifted(v, gain) = IF lifted > Full THEN Full ELSE lifted
    BY DEF Lifted
  <2> HIDE DEF lifted
  <2>2. lifted \in Nat
    BY <1>3 DEF lifted
  <2> QED BY <1>0, <2>1, <2>2
<1> QED BY <1>4 DEF gain

LEMMA DrawnType ==
  ASSUME TypeOK, NEW recent \in 0..Full, NEW now,
         NEW levels \in [Pixels(n) -> 0..Full]
  PROVE  Drawn(levels, Gain(recent), now) \in [Pixels(n) -> 0..255]
<1>0. Full \in Nat /\ Encoded \in [0..Full -> 0..255]
  BY OutputAssumption
<1> DEFINE black == Blacked(levels)
           lifted == [p \in DOMAIN levels |-> Lifted(black[p], Gain(recent))]
           drawn == Calibrated(lifted, now)
<1>1. black \in [Pixels(n) -> 0..Full]
  BY <1>0 DEF Blacked
<1> HIDE DEF black
<1>2. lifted \in [Pixels(n) -> 0..Full]
  BY <1>1, LiftedType
<1> HIDE DEF lifted
<1>3. drawn \in [Pixels(n) -> 0..Full]
  BY <1>0, <1>2 DEF Calibrated
<1> HIDE DEF drawn
<1>4. Bytes(drawn) \in [Pixels(n) -> 0..255]
  BY <1>0, <1>3 DEF Bytes
<1> QED BY <1>4 DEF Drawn, drawn, lifted, black

(***************************************************************************)
(* The envelope covers the frame it has seen.                              *)
(***************************************************************************)
LEMMA BrightestCovers ==
  ASSUME NEW live \in Drawing, n \in Sizes
  PROVE  /\ Brightest(live) \in 0..Full
         /\ \A p \in DOMAIN live : live[p] \in 0..Full /\ live[p] <= Brightest(live)
<1>0. Full \in Nat /\ Levels \subseteq 0..Full /\ n \in Nat \ {0}
  BY OutputAssumption
<1>1. PICK a \in Levels, b \in Levels : live = [p \in Pixels(n) |-> IF p = 0 THEN a ELSE b]
  BY DEF Drawing
<1> DEFINE S == {live[p] : p \in DOMAIN live}
<1>2. S \subseteq {a, b} /\ a \in S
  <2>1. 0 \in Pixels(n) /\ live[0] = a
    BY <1>0, <1>1 DEF Pixels
  <2> QED BY <1>1, <2>1
<1>3. \E m \in S : \A x \in S : m >= x
  BY <1>0, <1>2
<1>4. Brightest(live) \in S /\ \A x \in S : Brightest(live) >= x
  <2>1. Brightest(live) = CHOOSE m \in S : \A x \in S : m >= x
    BY DEF Brightest, Max
  <2> HIDE DEF S
  <2> QED BY <1>3, <2>1
<1>5. \A p \in DOMAIN live : live[p] \in S
  OBVIOUS
<1>6. S \subseteq 0..Full
  BY <1>0, <1>2
<1> HIDE DEF S
<1>7. \A p \in DOMAIN live : Brightest(live) >= live[p]
  BY <1>4, <1>5
<1>8. Brightest(live) \in 0..Full /\ \A p \in DOMAIN live : live[p] \in 0..Full
  BY <1>4, <1>5, <1>6
<1> QED BY <1>0, <1>7, <1>8

LEMMA EnvelopeCovers ==
  ASSUME TypeOK, NEW live \in Drawing, NEW now \in elapsed..MaxTime
  PROVE  /\ Envelope(live, now) \in 0..Full
         /\ ~blackout => Brightest(live) <= Envelope(live, now)
<1>0. /\ Full \in Nat /\ MaxTime \in Nat /\ peak \in 0..Full
      /\ Released \in [0..Full -> [0..MaxTime -> 0..Full]]
      /\ lastPeak \in -1..MaxTime /\ now \in 0..MaxTime
  <2>1. peak \in 0..Full /\ lastPeak \in -1..MaxTime /\ elapsed \in 0..MaxTime
    BY DEF TypeOK
  <2>2. Full \in Nat /\ MaxTime \in Nat
    BY OutputAssumption
  <2>3. Released \in [0..Full -> [0..MaxTime -> 0..Full]]
    BY OutputAssumption
  <2>4. now \in 0..MaxTime
    BY <2>1, <2>2
  <2> QED BY <2>1, <2>2, <2>3, <2>4
<1>1. Brightest(live) \in 0..Full
  BY BrightestCovers DEF TypeOK
<1>2. CASE blackout
  BY <1>0, <1>2 DEF Envelope
<1>3. CASE ~blackout
  <2>1. Envelope(live, now) = NextPeak(Brightest(live), now)
    BY <1>3 DEF Envelope
  <2>2. CASE lastPeak = -1 \/ now < lastPeak
    <3>1. NextPeak(Brightest(live), now) = Brightest(live)
      BY <2>2, Zenon DEF NextPeak
    <3> QED BY <1>0, <1>1, <1>3, <2>1, <3>1
  <2>3. CASE ~(lastPeak = -1 \/ now < lastPeak)
    <3> DEFINE gap == now - lastPeak
               decayed == Released[peak][gap]
    <3>1. gap \in 0..MaxTime
      BY <1>0, <2>3
    <3>2. Envelope(live, now)
            = IF Brightest(live) >= decayed THEN Brightest(live) ELSE decayed
      BY <2>1, <2>3, Zenon DEF NextPeak
    <3> HIDE DEF gap
    <3>3. decayed \in 0..Full
      BY <1>0, <3>1
    <3> HIDE DEF decayed
    <3>4. Full \in Nat
      BY <1>0
    <3> DEFINE e == Envelope(live, now)
    <3>5. e = IF Brightest(live) >= decayed THEN Brightest(live) ELSE decayed
      BY <3>2
    <3> HIDE DEF e
    <3>6. e \in 0..Full /\ Brightest(live) <= e
      BY <1>1, <3>3, <3>4, <3>5
    <3> QED BY <3>6 DEF e
  <2> QED BY <2>2, <2>3
<1> QED BY <1>2, <1>3

-----------------------------------------------------------------------------
(***************************************************************************)
(* One lemma per action: it preserves the invariant.                       *)
(***************************************************************************)
Controls ==
  /\ n \in Sizes
  /\ brightness \in Brightness
  /\ blackout \in BOOLEAN /\ paused \in BOOLEAN
  /\ calibration \in Calibrations

Leg ==
  \/ leg \in {Idle, Dead}
  \/ leg = Ready(leg.frame) /\ IsFrame(leg.frame)
  \/ leg = Sending(leg.frame, leg.next) /\ IsFrame(leg.frame)
     /\ leg.next \in DOMAIN leg.frame

LEMMA ControlsKeep ==
  ASSUME IInv, UNCHANGED <<envelope, elapsed, leg, controller>>, Controls'
  PROVE  IInv'
BY DEF IInv, TypeOK, Received, ControllerShowsWholeFrames, Controls, envelope,
       controller

LEMMA OperatorKeeps ==
  ASSUME IInv,
         \/ \E on \in BOOLEAN : PostBlackout(on) \/ PauseTransport(on)
         \/ \E b \in Brightness : SetBrightness(b)
         \/ \E k \in Sizes : SwapTopology(k)
         \/ \E indices \in Solos : CalibrationSolo(indices)
         \/ \E step \in Steps : CalibrationWalk(step)
         \/ CalibrationStop
  PROVE  IInv'
<1>1. Controls
  BY DEF IInv, TypeOK, Controls
<1>2. ASSUME NEW on \in BOOLEAN, PostBlackout(on) \/ PauseTransport(on)
      PROVE  IInv'
  BY <1>1, <1>2, ControlsKeep DEF PostBlackout, PauseTransport, Controls
<1>3. ASSUME NEW b \in Brightness, SetBrightness(b) PROVE IInv'
  BY <1>1, <1>3, ControlsKeep DEF SetBrightness, Controls
<1>4. ASSUME NEW k \in Sizes, SwapTopology(k) PROVE IInv'
  BY <1>1, <1>4, ControlsKeep DEF SwapTopology, Controls
<1>5. ASSUME NEW indices \in Solos, CalibrationSolo(indices) PROVE IInv'
  <2>1. indices \cap Pixels(n) \in SUBSET Positions
    BY <1>1, PositionsCover DEF Controls
  <2>2. calibration' \in Calibrations
    BY <1>5, <2>1 DEF CalibrationSolo, Calibrations
  <2> QED BY <1>1, <1>5, <2>2, ControlsKeep DEF CalibrationSolo, Controls
<1>6. ASSUME NEW step \in Steps, CalibrationWalk(step) PROVE IInv'
  <2>1. calibration' \in Calibrations
    BY <1>6 DEF CalibrationWalk, Calibrations, IInv, TypeOK
  <2> QED BY <1>1, <1>6, <2>1, ControlsKeep DEF CalibrationWalk, Controls
<1>7. CASE CalibrationStop
  <2>1. calibration' \in Calibrations
    BY <1>7 DEF CalibrationStop, Calibrations
  <2> QED BY <1>1, <1>7, <2>1, ControlsKeep DEF CalibrationStop, Controls
<1> QED BY <1>2, <1>3, <1>4, <1>5, <1>6, <1>7

(* Steps that only move the leg on. *)
LEMMA LegKeeps ==
  ASSUME IInv, UNCHANGED <<operator, envelope, elapsed, controller>>, Leg', Received'
  PROVE  IInv'
BY DEF IInv, TypeOK, ControllerShowsWholeFrames, operator, envelope, controller, Leg

LEMMA RenderKeeps ==
  ASSUME IInv, NEW live \in Drawing, NEW now \in elapsed..MaxTime, Render(live, now)
  PROVE  IInv'
<1> DEFINE frame == Drawn(live, Gain(UsedPeak(live, now)), now)
<1>1. Full \in Nat /\ MaxTime \in Nat /\ n \in Sizes /\ n \in Nat \ {0} /\ TypeOK
      /\ now \in 0..MaxTime
  <2>1. TypeOK /\ n \in Sizes /\ elapsed \in 0..MaxTime
    BY DEF IInv, TypeOK
  <2>2. Full \in Nat /\ MaxTime \in Nat /\ n \in Nat \ {0}
    BY <2>1, OutputAssumption
  <2> QED BY <2>1, <2>2
<1>2. live \in [Pixels(n) -> 0..Full]
  <2>1. PICK a \in Levels, b \in Levels :
          live = [p \in Pixels(n) |-> IF p = 0 THEN a ELSE b]
    BY DEF Drawing
  <2>2. a \in 0..Full /\ b \in 0..Full
    BY OutputAssumption
  <2> QED BY <2>1, <2>2
<1>3. peak' = UsedPeak(live, now) /\ peak' \in 0..Full
  BY <1>1, EnvelopeCovers DEF Render, UsedPeak
<1>4. frame \in [Pixels(n) -> 0..255]
  BY <1>1, <1>2, <1>3, DrawnType
<1> HIDE DEF frame
<1>5. leg' = Ready(frame) /\ IsFrame(frame)
  BY <1>1, <1>4 DEF Render, IsFrame, frame
<1>6. leg' = Ready(leg'.frame) /\ IsFrame(leg'.frame) /\ leg'.at = "ready"
  BY <1>5 DEF Ready
<1>7. lastPeak' \in -1..MaxTime /\ elapsed' \in 0..MaxTime
  BY <1>1 DEF Render, TypeOK
<1>8. UNCHANGED <<operator, controller>>
  BY DEF Render
<1>9. TypeOK'
  BY <1>1, <1>3, <1>6, <1>7, <1>8 DEF TypeOK, operator, controller
<1>10. Received' /\ ControllerShowsWholeFrames'
  BY <1>6, <1>8 DEF Received, ControllerShowsWholeFrames, IInv, controller
<1> QED BY <1>9, <1>10 DEF IInv

(* A leg that is about to send, and one that is sending. *)
LEMMA ReadyLeg ==
  ASSUME TypeOK, leg.at = "ready"
  PROVE  leg = Ready(leg.frame) /\ IsFrame(leg.frame)
BY DEF TypeOK, Idle, Dead, Sending

LEMMA SendingLeg ==
  ASSUME TypeOK, leg.at = "sending"
  PROVE  /\ leg = Sending(leg.frame, leg.next) /\ IsFrame(leg.frame)
         /\ leg.next \in DOMAIN leg.frame
BY DEF TypeOK, Idle, Dead, Ready

LEMMA FrameLength ==
  ASSUME NEW frame, IsFrame(frame)
  PROVE  /\ Length(frame) \in Nat \ {0} /\ DOMAIN frame = Pixels(Length(frame))
         /\ Length(frame) \in Sizes
         /\ frame \in [Pixels(Length(frame)) -> 0..255]
<1>1. PICK k \in Sizes : frame \in [Pixels(k) -> 0..255]
  BY DEF IsFrame
<1>2. k \in Nat \ {0} /\ DOMAIN frame = 0..(k - 1)
  BY <1>1, OutputAssumption DEF Pixels
<1>3. Cardinality(0..(k - 1)) = k
  BY <1>2, FS_Interval
<1>4. Length(frame) = k
  BY <1>2, <1>3 DEF Length
<1> QED BY <1>1, <1>2, <1>4 DEF Pixels

LEMMA BeginSendKeeps ==
  ASSUME IInv, BeginSend
  PROVE  IInv'
<1>1. leg = Ready(leg.frame) /\ IsFrame(leg.frame)
  BY ReadyLeg DEF IInv, BeginSend
<1>2. UNCHANGED <<operator, envelope, elapsed, controller>>
  BY DEF BeginSend
<1>3. CASE leg' = Idle
  <2>1. Leg' /\ Received'
    BY <1>3 DEF Leg, Received, Idle
  <2> QED BY <1>2, <2>1, LegKeeps
<1>4. CASE leg' = Sending(leg.frame, 0)
  <2> DEFINE frame == leg.frame
  <2>1. 0 \in DOMAIN frame
    BY <1>1, FrameLength DEF Pixels
  <2>2. leg'.frame = frame /\ leg'.next = 0 /\ leg' = Sending(leg'.frame, leg'.next)
    BY <1>4 DEF Sending
  <2>3. Leg'
    BY <1>1, <2>1, <2>2 DEF Leg
  <2>4. \A p \in DOMAIN frame : ~(p < 0)
    BY <1>1, FrameLength DEF Pixels
  <2>5. Received'
    BY <2>2, <2>4 DEF Received
  <2> QED BY <1>2, <2>3, <2>5, LegKeeps
<1> QED BY <1>3, <1>4 DEF BeginSend

LEMMA NetworkFailsKeeps ==
  ASSUME IInv, NetworkFails
  PROVE  IInv'
<1>1. Leg' /\ Received'
  BY DEF NetworkFails, Leg, Received, Dead
<1> QED BY <1>1, LegKeeps DEF NetworkFails

LEMMA SendPacketKeeps ==
  ASSUME IInv, SendPacket
  PROVE  IInv'
<1> DEFINE frame == leg.frame
           next == leg.next
           k == Length(frame)
           end == PacketEnd(k, next)
           received == [p \in Positions |->
                          IF p \in next..(end - 1) THEN frame[p] ELSE buffer[p]]
<1>1. /\ leg.at = "sending"
      /\ buffer' = received
      /\ shown' = IF end = k THEN received ELSE shown
      /\ leg' = IF end = k THEN Idle ELSE Sending(frame, end)
      /\ whole' = IF end = k THEN frame ELSE whole
      /\ UNCHANGED <<operator, envelope, elapsed>>
  BY DEF SendPacket, Push
<1>2. TypeOK /\ Received /\ ControllerShowsWholeFrames
  BY DEF IInv
<1>3. IsFrame(frame) /\ next \in DOMAIN frame
  BY <1>1, <1>2, SendingLeg
<1>4. /\ k \in Nat \ {0} /\ k \in Sizes /\ DOMAIN frame = 0..(k - 1)
      /\ frame \in [0..(k - 1) -> 0..255] /\ next \in 0..(k - 1)
  BY <1>3, FrameLength DEF Pixels
<1> HIDE DEF frame, next, k
<1>5. end \in (next + 1)..k /\ end \in Nat
  <2>1. PacketPixels \in Nat \ {0}
    BY OutputAssumption
  <2> QED BY <1>4, <2>1 DEF PacketEnd
<1>6. 0..(k - 1) \subseteq Positions
  BY <1>4, PositionsCover DEF Pixels
<1>7. \A p \in 0..(k - 1) : p < next => buffer[p] = frame[p]
  BY <1>1, <1>2, <1>4 DEF Received, frame, next
<1>8. buffer \in [Positions -> 0..255] /\ shown \in [Positions -> 0..255]
  BY <1>2 DEF TypeOK
<1> HIDE DEF end
<1>9. received \in [Positions -> 0..255]
  <2>1. ASSUME NEW p \in Positions
        PROVE  (IF p \in next..(end - 1) THEN frame[p] ELSE buffer[p]) \in 0..255
    <3>1. CASE p \in next..(end - 1)
      <4>1. p \in 0..(k - 1)
        BY <1>4, <1>5, <3>1
      <4> QED BY <1>4, <3>1, <4>1
    <3>2. CASE p \notin next..(end - 1)
      BY <1>8, <3>2
    <3> QED BY <3>1, <3>2
  <2> QED BY <2>1
<1>10. \A p \in 0..(k - 1) : p < end => received[p] = frame[p]
  BY <1>4, <1>5, <1>6, <1>7
<1> HIDE DEF received
<1>11. CASE end = k
  <2>1. leg' = Idle /\ whole' = frame /\ shown' = received
    BY <1>1, <1>11
  <2>2. TypeOK'
    BY <1>1, <1>2, <1>3, <1>9, <2>1 DEF TypeOK, operator, envelope, frame
  <2>3. Received'
    BY <2>1 DEF Received, Idle
  <2>4. ControllerShowsWholeFrames'
    BY <1>4, <1>10, <1>11, <2>1 DEF ControllerShowsWholeFrames
  <2> QED BY <2>2, <2>3, <2>4 DEF IInv
<1>12. CASE end # k
  <2>1. leg' = Sending(frame, end) /\ whole' = whole /\ shown' = shown
    BY <1>1, <1>12
  <2>2. leg'.frame = frame /\ leg'.next = end /\ leg' = Sending(leg'.frame, leg'.next)
    BY <2>1 DEF Sending
  <2>3. end \in DOMAIN frame
    BY <1>4, <1>5, <1>12
  <2>4. IsFrame(leg'.frame) /\ leg'.next \in DOMAIN leg'.frame
    BY <1>3, <2>2, <2>3 DEF frame
  <2>5. TypeOK'
    BY <1>1, <1>2, <1>9, <2>1, <2>2, <2>4 DEF TypeOK, operator, envelope
  <2>6. Received'
    BY <1>1, <1>4, <1>10, <2>2 DEF Received
  <2>7. ControllerShowsWholeFrames'
    BY <1>2, <2>1 DEF ControllerShowsWholeFrames
  <2> QED BY <2>5, <2>6, <2>7 DEF IInv
<1> QED BY <1>11, <1>12

LEMMA InitEstablishes == Init => IInv
<1> SUFFICES ASSUME Init PROVE IInv
  OBVIOUS
<1>1. /\ 0 \in 0..Full /\ 0 \in 0..MaxTime /\ -1 \in -1..MaxTime /\ 0 \in 0..255
  BY OutputAssumption
<1>2. Dark \in [Positions -> 0..255]
  BY <1>1 DEF Dark
<1>3. NoCalibration \in Calibrations
  BY DEF Calibrations
<1>4. TypeOK
  BY <1>1, <1>2, <1>3 DEF Init, TypeOK
<1>5. Received
  BY DEF Init, Received, Idle
<1>6. ControllerShowsWholeFrames
  BY DEF Init, ControllerShowsWholeFrames, NoFrame
<1> QED BY <1>4, <1>5, <1>6 DEF IInv

LEMMA StepKeeps == IInv /\ [Next]_vars => IInv'
<1> SUFFICES ASSUME IInv, [Next]_vars PROVE IInv'
  OBVIOUS
<1>1. CASE RenderAny
  BY <1>1, RenderKeeps DEF RenderAny
<1>2. CASE BeginSend \/ SendPacket \/ NetworkFails
  BY <1>2, BeginSendKeeps, SendPacketKeeps, NetworkFailsKeeps
<1>3. CASE UNCHANGED vars
  BY <1>3 DEF vars, IInv, TypeOK, Received, ControllerShowsWholeFrames, operator,
              envelope, controller
<1> QED BY <1>1, <1>2, <1>3, OperatorKeeps DEF Next

-----------------------------------------------------------------------------
(* All of the invariant holds in every reachable state. *)
THEOREM Invariance == Spec => []IInv
<1> QED BY InitEstablishes, StepKeeps, PTL DEF Spec

(* Every variable of the output stage, the envelope, the frame under way and
   the controller keeps its type, whatever the rig, the knob and the network
   do. *)
THEOREM TypeCorrect == Spec => []TypeOK
<1>1. IInv => TypeOK
  BY DEF IInv
<1> QED BY <1>1, Invariance, PTL

(* DDPTransport: the controller shows the last frame that was sent to its end,
   pixel by pixel, for frames and packets of any size. *)
THEOREM WholeFramesShown == Spec => []ControllerShowsWholeFrames
<1>1. IInv => ControllerShowsWholeFrames
  BY DEF IInv
<1> QED BY <1>1, Invariance, PTL

(* _apply_master_output: the gain never pushes a pixel of the live leg beyond
   full, for every release of the envelope and every brightness up to twice
   full. *)
THEOREM HighlightsKept == Spec => HighlightsSurvive
<1> DEFINE Unclipped ==
      \A live \in Drawing, now \in elapsed..MaxTime : Render(live, now) =>
        LET gain == Gain(UsedPeak(live, now))
        IN  \A p \in DOMAIN live : Blacked(live)[p] * gain[1] <= Full * gain[2]
<1>1. IInv => Unclipped
  <2> SUFFICES ASSUME IInv, NEW live \in Drawing, NEW now \in elapsed..MaxTime,
                      Render(live, now), NEW p \in DOMAIN live
               PROVE  Blacked(live)[p] * Gain(UsedPeak(live, now))[1]
                        <= Full * Gain(UsedPeak(live, now))[2]
    OBVIOUS
  <2> DEFINE recent == UsedPeak(live, now)
             v == Blacked(live)[p]
  <2>1. TypeOK /\ n \in Sizes /\ Full \in Nat
    BY OutputAssumption DEF IInv, TypeOK
  <2>2. recent \in 0..Full /\ (~blackout => Brightest(live) <= recent)
    BY <2>1, EnvelopeCovers DEF UsedPeak
  <2>3. /\ Brightest(live) \in 0..Full
        /\ live[p] \in 0..Full /\ live[p] <= Brightest(live)
    BY <2>1, BrightestCovers
  <2>4. v \in 0..Full /\ v <= recent
    BY <2>1, <2>2, <2>3 DEF Blacked
  <2> HIDE DEF recent, v
  <2>5. v * Gain(recent)[1] <= Full * Gain(recent)[2]
    BY <2>1, <2>2, <2>4, GainBounded
  <2> QED BY <2>5 DEF recent, v
<1>2. IInv /\ [Next]_vars => [Unclipped]_vars
  BY <1>1
<1> QED BY <1>2, Invariance, PTL DEF Spec, HighlightsSurvive
-----------------------------------------------------------------------------
(***************************************************************************)
(* Blackout.  Of BlackoutReachesTheRig, what takes no fairness: a frame    *)
(* rendered in a blackout is dark, and dark frames keep the rig dark.      *)
(***************************************************************************)
InBlackout == blackout /\ calibration = NoCalibration

DarkComing ==
  leg.at \in {"ready", "sending"} =>
    \A p \in Pixels(n) : p \in DOMAIN leg.frame /\ leg.frame[p] = 0

RigIsDark == \A p \in Pixels(n) : shown[p] = 0

(* "/blackout: instant black": while blackout is on, nothing is calibrated and
   the topology stays, what is rendered is dark; a dark frame under way stays
   dark; and once such a frame has been sent to its end the rig is dark and
   remains so, whatever the knobs, the pause and the network do. *)
BlackoutHolds ==
  [][InBlackout /\ InBlackout' /\ n' = n =>
       /\ DarkComing => DarkComing'
       /\ DarkComing /\ (RigIsDark \/ (leg.at = "sending" /\ leg' = Idle)) => RigIsDark']_vars

LEMMA BlackDraws ==
  ASSUME TypeOK, InBlackout, NEW recent \in 0..Full, NEW now,
         NEW levels \in [Pixels(n) -> 0..Full], NEW p \in Pixels(n)
  PROVE  /\ p \in DOMAIN Drawn(levels, Gain(recent), now)
         /\ Drawn(levels, Gain(recent), now)[p] = 0
<1> DEFINE gain == Gain(recent)
<1>1. Full \in Nat /\ Encoded[0] = 0
  BY OutputAssumption
<1>2. gain[1] \in Nat /\ gain[2] \in Nat \ {0}
  BY GainType
<1> HIDE DEF gain
<1>3. Lifted(0, gain) = 0
  <2>1. 0 * gain[1] = 0
    BY <1>2
  <2>2. 0 \div gain[2] = 0
    BY <1>2
  <2>3. Lifted(0, gain) = IF 0 > Full THEN Full ELSE 0
    BY <2>1, <2>2 DEF Lifted
  <2> QED BY <1>1, <2>3
<1> DEFINE lifted == [q \in DOMAIN levels |-> Lifted(Blacked(levels)[q], gain)]
<1>4. DOMAIN levels = Pixels(n) /\ Blacked(levels)[p] = 0
  BY DEF Blacked, InBlackout
<1>5. p \in DOMAIN lifted /\ lifted[p] = 0
  BY <1>3, <1>4
<1> HIDE DEF lifted
<1>6. Calibrated(lifted, now) = lifted
  BY DEF Calibrated, InBlackout, NoCalibration
<1>7. p \in DOMAIN Bytes(lifted) /\ Bytes(lifted)[p] = 0
  BY <1>1, <1>5 DEF Bytes
<1> QED BY <1>6, <1>7 DEF Drawn, lifted, gain

LEMMA RenderBlacks ==
  ASSUME IInv, InBlackout, NEW live \in Drawing, NEW now \in elapsed..MaxTime,
         Render(live, now)
  PROVE  DarkComing'
<1> DEFINE frame == Drawn(live, Gain(UsedPeak(live, now)), now)
<1>1. TypeOK /\ n \in Sizes /\ elapsed \in 0..MaxTime
  BY DEF IInv, TypeOK
<1>2. now \in 0..MaxTime
  BY <1>1, OutputAssumption
<1>3. live \in [Pixels(n) -> 0..Full]
  <2>1. PICK a \in Levels, b \in Levels :
          live = [p \in Pixels(n) |-> IF p = 0 THEN a ELSE b]
    BY DEF Drawing
  <2>2. a \in 0..Full /\ b \in 0..Full
    BY OutputAssumption
  <2> QED BY <2>1, <2>2
<1>4. UsedPeak(live, now) \in 0..Full
  BY <1>1, <1>2, EnvelopeCovers DEF UsedPeak
<1>5. \A p \in Pixels(n) : p \in DOMAIN frame /\ frame[p] = 0
  BY <1>1, <1>3, <1>4, BlackDraws
<1> HIDE DEF frame
<1>6. leg' = Ready(frame) /\ n' = n
  BY DEF Render, frame, operator
<1>7. leg'.frame = frame
  BY <1>6 DEF Ready
<1> QED BY <1>5, <1>6, <1>7 DEF DarkComing

(* A packet: of the frame, what comes after it; of the rig, nothing or all. *)
LEMMA PacketBlacks ==
  ASSUME IInv, IInv', SendPacket, DarkComing
  PROVE  /\ DarkComing'
         /\ RigIsDark \/ leg' = Idle => RigIsDark'
<1> DEFINE frame == leg.frame
           k == Length(frame)
           end == PacketEnd(k, leg.next)
<1>1. /\ leg.at = "sending" /\ n' = n
      /\ leg' = IF end = k THEN Idle ELSE Sending(frame, end)
      /\ whole' = IF end = k THEN frame ELSE whole
      /\ end # k => shown' = shown
  BY DEF SendPacket, Push, operator
<1>2. \A p \in Pixels(n) : p \in DOMAIN frame /\ frame[p] = 0
  BY <1>1 DEF DarkComing
<1> HIDE DEF frame, k, end
<1>3. CASE end = k
  <2>1. leg' = Idle /\ whole' = frame
    BY <1>1, <1>3
  <2>2. \A p \in DOMAIN frame : shown'[p] = frame[p]
    BY <2>1 DEF IInv, ControllerShowsWholeFrames
  <2> QED BY <1>1, <1>2, <2>1, <2>2 DEF DarkComing, RigIsDark, Idle
<1>4. CASE end # k
  <2>1. leg' = Sending(frame, end) /\ shown' = shown
    BY <1>1, <1>4
  <2>2. leg'.frame = frame /\ leg' # Idle
    BY <2>1 DEF Sending, Idle
  <2> QED BY <1>1, <1>2, <2>1, <2>2 DEF DarkComing, RigIsDark
<1> QED BY <1>3, <1>4

(* Steps that leave what is shown alone and render nothing. *)
LEMMA QuietStepsBlack ==
  ASSUME DarkComing, n' = n, shown' = shown, leg.at # "sending" \/ leg' # Idle,
         \/ leg' \in {leg, Idle, Dead}
         \/ leg.at = "ready" /\ leg' = Sending(leg.frame, 0)
  PROVE  /\ DarkComing'
         /\ RigIsDark \/ (leg.at = "sending" /\ leg' = Idle) => RigIsDark'
<1>1. RigIsDark => RigIsDark'
  BY DEF RigIsDark
<1>2. DarkComing'
  <2>1. CASE leg' = leg
    BY <2>1 DEF DarkComing
  <2>2. CASE leg' \in {Idle, Dead}
    BY <2>2 DEF DarkComing, Idle, Dead
  <2>3. CASE leg.at = "ready" /\ leg' = Sending(leg.frame, 0)
    <3>1. leg'.frame = leg.frame
      BY <2>3 DEF Sending
    <3> QED BY <2>3, <3>1 DEF DarkComing
  <2> QED BY <2>1, <2>2, <2>3
<1> QED BY <1>1, <1>2

(* Runtime.render, DDPTransport: a blackout is complete with the first frame
   that is sent after it, and lasts until the operator ends it, calibrates or
   changes the topology. *)
THEOREM BlackoutLasts == Spec => BlackoutHolds
<1> DEFINE Holds ==
      InBlackout /\ InBlackout' /\ n' = n =>
        /\ DarkComing => DarkComing'
        /\ DarkComing /\ (RigIsDark \/ (leg.at = "sending" /\ leg' = Idle)) => RigIsDark'
<1>1. IInv /\ IInv' /\ [Next]_vars => [Holds]_vars
  <2> SUFFICES ASSUME IInv, IInv', Next, InBlackout, InBlackout', n' = n, DarkComing
               PROVE  /\ DarkComing'
                      /\ RigIsDark \/ (leg.at = "sending" /\ leg' = Idle) => RigIsDark'
    OBVIOUS
  <2>1. CASE RenderAny
    <3>1. PICK live \in Drawing, now \in elapsed..MaxTime : Render(live, now)
      BY <2>1 DEF RenderAny
    <3>2. DarkComing'
      BY <3>1, RenderBlacks
    <3>3. leg.at # "sending" /\ shown' = shown
      BY <3>1 DEF Render, Idle, controller
    <3> QED BY <3>2, <3>3 DEF RigIsDark
  <2>2. CASE BeginSend
    BY <2>2, QuietStepsBlack DEF BeginSend, controller
  <2>3. CASE SendPacket
    BY <2>3, PacketBlacks
  <2>4. CASE NetworkFails
    BY <2>4, QuietStepsBlack DEF NetworkFails, controller, Idle, Dead
  <2>5. CASE \/ \E on \in BOOLEAN : PostBlackout(on) \/ PauseTransport(on)
             \/ \E b \in Brightness : SetBrightness(b)
             \/ \E k \in Sizes : SwapTopology(k)
             \/ \E indices \in Solos : CalibrationSolo(indices)
             \/ \E step \in Steps : CalibrationWalk(step)
             \/ CalibrationStop
    <3>1. Served /\ leg' = leg /\ shown' = shown
      BY <2>5 DEF PostBlackout, PauseTransport, SetBrightness, SwapTopology,
                  CalibrationSolo, CalibrationWalk, CalibrationStop, controller
    <3>2. leg.at # "sending"
      BY <3>1 DEF Served
    <3> QED BY <3>1, <3>2, QuietStepsBlack
  <2> QED BY <2>1, <2>2, <2>3, <2>4, <2>5 DEF Next
<1> QED BY <1>1, Invariance, StepKeeps, PTL DEF Spec, BlackoutHolds
=============================================================================
