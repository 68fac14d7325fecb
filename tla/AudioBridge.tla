---------------------------- MODULE AudioBridge ----------------------------
(***************************************************************************)
(* The audio feed (audio/bridge.py, OscFeatureListener; audio/state.py)    *)
(* and its reader, Engine._build_audio_view.  Three threads share one      *)
(* AudioState without a lock: the OSC listener writes it packet by packet, *)
(* the watchdog clears "connected" when the packets stop, and the event    *)
(* loop copies it into the view of each frame.  A step of a thread reads   *)
(* or writes one field that the other threads depend on.                   *)
(*                                                                         *)
(* The three band levels are one level, written at once: the code accepts  *)
(* a torn read of them.  The reactivity master is above zero.  The threads *)
(* run within a clock unit: time passes only when none is in mid-step and  *)
(* the watchdog is not due.                                                *)
(***************************************************************************)
EXTENDS Integers

CONSTANTS
  Stale,      \* stale_after_s, in clock units
  Poll,       \* the watchdog's period: half of stale_after_s
  MaxBeats    \* bound: the onsets of a run; the code's counter has 31 bits

ASSUME BridgeAssumption ==
  /\ Stale \in Nat \ {0}
  /\ Poll \in Nat \ {0}
  /\ MaxBeats \in Nat

VARIABLES
  level,        \* state.low, mid and high: zero ("silent") or above ("loud")
  connected,    \* state.connected
  age,          \* monotonic() - state.last_packet_at
  complaint,    \* state.error is "no /audio/lmh in ..."
  beatCount,    \* state.beat_count
  listener,     \* the listener thread
  watchdog,     \* the watchdog thread
  timer,        \* how long the watchdog has been waiting
  lastBeats,    \* engine._last_beats
  frame,        \* _build_audio_view: "idle", or "reading" after the beat latch
  view,         \* the AudioView of the last frame
  flashes,      \* history: the frames that showed a beat
  owed          \* history: an onset no frame has counted yet

bridgeState == <<level, connected, age, complaint, beatCount>>
threads == <<listener, watchdog, timer>>
engine == <<lastBeats, frame, view, flashes, owed>>
vars == <<bridgeState, threads, engine>>

-----------------------------------------------------------------------------
Level == {"silent", "loud"}
Forever == Stale + Poll + 1     \* bound: age saturates here, above any test
Older(a) == IF a < Forever THEN a + 1 ELSE a

TypeOK ==
  /\ level \in Level
  /\ connected \in BOOLEAN
  /\ age \in 0..Forever
  /\ complaint \in BOOLEAN
  /\ beatCount \in 0..MaxBeats
  /\ listener \in {"serving", "marking"}
  /\ watchdog \in {"waiting", "overdue", "complaining"}
  /\ timer \in 0..Poll
  /\ lastBeats \in 0..MaxBeats
  /\ frame \in {"idle", "reading"}
  /\ view \in [level : Level, beat : BOOLEAN, connected : BOOLEAN]
  /\ flashes \in 0..MaxBeats
  /\ owed \in BOOLEAN

(***************************************************************************)
(* start() has run and the engine has latched the beat counter.            *)
(***************************************************************************)
Init ==
  /\ level = "silent"
  /\ connected = FALSE
  /\ age = Forever
  /\ complaint = FALSE
  /\ beatCount = 0
  /\ listener = "serving"
  /\ watchdog = "waiting"
  /\ timer = 0
  /\ lastBeats = 0
  /\ frame = "idle"
  /\ view = [level |-> "silent", beat |-> FALSE, connected |-> FALSE]
  /\ flashes = 0
  /\ owed = FALSE

-----------------------------------------------------------------------------
(***************************************************************************)
(* The listener.  _on_lmh and _on_meta end in mark_packet, which sets      *)
(* connected before it moves last_packet_at.                               *)
(* Mutant: connected is set by the first packet only.                      *)
(***************************************************************************)
ConnectOnce == connected' = (connected \/ age = Forever)
Connect == connected' = TRUE

OnLmh(l) ==
  /\ listener = "serving"
  /\ level' = l
  /\ Connect
  /\ listener' = "marking"
  /\ UNCHANGED <<age, complaint, beatCount, watchdog, timer, engine>>

OnMeta ==
  /\ listener = "serving"
  /\ Connect
  /\ listener' = "marking"
  /\ UNCHANGED <<level, age, complaint, beatCount, watchdog, timer,
                 engine>>

MarkPacket ==
  /\ listener = "marking"
  /\ age' = 0
  /\ complaint' = FALSE
  /\ listener' = "serving"
  /\ UNCHANGED <<level, connected, beatCount, watchdog, timer, engine>>

OnBeat ==
  /\ listener = "serving"
  /\ beatCount < MaxBeats
  /\ beatCount' = beatCount + 1
  /\ owed' = TRUE
  /\ UNCHANGED <<level, connected, age, complaint, threads,
                 lastBeats, frame, view, flashes>>

(***************************************************************************)
(* _watchdog_loop: between the test and the two assignments the listener   *)
(* may handle a packet.  Mutant: it tests a doubled threshold.             *)
(***************************************************************************)
TwiceOverdue == age > 2 * Stale
Overdue == age > Stale

WatchdogTests ==
  /\ watchdog = "waiting" /\ timer = Poll
  /\ watchdog' = IF connected /\ Overdue THEN "overdue" ELSE "waiting"
  /\ timer' = 0
  /\ UNCHANGED <<bridgeState, listener, engine>>

WatchdogDisconnects ==
  /\ watchdog = "overdue"
  /\ connected' = FALSE
  /\ watchdog' = "complaining"
  /\ UNCHANGED <<level, age, complaint, beatCount, listener, timer,
                 engine>>

WatchdogComplains ==
  /\ watchdog = "complaining"
  /\ complaint' = TRUE
  /\ watchdog' = "waiting"
  /\ UNCHANGED <<level, connected, age, beatCount, listener, timer,
                 engine>>

-----------------------------------------------------------------------------
(***************************************************************************)
(* _build_audio_view: the beat latch, then the other fields.               *)
(* Mutants: the latch is not moved; it is moved to a second read of the    *)
(* counter.                                                                *)
(***************************************************************************)
LatchNothing ==
  /\ frame = "idle"
  /\ frame' = "reading"
  /\ view' = [view EXCEPT !.beat = beatCount > lastBeats]
  /\ flashes' = flashes + (IF beatCount > lastBeats THEN 1 ELSE 0)
  /\ owed' = (owed /\ beatCount <= lastBeats)
  /\ UNCHANGED <<bridgeState, threads, lastBeats>>

LatchBeat ==
  /\ frame = "idle"
  /\ frame' = "reading"
  /\ view' = [view EXCEPT !.beat = beatCount > lastBeats]
  /\ flashes' = flashes + (IF beatCount > lastBeats THEN 1 ELSE 0)
  /\ lastBeats' = beatCount
  /\ owed' = (owed /\ beatCount <= lastBeats)
  /\ UNCHANGED <<bridgeState, threads>>

ReadBandsTwice ==
  /\ frame = "reading"
  /\ frame' = "idle"
  /\ view' = [view EXCEPT !.level = level, !.connected = connected]
  /\ lastBeats' = beatCount
  /\ UNCHANGED <<bridgeState, threads, flashes, owed>>

ReadBands ==
  /\ frame = "reading"
  /\ frame' = "idle"
  /\ view' = [view EXCEPT !.level = level, !.connected = connected]
  /\ UNCHANGED <<bridgeState, threads, lastBeats, flashes, owed>>

-----------------------------------------------------------------------------
(***************************************************************************)
(* Time.  The packets of the audio server come whenever they like.         *)
(***************************************************************************)
Tick ==
  /\ listener = "serving"
  /\ watchdog = "waiting" /\ timer < Poll
  /\ age' = Older(age)
  /\ timer' = timer + 1
  /\ UNCHANGED <<level, connected, complaint, beatCount, listener, watchdog,
                 engine>>

Listener == (\E l \in Level : OnLmh(l)) \/ OnMeta \/ MarkPacket \/ OnBeat
Watchdog == WatchdogTests \/ WatchdogDisconnects \/ WatchdogComplains
Frame == LatchBeat \/ ReadBands

Next == Listener \/ Watchdog \/ Frame \/ Tick

Spec == Init /\ [][Next]_vars

(***************************************************************************)
(* The threads and the engine's loop keep running; nothing is assumed of   *)
(* the audio server.                                                       *)
(***************************************************************************)
FairSpec ==
  /\ Spec
  /\ WF_vars(MarkPacket)
  /\ WF_vars(Watchdog)
  /\ WF_vars(Frame)
  /\ WF_vars(Tick)

-----------------------------------------------------------------------------
(* "the worst-case detection latency is half the threshold": a feed that has
   been silent for longer than the threshold and one watchdog period is shown
   as disconnected, whatever the watchdog and the listener interleave. *)
OutageIsNoticed ==
  connected /\ listener = "serving" => age <= Stale + Poll

(* Once packets are never further apart than the threshold, every frame ends
   up connected and no complaint is left: a watchdog that had already decided
   to disconnect, or to complain, is overruled by the next packet. *)
FeedReturns ==
  <>[](age <= Stale) => <>[](view.connected /\ ~complaint)

(* An onset makes exactly one frame flash, unless onsets share a frame: no
   frame flashes without an onset that no earlier frame has counted, ... *)
NoPhantomFlash ==
  flashes + (IF owed THEN 1 ELSE 0) <= beatCount

(* ... and no onset is swallowed, not even one that arrives while the view of
   a frame is being built. *)
EveryOnsetFlashes == owed ~> ~owed
=============================================================================
