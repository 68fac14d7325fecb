----------------------------- MODULE FrameLoop -----------------------------
(***************************************************************************)
(* The engine's render loop (engine.py, Engine._loop) and the transports   *)
(* it feeds (transports/split.py, simulator.py, ddp.py): a frame is        *)
(* rendered every period, or from half a period on when the audio listener *)
(* kicks; then it is sent to the browsers, at their own lower rate, and to *)
(* the LEDs.  The loop shares the event loop with the operator's requests, *)
(* which run only while it is suspended: waiting for its next frame, or    *)
(* for a browser to take the current one.                                  *)
(*                                                                         *)
(* Rendering, sending and the other tasks of the event loop take as long   *)
(* as they like.  What a frame shows is the matter of Runtime.             *)
(***************************************************************************)
EXTENDS Integers, FiniteSets

CONSTANTS
  Period,      \* frame periods of the LED leg, in clock units
  SimPeriod,   \* frame periods of the browser leg
  Slack,       \* the early arrival should_send_now forgives (1 ms)
  Client,      \* browsers
  Uptime,      \* perf_counter() when the loop starts
  Cap, SimCap  \* bounds: the elapsed times of the two legs saturate here

ASSUME LoopAssumption ==
  /\ Period \subseteq Nat \ {0} /\ Period # {}
  /\ SimPeriod \subseteq Nat \ {0} /\ SimPeriod # {}
  /\ Slack \in Nat
  /\ Uptime \in Nat
  /\ Cap \in Nat /\ \A p \in Period : p <= Cap
  /\ SimCap \in Nat /\ \A p \in SimPeriod : p <= SimCap

VARIABLES
  loop,        \* where Engine._loop is
  target,      \* the period of engine.target_fps
  period,      \* the period the loop has read for the frame it waits for
  since,       \* perf_counter() - last_render
  lastWall,    \* wall time since last_wall was set, or Absolute
  kick,        \* the _audio_kick event
  simActive,   \* sim_active of the frame in progress
  simPeriod,   \* the period of sim.target_fps
  simDue,      \* sim._next_send_t - monotonic()
  simPaused,   \* sim.paused
  clients,     \* sim._clients
  targets,     \* the browsers the frame in progress is still to be sent to
  dead,        \* the browsers that failed to take it
  request,     \* an operator request is waiting for the event loop
  sends,       \* history: the ages of the last two sends to the browsers
  sinceLeds    \* history: the age of the last frame the LEDs got

pacing == <<target, period, since, lastWall, kick, sinceLeds>>
sim == <<simActive, simPeriod, simDue, simPaused, clients, targets, dead, sends>>
vars == <<loop, pacing, sim, request>>

-----------------------------------------------------------------------------
(***************************************************************************)
(* An elapsed time saturates at or above every threshold it is compared    *)
(* with.                                                                   *)
(***************************************************************************)
WallCap == 2 * Cap + 1
Older(t, cap) == IF t < cap THEN t + 1 ELSE t

Absolute == -1            \* last_wall = t0, a clock reading and no wall_t
NeverDue == -2 * SimCap   \* _next_send_t = 0.0, or a time long past

TypeOK ==
  /\ loop \in {"pacing", "waiting", "due", "rendering", "sending", "crashed"}
  /\ target \in Period /\ period \in Period
  /\ since \in 0..Cap
  /\ lastWall \in 0..WallCap \cup {Absolute}
  /\ kick \in BOOLEAN
  /\ simActive \in BOOLEAN
  /\ simPeriod \in SimPeriod
  /\ simDue \in NeverDue..(simPeriod + Slack)
  /\ simPaused \in BOOLEAN
  /\ clients \subseteq Client
  /\ targets \subseteq Client /\ dead \subseteq Client
  /\ request \in BOOLEAN
  /\ sends \in [1..2 -> 0..SimCap]
  /\ sinceLeds \in 0..Cap

(***************************************************************************)
(* last_render starts one period in the past, last_wall at t0 itself.      *)
(***************************************************************************)
Init ==
  /\ loop = "pacing"
  /\ target \in Period /\ period = target
  /\ since = period
  /\ lastWall = Absolute
  /\ kick = FALSE
  /\ simActive = FALSE
  /\ simPeriod \in SimPeriod
  /\ simDue = NeverDue
  /\ simPaused = FALSE
  /\ clients = {}
  /\ targets = {}
  /\ dead = {}
  /\ request = FALSE
  /\ sends = [i \in 1..2 |-> SimCap]
  /\ sinceLeds = Cap

(***************************************************************************)
(* The other tasks of the event loop run at an await that waits.           *)
(***************************************************************************)
Suspended == loop = "waiting" \/ (loop = "sending" /\ targets # {}) \/ loop = "crashed"

-----------------------------------------------------------------------------
(***************************************************************************)
(* Waiting for the next frame: the frame is due at last_render + period,   *)
(* and a kick asks for it from half a period on.                           *)
(* Mutants: a kick moves the deadline; a kick is obeyed at any time.       *)
(***************************************************************************)
Pace ==
  /\ loop = "pacing"
  /\ loop' = IF since >= period THEN "due" ELSE "waiting"
  /\ UNCHANGED <<pacing, sim, request>>

DeadlinePasses ==
  /\ loop = "waiting" /\ since >= period
  /\ loop' = "due"
  /\ UNCHANGED <<pacing, sim, request>>

WokenRestarting ==
  /\ loop = "waiting" /\ kick
  /\ kick' = FALSE
  /\ loop' = IF 2 * since >= period THEN "due" ELSE "pacing"
  /\ since' = 0
  /\ UNCHANGED <<target, period, lastWall, sinceLeds, sim, request>>

WokenAtOnce ==
  /\ loop = "waiting" /\ kick
  /\ kick' = FALSE
  /\ loop' = "due"
  /\ UNCHANGED <<target, period, since, lastWall, sinceLeds, sim, request>>

Woken ==
  /\ loop = "waiting" /\ kick
  /\ kick' = FALSE
  /\ loop' = IF 2 * since >= period THEN "due" ELSE "pacing"
  /\ UNCHANGED <<target, period, since, lastWall, sinceLeds, sim, request>>

(***************************************************************************)
(* dt_wall, clamped from above at two periods.  Only the first frame       *)
(* subtracts a clock reading from a wall time.                             *)
(***************************************************************************)
DtWall == IF lastWall = Absolute THEN -Uptime ELSE lastWall
Clamped(d) == IF d > 2 * period THEN 2 * period ELSE d

(***************************************************************************)
(* SimulatorTransport.should_send_now, and send_frame's own test.          *)
(* Mutant: a slack of a whole period.                                      *)
(***************************************************************************)
LooselyDue == simDue <= simPeriod
Due == simDue <= Slack
ShouldSendNow == ~simPaused /\ clients # {} /\ Due

BeginFrame ==
  /\ loop = "due"
  /\ loop' = "rendering"
  /\ lastWall' = 0
  /\ simActive' = ShouldSendNow
  /\ UNCHANGED <<target, period, since, kick, sinceLeds, simPeriod, simDue, simPaused,
                 clients, targets, dead, sends, request>>

(***************************************************************************)
(* The frame is encoded and SplitTransport.send starts with the browsers:  *)
(* SimulatorTransport.send_frame moves its deadline, from now when it has  *)
(* fallen more than a period behind, and snapshots the browsers.  Its own  *)
(* tests repeat those of should_send_now, and nothing but time has passed. *)
(* Mutant: the deadline always moves on by one period.                     *)
(***************************************************************************)
CatchUp == simDue + simPeriod
NextSimDue ==
  IF simDue < -simPeriod \/ simDue = NeverDue THEN simPeriod
                                              ELSE simDue + simPeriod

SendToBrowsers ==
  /\ loop = "rendering" /\ simActive
  /\ loop' = "sending"
  /\ simDue' = NextSimDue
  /\ targets' = clients
  /\ sends' = [i \in 1..2 |-> IF i = 1 THEN 0 ELSE sends[1]]
  /\ UNCHANGED <<pacing, simActive, simPeriod, simPaused, clients, dead, request>>

SkipBrowsers ==
  /\ loop = "rendering" /\ ~simActive
  /\ loop' = "sending"
  /\ UNCHANGED <<pacing, sim, request>>

(***************************************************************************)
(* A browser takes the frame or turns out to be gone.                      *)
(***************************************************************************)
BrowserTakes(c) ==
  /\ loop = "sending" /\ c \in targets
  /\ targets' = targets \ {c}
  /\ UNCHANGED <<loop, pacing, simActive, simPeriod, simDue, simPaused,
                 clients, dead, sends, request>>

BrowserFails(c) ==
  /\ loop = "sending" /\ c \in targets
  /\ targets' = targets \ {c}
  /\ dead' = dead \cup {c}
  /\ UNCHANGED <<loop, pacing, simActive, simPeriod, simDue, simPaused,
                 clients, sends, request>>

(***************************************************************************)
(* When every browser has been tried, those that failed are forgotten and  *)
(* the LEDs get the frame (DDPTransport.send_frame); last_render is then,  *)
(* and kicks that came while browsers were waited for are dropped.         *)
(* Mutants: last_render is when the frame began, or when it was due.       *)
(***************************************************************************)
BrowsersDone ==
  /\ loop = "sending" /\ targets = {}
  /\ clients' = clients \ dead
  /\ dead' = {}
  /\ UNCHANGED <<target, lastWall, simActive, simPeriod, simDue, simPaused,
                 targets, sends, request>>

EndFrameFromStart ==
  /\ BrowsersDone
  /\ loop' = "pacing"
  /\ sinceLeds' = 0
  /\ since' = IF lastWall < Cap THEN lastWall ELSE Cap
  /\ kick' = FALSE
  /\ period' = target

EndFrameOnSchedule ==
  /\ BrowsersDone
  /\ loop' = "pacing"
  /\ sinceLeds' = 0
  /\ since' = IF since > period THEN since - period ELSE 0
  /\ kick' = FALSE
  /\ period' = target

EndFrame ==
  /\ BrowsersDone
  /\ loop' = "pacing"
  /\ sinceLeds' = 0
  /\ since' = 0
  /\ kick' = FALSE
  /\ period' = target

(***************************************************************************)
(* sendto raises when there is no route to the controller: the loop logs   *)
(* the exception and ends.                                                 *)
(***************************************************************************)
LoseNetwork ==
  /\ BrowsersDone
  /\ loop' = "crashed"
  /\ UNCHANGED <<period, since, kick, sinceLeds>>

-----------------------------------------------------------------------------
(***************************************************************************)
(* The other actors.                                                       *)
(***************************************************************************)
(* The listener's call_soon_threadsafe sets the event on the event loop. *)
KickAudio ==
  /\ Suspended
  /\ kick' = TRUE
  /\ UNCHANGED <<loop, target, period, since, lastWall, sinceLeds, sim, request>>

SetTargetFps(p) ==
  /\ target' = p
  /\ UNCHANGED <<period, since, lastWall, kick, sinceLeds, sim>>

(* The next frame goes out at once; the pace of the sends starts anew. *)
SetSimFps(p) ==
  /\ simPeriod' = p
  /\ simDue' = NeverDue
  /\ sends' = [i \in 1..2 |-> SimCap]
  /\ UNCHANGED <<pacing, simActive, simPaused, clients, targets, dead>>

PauseSim(paused) ==
  /\ simPaused' = paused
  /\ UNCHANGED <<pacing, simActive, simPeriod, simDue, clients, targets, dead,
                 sends>>

AddClient(c) ==
  /\ clients' = clients \cup {c}
  /\ UNCHANGED <<pacing, simActive, simPeriod, simDue, simPaused, targets, dead,
                 sends>>

RemoveClient(c) ==
  /\ clients' = clients \ {c}
  /\ UNCHANGED <<pacing, simActive, simPeriod, simDue, simPaused, targets, dead,
                 sends>>

Ask ==
  /\ request' = TRUE
  /\ UNCHANGED <<loop, pacing, sim>>

Serve ==
  /\ request /\ Suspended
  /\ request' = FALSE
  /\ loop' = loop
  /\ \/ \E p \in Period : SetTargetFps(p)
     \/ \E p \in SimPeriod : SetSimFps(p)
     \/ \E paused \in BOOLEAN : PauseSim(paused)
     \/ \E c \in Client : AddClient(c) \/ RemoveClient(c)

(***************************************************************************)
(* The few instructions between the end of a frame and the next wait take  *)
(* less than a clock unit.                                                 *)
(***************************************************************************)
Tick ==
  /\ loop # "pacing"
  /\ since' = Older(since, Cap)
  /\ lastWall' = IF lastWall = Absolute THEN Absolute ELSE Older(lastWall, WallCap)
  /\ simDue' = IF simDue > NeverDue THEN simDue - 1 ELSE NeverDue
  /\ sends' = [i \in 1..2 |-> Older(sends[i], SimCap)]
  /\ sinceLeds' = Older(sinceLeds, Cap)
  /\ UNCHANGED <<loop, target, period, kick, simActive, simPeriod,
                 simPaused, clients, targets, dead, request>>

Engine ==
  \/ Pace \/ DeadlinePasses \/ Woken \/ BeginFrame
  \/ SendToBrowsers \/ SkipBrowsers \/ EndFrame \/ LoseNetwork

Browser == \E c \in Client : BrowserTakes(c) \/ BrowserFails(c)

Next == Engine \/ Browser \/ KickAudio \/ Ask \/ Serve \/ Tick

Spec == Init /\ [][Next]_vars

(***************************************************************************)
(* The engine's task is scheduled, a browser that stopped reading is       *)
(* disconnected by the websocket keepalive, the event loop serves its      *)
(* ready tasks in order, so that a request that is ready again and again   *)
(* gets its turn, and time passes.                                         *)
(***************************************************************************)
FairSpec ==
  /\ Spec
  /\ WF_vars(Engine)
  /\ WF_vars(Browser)
  /\ SF_vars(Serve)
  /\ SF_vars(Tick)

-----------------------------------------------------------------------------
(* The LEDs get frame after frame however often the audio listener kicks and
   however many requests come, unless the network is lost: a kick may bring a
   frame forward and never puts it off. *)
FramesKeepComing == []<>(loop = "rendering") \/ <>(loop = "crashed")

(* However long frames take to render and to send, the loop lets the
   operator's requests in between them. *)
RequestsAreServed == request ~> ~request

(* The controllers are never flooded: whatever a frame took to render and to
   send to the browsers, and whatever the audio listener asks for, two frames
   reach the LEDs at least half a period apart; lost time is not made up for. *)
LedsNotFlooded ==
  [][EndFrame => 2 * sinceLeds >= period]_vars

(* "otherwise we'd burst-send back-to-back frames": three frames never reach
   the browsers within one of their periods, even after a stall. *)
NoBurst ==
  [][SendToBrowsers => sends[2] >= simPeriod - Slack]_vars

(***************************************************************************)
(* "the engine code clamps dt at 2x period before passing into             *)
(* Runtime.render", says the test that documents the contract: an effect   *)
(* is never moved by more than two frames, forward or back.                *)
(***************************************************************************)
DtIsClamped ==
  [][BeginFrame => Clamped(DtWall) \in (-2 * period)..(2 * period)]_vars
=============================================================================
