---------------------------- MODULE FrameProofs ----------------------------
(***************************************************************************)
(* Proofs about FrameLoop for any rates, any slack and any browsers.       *)
(***************************************************************************)
EXTENDS FrameLoop, TLAPS

(***************************************************************************)
(* The accounts of the browser leg.  A frame to be sent is due.  The last  *)
(* send is at least as old as the deadline is overdue, the one before it a *)
(* period more, unless they are older than a period anyhow.                *)
(***************************************************************************)
Paced ==
  /\ loop = "rendering" /\ simActive => simDue <= Slack
  /\ sends[1] >= simPeriod \/ sends[1] + simDue >= 0
  /\ sends[2] >= simPeriod \/ sends[2] + simDue >= simPeriod

SimTypeOK ==
  /\ simActive \in BOOLEAN
  /\ simPeriod \in SimPeriod
  /\ simDue \in NeverDue..(simPeriod + Slack)
  /\ sends \in [1..2 -> 0..SimCap]

PaceTypeOK ==
  /\ loop \in {"pacing", "waiting", "due", "rendering", "sending", "crashed"}
  /\ target \in Period /\ period \in Period
  /\ since \in 0..Cap
  /\ lastWall \in 0..WallCap \cup {Absolute}
  /\ kick \in BOOLEAN
  /\ sinceLeds \in 0..Cap

ActorTypeOK ==
  /\ simPaused \in BOOLEAN
  /\ clients \subseteq Client
  /\ targets \subseteq Client /\ dead \subseteq Client
  /\ request \in BOOLEAN

IInv == PaceTypeOK /\ SimTypeOK /\ ActorTypeOK /\ Paced

simClock == <<simPeriod, simDue, sends>>

LEMMA Numbers ==
  /\ \A p \in Period : p \in Nat /\ p > 0 /\ p <= Cap
  /\ \A p \in SimPeriod : p \in Nat /\ p > 0 /\ p <= SimCap
  /\ Cap \in Nat /\ SimCap \in Nat /\ Slack \in Nat
  /\ WallCap \in Nat /\ NeverDue \in Int /\ NeverDue = -2 * SimCap
BY LoopAssumption DEF WallCap, NeverDue

LEMMA InitEstablishes == Init => IInv
<1> SUFFICES ASSUME Init PROVE IInv
  OBVIOUS
<1>1. PaceTypeOK
  <2>1. target \in Period /\ period \in Period /\ since = period
    BY DEF Init
  <2>2. since \in 0..Cap
    BY <2>1, Numbers
  <2>3. /\ loop = "pacing" /\ kick \in BOOLEAN
        /\ lastWall \in 0..WallCap \cup {Absolute} /\ sinceLeds = Cap
    BY DEF Init
  <2>4. sinceLeds \in 0..Cap
    BY <2>3, Numbers
  <2> QED BY <2>1, <2>2, <2>3, <2>4 DEF PaceTypeOK
<1>2. SimTypeOK
  <2>1. simDue \in NeverDue..(simPeriod + Slack)
    BY Numbers DEF Init
  <2>2. sends \in [1..2 -> 0..SimCap]
    BY Numbers DEF Init
  <2> QED BY <2>1, <2>2 DEF Init, SimTypeOK
<1>3. ActorTypeOK
  BY DEF Init, ActorTypeOK
<1>4. Paced
  <2>1. sends[1] = SimCap /\ sends[2] = SimCap
    BY DEF Init
  <2> QED BY <2>1, Numbers DEF Init, Paced
<1> QED BY <1>1, <1>2, <1>3, <1>4 DEF IInv

(***************************************************************************)
(* A step that leaves the clock of the browser leg alone, and does not     *)
(* begin to render, keeps its accounts.                                    *)
(***************************************************************************)
LEMMA ClockAlone ==
  ASSUME IInv, UNCHANGED simClock, UNCHANGED simActive, loop' # "rendering"
  PROVE  SimTypeOK' /\ Paced'
BY DEF IInv, simClock, SimTypeOK, Paced

(***************************************************************************)
(* The loop's own steps.                                                   *)
(***************************************************************************)
LEMMA PacingKeeps ==
  ASSUME IInv, Pace \/ DeadlinePasses \/ Woken PROVE IInv'
<1> USE DEF pacing, sim
<1>1. UNCHANGED simClock /\ UNCHANGED simActive /\ loop' # "rendering"
  BY DEF Pace, DeadlinePasses, Woken, simClock
<1>2. PaceTypeOK'
  BY DEF IInv, PaceTypeOK, Pace, DeadlinePasses, Woken
<1>3. ActorTypeOK'
  BY DEF IInv, ActorTypeOK, Pace, DeadlinePasses, Woken
<1> QED BY <1>1, <1>2, <1>3, ClockAlone DEF IInv

LEMMA BeginKeeps ==
  ASSUME IInv, BeginFrame PROVE IInv'
<1>1. PaceTypeOK'
  BY Numbers DEF IInv, PaceTypeOK, BeginFrame
<1>2. SimTypeOK'
  BY DEF IInv, SimTypeOK, BeginFrame, ShouldSendNow, Due
<1>3. ActorTypeOK'
  BY DEF IInv, ActorTypeOK, BeginFrame
<1>4. Paced'
  BY DEF IInv, Paced, BeginFrame, ShouldSendNow, Due
<1> QED BY <1>1, <1>2, <1>3, <1>4 DEF IInv

(***************************************************************************)
(* A send moves the deadline on by a period, or to a period from now when  *)
(* it was overdue by more: in both cases at least to now.                  *)
(***************************************************************************)
LEMMA SendKeeps ==
  ASSUME IInv, SendToBrowsers PROVE IInv'
<1> DEFINE P == simPeriod
<1>1. /\ P \in Nat /\ P > 0 /\ P <= SimCap
      /\ simDue \in Int /\ simDue <= Slack /\ simDue >= NeverDue
      /\ sends[1] \in 0..SimCap
  BY Numbers DEF IInv, SimTypeOK, Paced, SendToBrowsers
<1>2. simPeriod' = P /\ simDue' = NextSimDue
  BY DEF SendToBrowsers
<1>3. sends' = [i \in 1..2 |-> IF i = 1 THEN 0 ELSE sends[1]]
  BY DEF SendToBrowsers
<1>4. sends'[1] = 0 /\ sends'[2] = sends[1]
  BY <1>3
<1>5. /\ NextSimDue \in 0..(P + Slack)
      /\ NextSimDue = P \/ NextSimDue = simDue + P
      /\ NextSimDue >= simDue + P
  BY <1>1, Numbers DEF NextSimDue
<1>6. sends' \in [1..2 -> 0..SimCap]
  BY <1>1, <1>3, Numbers
<1>7. SimTypeOK'
  <2>1. NextSimDue \in NeverDue..(P + Slack)
    BY <1>1, <1>5, Numbers
  <2> QED BY <1>2, <1>6, <2>1 DEF IInv, SimTypeOK, SendToBrowsers
<1>8. Paced'
  <2>1. sends'[1] + simDue' >= 0
    BY <1>1, <1>2, <1>4, <1>5, Numbers
  <2>2. sends[1] >= P \/ sends[1] + simDue >= 0
    BY DEF IInv, Paced
  <2>3. sends'[2] >= P \/ sends'[2] + simDue' >= P
    <3>1. CASE sends[1] >= P
      BY <3>1, <1>4
    <3>2. CASE sends[1] + simDue >= 0
      BY <3>2, <1>1, <1>2, <1>4, <1>5, Numbers
    <3> QED BY <2>2, <3>1, <3>2
  <2>4. loop' # "rendering"
    BY DEF SendToBrowsers
  <2> QED BY <1>2, <2>1, <2>3, <2>4 DEF Paced
<1>9. PaceTypeOK' /\ ActorTypeOK'
  BY DEF IInv, PaceTypeOK, ActorTypeOK, SendToBrowsers, pacing
<1> QED BY <1>7, <1>8, <1>9 DEF IInv

LEMMA FinishKeeps ==
  ASSUME IInv, SkipBrowsers \/ EndFrame \/ LoseNetwork PROVE IInv'
<1> USE DEF pacing, sim
<1>1. UNCHANGED simClock /\ UNCHANGED simActive /\ loop' # "rendering"
  BY DEF SkipBrowsers, EndFrame, LoseNetwork, BrowsersDone, simClock
<1>2. PaceTypeOK'
  <2>1. CASE SkipBrowsers
    BY <2>1 DEF IInv, PaceTypeOK, SkipBrowsers
  <2>2. CASE EndFrame
    <3>1. since' = 0 /\ sinceLeds' = 0 /\ kick' \in BOOLEAN
      BY <2>2 DEF EndFrame
    <3>2. since' \in 0..Cap /\ sinceLeds' \in 0..Cap
      BY <3>1, Numbers
    <3> QED
      BY <2>2, <3>1, <3>2 DEF IInv, PaceTypeOK, EndFrame, BrowsersDone
  <2>3. CASE LoseNetwork
    BY <2>3 DEF IInv, PaceTypeOK, LoseNetwork, BrowsersDone
  <2> QED BY <2>1, <2>2, <2>3
<1>3. ActorTypeOK'
  BY DEF IInv, ActorTypeOK, SkipBrowsers, EndFrame, LoseNetwork, BrowsersDone
<1> QED BY <1>1, <1>2, <1>3, ClockAlone DEF IInv

LEMMA BrowserKeeps ==
  ASSUME IInv, Browser PROVE IInv'
<1>1. PICK c \in Client : BrowserTakes(c) \/ BrowserFails(c)
  BY DEF Browser
<1>2. UNCHANGED simClock /\ UNCHANGED simActive /\ loop' # "rendering"
  BY <1>1 DEF BrowserTakes, BrowserFails, simClock
<1>3. PaceTypeOK' /\ ActorTypeOK'
  BY <1>1 DEF IInv, PaceTypeOK, ActorTypeOK, BrowserTakes, BrowserFails, pacing
<1> QED BY <1>2, <1>3, ClockAlone DEF IInv

(***************************************************************************)
(* The other actors act only while the loop is suspended.                  *)
(***************************************************************************)
LEMMA CallsKeep ==
  ASSUME IInv, KickAudio \/ Ask PROVE IInv'
<1> USE DEF pacing, sim
<1>1. PaceTypeOK' /\ ActorTypeOK'
  BY DEF IInv, PaceTypeOK, ActorTypeOK, KickAudio, Ask
<1>2. SimTypeOK' /\ Paced'
  BY DEF IInv, SimTypeOK, Paced, KickAudio, Ask
<1> QED BY <1>1, <1>2 DEF IInv

LEMMA ServeKeeps ==
  ASSUME IInv, Serve PROVE IInv'
<1>1. loop' = loop /\ loop' # "rendering" /\ request' = FALSE
  BY DEF Serve, Suspended
<1>2. ASSUME NEW p \in Period, SetTargetFps(p) PROVE IInv'
  <2>1. UNCHANGED simClock /\ UNCHANGED simActive
    BY <1>2 DEF SetTargetFps, sim, simClock
  <2>2. PaceTypeOK' /\ ActorTypeOK'
    BY <1>1, <1>2 DEF IInv, PaceTypeOK, ActorTypeOK, SetTargetFps, sim
  <2> QED BY <1>1, <2>1, <2>2, ClockAlone DEF IInv
<1>3. ASSUME NEW p \in SimPeriod, SetSimFps(p) PROVE IInv'
  <2>1. PaceTypeOK' /\ ActorTypeOK'
    BY <1>1, <1>3 DEF IInv, PaceTypeOK, ActorTypeOK, SetSimFps, pacing
  <2>2. sends' = [i \in 1..2 |-> SimCap]
    BY <1>3 DEF SetSimFps
  <2>3. sends' \in [1..2 -> 0..SimCap] /\ sends'[1] = SimCap /\ sends'[2] = SimCap
    BY <2>2, Numbers
  <2>4. p \in Nat /\ p <= SimCap /\ simPeriod' = p /\ simDue' = NeverDue
    BY <1>3, Numbers DEF SetSimFps
  <2>5. NeverDue \in NeverDue..(p + Slack)
    BY <2>4, Numbers
  <2>6. SimTypeOK'
    BY <1>3, <2>3, <2>4, <2>5 DEF IInv, SimTypeOK, SetSimFps
  <2>7. Paced'
    BY <1>1, <2>3, <2>4, Numbers DEF Paced
  <2> QED BY <2>1, <2>6, <2>7 DEF IInv
<1>4. ASSUME NEW paused \in BOOLEAN, PauseSim(paused) PROVE IInv'
  <2>1. UNCHANGED simClock /\ UNCHANGED simActive
    BY <1>4 DEF PauseSim, simClock
  <2>2. PaceTypeOK' /\ ActorTypeOK'
    BY <1>1, <1>4 DEF IInv, PaceTypeOK, ActorTypeOK, PauseSim, pacing
  <2> QED BY <1>1, <2>1, <2>2, ClockAlone DEF IInv
<1>5. ASSUME NEW c \in Client, AddClient(c) \/ RemoveClient(c) PROVE IInv'
  <2>1. UNCHANGED simClock /\ UNCHANGED simActive
    BY <1>5 DEF AddClient, RemoveClient, simClock
  <2>2. PaceTypeOK' /\ ActorTypeOK'
    BY <1>1, <1>5
    DEF IInv, PaceTypeOK, ActorTypeOK, AddClient, RemoveClient, pacing
  <2> QED BY <1>1, <2>1, <2>2, ClockAlone DEF IInv
<1> QED BY <1>2, <1>3, <1>4, <1>5 DEF Serve

(***************************************************************************)
(* Time: the sends age as the deadline comes nearer.                       *)
(***************************************************************************)
LEMMA TickKeeps ==
  ASSUME IInv, Tick PROVE IInv'
<1>1. PaceTypeOK'
  <2>1. since' \in 0..Cap
    BY Numbers DEF IInv, PaceTypeOK, Tick, Older
  <2>2. lastWall' \in 0..WallCap \cup {Absolute}
    BY Numbers DEF IInv, PaceTypeOK, Tick, Older
  <2>3. sinceLeds' \in 0..Cap
    BY Numbers DEF IInv, PaceTypeOK, Tick, Older
  <2> QED BY <2>1, <2>2, <2>3 DEF IInv, PaceTypeOK, Tick
<1>2. ActorTypeOK'
  BY DEF IInv, ActorTypeOK, Tick
<1>3. /\ simPeriod \in Nat /\ simPeriod <= SimCap
      /\ simDue \in Int /\ simDue >= NeverDue /\ simDue <= simPeriod + Slack
      /\ sends[1] \in 0..SimCap /\ sends[2] \in 0..SimCap
  BY Numbers DEF IInv, SimTypeOK
<1>4. sends' = [i \in 1..2 |-> Older(sends[i], SimCap)]
  BY DEF Tick
<1>5. sends'[1] = Older(sends[1], SimCap) /\ sends'[2] = Older(sends[2], SimCap)
  BY <1>4
<1>6. \A t \in 0..SimCap : Older(t, SimCap) \in 0..SimCap
  BY Numbers DEF Older
<1>7. sends' \in [1..2 -> 0..SimCap]
  BY <1>4, <1>6 DEF IInv, SimTypeOK
<1>8. /\ simDue' = (IF simDue > NeverDue THEN simDue - 1 ELSE NeverDue)
      /\ simPeriod' = simPeriod /\ simActive' = simActive /\ loop' = loop
  BY DEF Tick
<1>9. /\ simDue' \in NeverDue..(simPeriod + Slack)
      /\ simDue' <= simDue /\ simDue' >= simDue - 1
  BY <1>3, <1>8, Numbers
<1>10. SimTypeOK'
  BY <1>7, <1>8, <1>9 DEF IInv, SimTypeOK
<1>11. ASSUME NEW i \in 1..2, NEW bound \in Nat,
              sends[i] >= simPeriod \/ sends[i] + simDue >= bound
       PROVE  sends'[i] >= simPeriod \/ sends'[i] + simDue' >= bound
  <2>1. sends[i] \in 0..SimCap /\ sends'[i] = Older(sends[i], SimCap)
    BY <1>3, <1>5
  <2>2. CASE sends[i] = SimCap
    BY <2>1, <2>2, <1>3, Numbers DEF Older
  <2>3. CASE sends[i] # SimCap
    <3>1. sends'[i] = sends[i] + 1
      BY <2>1, <2>3, Numbers DEF Older
    <3> QED BY <3>1, <2>1, <1>3, <1>9, <1>11, Numbers
  <2> QED BY <2>2, <2>3
<1>12. Paced'
  <2>1. loop' = "rendering" /\ simActive' => simDue' <= Slack
    BY <1>3, <1>8, <1>9, Numbers DEF IInv, Paced
  <2>2. sends'[1] >= simPeriod \/ sends'[1] + simDue' >= 0
    BY <1>11 DEF IInv, Paced
  <2>3. sends'[2] >= simPeriod \/ sends'[2] + simDue' >= simPeriod
    BY <1>3, <1>11 DEF IInv, Paced
  <2> QED BY <1>8, <2>1, <2>2, <2>3 DEF Paced
<1> QED BY <1>1, <1>2, <1>10, <1>12 DEF IInv

LEMMA StepKeeps == IInv /\ [Next]_vars => IInv'
<1> SUFFICES ASSUME IInv, [Next]_vars PROVE IInv'
  OBVIOUS
<1>1. CASE Engine
  BY <1>1, PacingKeeps, BeginKeeps, SendKeeps, FinishKeeps DEF Engine
<1>2. CASE Next
  BY <1>1, <1>2, BrowserKeeps, CallsKeep, ServeKeeps, TickKeeps DEF Next
<1>3. CASE UNCHANGED vars
  <2>1. PaceTypeOK' /\ ActorTypeOK'
    BY <1>3 DEF vars, pacing, sim, IInv, PaceTypeOK, ActorTypeOK
  <2>2. SimTypeOK' /\ Paced'
    BY <1>3 DEF vars, pacing, sim, IInv, SimTypeOK, Paced
  <2> QED BY <2>1, <2>2 DEF IInv
<1> QED BY <1>2, <1>3

LEMMA InvariantHolds == Spec => []IInv
BY InitEstablishes, StepKeeps, PTL DEF Spec

(* Every variable of the loop keeps its type; in particular the browsers'
   deadline is never further away than a period and the slack. *)
THEOREM TypeCorrect == Spec => []TypeOK
<1>1. IInv => TypeOK
  BY DEF IInv, PaceTypeOK, SimTypeOK, ActorTypeOK, TypeOK
<1> QED BY <1>1, InvariantHolds, PTL

(* Three frames never reach the browsers within one of their periods, for any
   rates and after a stall of any length. *)
THEOREM BrowsersNotFlooded == Spec => NoBurst
<1>1. IInv /\ SendToBrowsers => sends[2] >= simPeriod - Slack
  <2> SUFFICES ASSUME IInv, SendToBrowsers
               PROVE  sends[2] >= simPeriod - Slack
    OBVIOUS
  <2>1. /\ simPeriod \in Nat /\ simDue \in Int /\ sends[2] \in Nat
        /\ simDue <= Slack
    BY Numbers DEF IInv, SimTypeOK, Paced, SendToBrowsers
  <2>2. sends[2] >= simPeriod \/ sends[2] + simDue >= simPeriod
    BY DEF IInv, Paced
  <2> QED BY <2>1, <2>2, Numbers
<1>2. IInv /\ [Next]_vars
        => [SendToBrowsers => sends[2] >= simPeriod - Slack]_vars
  BY <1>1
<1> QED BY <1>2, InvariantHolds, PTL DEF Spec, NoBurst

-----------------------------------------------------------------------------
(***************************************************************************)
(* The LEDs' leg.  What the loop takes for the age of the last frame is    *)
(* never more than the age of what the LEDs got; a frame that is under way *)
(* was begun no earlier than half a period after it.                       *)
(***************************************************************************)
LedsPaced ==
  /\ since <= sinceLeds
  /\ loop \in {"due", "rendering", "sending"} => 2 * sinceLeds >= period

pace == <<since, sinceLeds, period>>

(* A step that neither ends a frame nor makes one due. *)
LEMMA UnderWay ==
  ASSUME LedsPaced, UNCHANGED pace,
         loop' \in {"due", "rendering", "sending"}
           => loop \in {"due", "rendering", "sending"}
  PROVE  LedsPaced'
BY DEF LedsPaced, pace

LEMMA LedsPacedKeeps == IInv /\ LedsPaced /\ [Next]_vars => LedsPaced'
<1> SUFFICES ASSUME IInv, LedsPaced, [Next]_vars PROVE LedsPaced'
  OBVIOUS
<1> USE DEF pacing, sim
<1>1. /\ since \in Nat /\ sinceLeds \in Nat /\ period \in Nat
      /\ since <= Cap /\ sinceLeds <= Cap /\ Cap \in Nat
  <2>1. since \in 0..Cap /\ sinceLeds \in 0..Cap /\ period \in Period
    BY DEF IInv, PaceTypeOK
  <2> QED BY <2>1, Numbers
<1>2. CASE Pace \/ DeadlinePasses \/ Woken
  <2>1. UNCHANGED pace
    BY <1>2 DEF Pace, DeadlinePasses, Woken, pace
  <2>2. loop' = "due" => 2 * since >= period
    BY <1>1, <1>2 DEF Pace, DeadlinePasses, Woken
  <2>3. loop' \in {"due", "waiting", "pacing"}
    BY <1>2 DEF Pace, DeadlinePasses, Woken
  <2> QED BY <1>1, <2>1, <2>2, <2>3 DEF LedsPaced, pace
<1>3. CASE BeginFrame \/ SendToBrowsers \/ SkipBrowsers \/ Browser
  <2>1. UNCHANGED pace /\ loop \in {"due", "rendering", "sending"}
    BY <1>3 DEF BeginFrame, SendToBrowsers, SkipBrowsers, Browser, BrowserTakes,
                BrowserFails, pace
  <2> QED BY <2>1, UnderWay
<1>4. CASE EndFrame
  BY <1>4 DEF EndFrame, LedsPaced
<1>5. CASE LoseNetwork
  <2>1. UNCHANGED pace /\ loop' = "crashed"
    BY <1>5 DEF LoseNetwork, BrowsersDone, pace
  <2> QED BY <2>1, UnderWay
<1>6. CASE KickAudio \/ Ask \/ UNCHANGED vars
  <2>1. UNCHANGED pace /\ loop' = loop
    BY <1>6 DEF KickAudio, Ask, vars, pace
  <2> QED BY <2>1, UnderWay
<1>7. CASE Serve
  <2>1. UNCHANGED pace /\ loop' = loop
    BY <1>7 DEF Serve, SetTargetFps, SetSimFps, PauseSim, AddClient,
                RemoveClient, pace
  <2> QED BY <2>1, UnderWay
<1>8. CASE Tick
  <2>1. since' = Older(since, Cap) /\ sinceLeds' = Older(sinceLeds, Cap)
    BY <1>8 DEF Tick
  <2>2. /\ since' \in Nat /\ sinceLeds' \in Nat
        /\ since' <= sinceLeds' /\ sinceLeds <= sinceLeds'
    BY <1>1, <2>1 DEF Older, LedsPaced
  <2>3. period' = period /\ loop' = loop
    BY <1>8 DEF Tick
  <2>4. \A x, y, p \in Nat : 2 * x >= p /\ x <= y => 2 * y >= p
    OBVIOUS
  <2>5. 2 * sinceLeds >= period => 2 * sinceLeds' >= period
    BY <1>1, <2>2, <2>4
  <2> QED BY <2>2, <2>3, <2>5 DEF LedsPaced
<1> QED
  BY <1>2, <1>3, <1>4, <1>5, <1>6, <1>7, <1>8 DEF Next, Engine

(* However often the listener kicks and however long frames take, two frames
   reach the LEDs at least half a period apart. *)
THEOREM LedsKeptApart == Spec => LedsNotFlooded
<1>1. Init => LedsPaced
  <2> SUFFICES ASSUME Init PROVE LedsPaced
    OBVIOUS
  <2>1. period \in Period /\ since = period /\ sinceLeds = Cap /\ loop = "pacing"
    BY DEF Init
  <2> QED BY <2>1, Numbers DEF LedsPaced
<1>2. LedsPaced /\ [Next]_vars => [EndFrame => 2 * sinceLeds >= period]_vars
  BY DEF LedsPaced, EndFrame, BrowsersDone
<1> QED
  BY <1>1, <1>2, InvariantHolds, LedsPacedKeeps, PTL DEF Spec, LedsNotFlooded
=============================================================================
