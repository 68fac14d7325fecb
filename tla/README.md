# Verification of ledctl

TLA+ models, TLC runs and TLAPS proofs for **ledctl**, the controller of an
audio-reactive LED installation: a Python program (`src/src/ledctl/`) that
renders effects at up to 90 frames a second, sends them to WLED over DDP and to
browsers over websockets, follows an external audio analyser, and lets an
operator edit the picture by hand or by chatting with an LLM that writes
effects.

Paths are those of the repository under `src/`; `runtime.py` and the like are
under `src/src/ledctl/`.

    tlc -workers 2 -config audio.cfg AudioBridge     # a run, see "Runs"
    tlapm AudioProofs.tla                             # a proof module

## 1. The system

One asyncio event loop runs the render loop, the playlist task, the state
broadcaster and every HTTP and websocket handler. Code between two awaits is
atomic to all of them. Three kinds of threads run beside it: the OSC listener,
its watchdog, and a worker thread for each LLM call.

| part | state | operations | talks to |
|---|---|---|---|
| **render runtime** `surface/runtime.py` | live and preview compositions (layer lists and a selected index), the crossfade, health counters of every layer, mode, preview pacing, topology | install, remove, reorder, patch, select, promote, pull, swap topology; `render` once per frame | called by the engine, by API handlers, by the chat agent and the playlist |
| **chat agent** `api/agent.py`, `agent/session.py`, `surface/tool.py` | message buffer, transcript, rate window, `chat_epoch` | POST chat with retries, delete session; wiped by operator edits | LLM over HTTP (`agent/client.py`), preview leg |
| **playlist** `playlist.py` | entries, index, running flag, task, `playlist.yaml` | put, start, stop; the loop | live leg, effect library |
| **audio bridge** `audio/bridge.py`, `audio/state.py` | levels, `connected`, time of the last packet, beat counter | OSC handlers, watchdog | read by the engine every frame, kicks it |
| **frame loop** `engine.py` | last render, last wall time, kick event, target fps, beat latch | pace, render, send | runtime, transports, audio bridge |
| **transports** `transports/` | browser set, send deadline, pause flags | send, add and remove clients, rates | browsers, LEDs |
| **effect library** `surface/persistence.py` | a directory per effect: source and metadata | save, save values, star, rename, delete, install examples | API, playlist |
| **parameters** `surface/base.py`, `surface/schema.py` | the values of a layer under its schema | defaults, coerce, update, carry over | runtime, chat agent, library |
| **operator API** `api/server.py` | the application object | one handler per operation above, config write-back | all of them |
| **master output, calibration** `masters.py`, `runtime.py`, `pixelbuffer.py` | masters, blackout, calibration, peak envelope | applied to every frame | operator API, LED leg |
| **configuration, topology** `config.py`, `topology.py` | `config.yaml` with `.bak` and `.tmp`, the pixel map | validation, construction, write-back | operator API, runtime |
| **browser clients** `src/web/lib/` | chat log, remembered epoch, pending playlist | chat with a timeout, reconnecting state socket | API, state socket |
| **the rest** | | sandbox and schema of effects, helpers and palettes, system prompt, authentication, command line, audio-server supervisor, deployment | |

### What is hard about it

* **Interleavings on one event loop.** A chat request awaits the LLM for up to
  a minute between reading the preview and writing it; the playlist sleeps in
  slots over a list the operator edits; the frame loop waits for browsers
  while everyone else runs.
* **Threads without locks.** Listener, watchdog and event loop share one
  `AudioState`.
* **Aliasing.** A crossfade keeps the layer objects of the stack it fades
  from, and shares those that are still live; the legs must share none.
* **Long legal sequences.** Edits of two lists with a selected index each,
  trims of a chat buffer with variable-length turns, health counters that two
  rules feed.
* **Time.** Deadlines after stalls, kicks at 187 Hz against frames at 60 Hz,
  a watchdog that polls, a rate window, a crossfade that must end.
* **Files written in place.** An effect is two files and a configuration three;
  a crash or a full disk may cut any write off, and the next boot reads what
  is there.
* **Names.** Layers, library and playlist know an effect by its name only, and
  every slider drag is written to disk under that name.
* **Failures.** Effects that raise or overrun, effects that no longer compile,
  browsers that go away in mid-frame, an audio feed that stops and returns, a
  restart, a network that is lost in the middle of a frame.

PROJECT.json lists these as hazards, each at its line with the properties
that would notice it going wrong.

### What makes each part correct

* *Runtime*: selections denote layers; legs share nothing; every live edit
  fades from what was live; no layer outlives its topology; overloaded layers
  go dark and stay dark; crossfades end; a promote looks identical.
* *Chat*: every history sent is one the LLM API accepts and agrees with the
  transcript; a write lands on the layer the prompt showed; the rate limit
  holds; browsers hear of every wipe; every request ends.
* *Playlist*: one driver at a time, so that its tasks make one player; every
  playable entry comes round; a restart brings back the list that was last
  acknowledged.
* *Audio bridge*: outages are noticed in time; a feed that returns is shown;
  onsets and flashes correspond.
* *Frame loop*: frames keep coming; requests get their turn; neither leg
  bursts; time steps are bounded.
* *Output*: the controller shows whole frames; the gain clips no highlight;
  blackout reaches every pixel of the rig.
* *Library and parameters*: a layer follows the saved effect it came from; no
  value is outside its control; what was saved loads as it was left, whatever
  was interrupted elsewhere; the bundled examples come back, and a boot shows
  its effect.
* *Configuration*: it is stored whole or not at all, and what runs is what a
  restart restores; every LED is at the pixel its controller sends to it.

## 2. Modules

| module | models | state and actions |
|---|---|---|
| `LayerHealth` | one layer and one `render()` call of it: budget statistics, trip, three strikes (`runtime.py` 108-162, 552-596) | pure operators; `RenderLayer(l, outcome)` is the loop body |
| `LayerStack` | the layer list with its selected index, and each edit of it (`runtime.py` 165-183, 335-379, 750-764) | pure operators, shared by `Runtime` and `ChatAgent` |
| `Runtime` | `class Runtime` | layers are objects: `heap` maps identities to records, `comp` and `cf` hold identities. One action per method: `ReplaceLayer` and `InsertLayer` (install_layer), `RemoveLayer`, `ReorderLayer`, `PatchLayerMeta`, `SelectLayer`, `Promote`, `PullLiveToPreview`, `SetMode`, `SetCrossfadeSeconds`, `SwapTopology`, `Render` |
| `ChatAgent` | chat requests, session, wipes | the locals of each request in flight are `chat[r]`; `PostChat` runs to the first LLM call, `ReceiveReply` from one call to the next (tool calls, `Retry` or `RecordTurn`), `FailCall`, `MissKey` and `MisfitCarry` (requests that leave no trace); the preview edits that wipe (`WipingEdit`) and those that do not (`QuietEdit`) |
| `Playlist` | the loop task, its operator, the library under it, `playlist.yaml` | `task[t]` is where each asyncio task is suspended, cancelled ones included; `Resume(t)` is one slice; `PutPlaylist` replaces the list and then does `Save`, which may fail |
| `AudioBridge` | listener, watchdog, `_build_audio_view` | a step of a thread reads or writes one shared field: `OnLmh`/`OnMeta` then `MarkPacket`; `WatchdogTests`, `WatchdogDisconnects`, `WatchdogComplains`; `LatchBeat`, `ReadBands`; `OnBeat`; `Tick` |
| `FrameLoop` | `Engine._loop` and the two legs of the transport | `Pace`, `DeadlinePasses`, `Woken` (waiting), `BeginFrame`, `SendToBrowsers`/`SkipBrowsers`, `BrowserTakes`/`BrowserFails`, `EndFrame`/`LoseNetwork`; `KickAudio`; `Ask`/`Serve` (an operator request, of whatever kind, and its turn); `Tick` |
| `Output` | from the rendered frame to the LEDs: gain and peak envelope, blackout, calibration, encoding, DDP packets, the controller | `Render`, `BeginSend`, `SendPacket` (one packet, and what the controller does with it), `NetworkFails`; `PostBlackout`, `SetBrightness`, `PauseTransport`, `SwapTopology`, `CalibrationSolo`, `CalibrationWalk`, `CalibrationStop` |
| `Params` | the controls of a schema and what `_coerce`, `update` and `set_initial_values` make of a value (`base.py`, `schema.py`) | pure operators |
| `Library` | `EffectStore`, the handlers that use it, and the names and values of the layers on the rig | each operation is the sequence of its file-system steps (`SaveSteps`, `RenameSteps`, ...), of which all are taken or, when `Interrupt`ed, a prefix: `SavePreview`, `RenameEffect`, `DeleteEffect`, `StarEffect`, `LoadEffect`, `PatchParams`, `Promote`, `PullLiveToPreview`, `WriteEffect`; `Crash`, `InstallExample`, `Boot` |
| `Topology` | which lists of strips are accepted, the LED of every pixel, the walk of u_loop (`config.py`, `topology.py`, `frames.py`) | pure operators |
| `Installation` | the configuration file, its backup and its temporary, the server's config, built topology and masters | `Start`, `Crash`, `PutConfig`, `PatchMasters`, `PersistMasters`; `WriteSteps` is `_write_config_yaml`, step by step |
| `Stage` | abstract: two stacks of layers as values, and a fade between looks | implemented by `Runtime` |
| `Conversation` | abstract: requests that are asked and end, a transcript, an epoch | implemented by `ChatAgent` |
| `Player` | abstract: one player going round a list, and the list that outlives it, without tasks or files | implemented by `Playlist` |
| `ConfigRegister` | abstract: a register with a layout and knobs, seen whole | implemented by `Installation` |
| `MCRuntime`, `MCChatAgent`, `MCPlaylist`, `MCLibrary`, `MCInstallation`, `MCOutput` | instances for TLC: a view, the replies of the LLM, the lists of the operator, schemas and values, layouts, levels | |
| `RuntimeProofs`, `ChatProofs`, `PlaylistProofs`, `AudioProofs`, `FrameProofs`, `LibraryProofs`, `InstallationProofs`, `OutputProofs` | theorems and proofs | |

`Runtime` EXTENDS `LayerHealth` and `LayerStack`; `ChatAgent` EXTENDS
`LayerStack`; `Library` EXTENDS `Params`; `Installation` EXTENDS `Topology`.
Four modules instantiate what they promise: `Runtime` `Stage` (a stack is what
the heap holds at its identities), `ChatAgent` `Conversation` (the requests that
wait, and `sess.turns`), `Playlist` `Player` (the slot of the current task, and the file) and
`Installation` `ConfigRegister` (the file and the running server).

Other parts meet in one call each, and a module takes the other side's steps
as something that may happen at any time. `FrameLoop` and `Runtime` meet at
`render`: `Runtime` lets any time pass between frames and any browser watch,
which is more than `FrameLoop` does. `Output` begins where `Runtime`'s blend
ends and draws any frame. `ChatAgent` and `Playlist` take edits of the stacks
and of the library as what anyone may do. `Library` holds one layer a leg, the
one an operation addresses; the lists around it are `Runtime`'s.

Definitions marked *Mutant* in a comment are plausible bugs of the definition
that follows them. For each property one of them, put in the place of the
right definition, makes TLC find the property violated; PROJECT.json lists the
pairs.

### Abstractions

* **Runtime.** Pixels, names, sources and parameters are left out; a render
  time is within or over budget, an opacity zero or above. `failures` and
  `over` saturate at the limits they are compared with. Crossfade age counts
  clock units from the first frame, which stamps it. Objects without a
  reference are collected, and a new one takes the least free identity.
  Each operation and each frame is atomic because none of them awaits.
* **ChatAgent.** A message is its role, its request and its tool calls. A
  prompt is the layer it shows. `MissKey` may happen on any first attempt; in
  the code only before the client is first built. `MisfitCarry` may happen
  whenever there is a layer to replace; when it does in the code is a matter
  of `Params`. The rate window assumes a clock that does not step back (the
  code reads `time.time()`).
* **Playlist.** A slot is counted in slices, the one-second sleeps of the
  loop. A rename is a save and a delete. A save of the list that fails, or is cut
  off, leaves the file as it was: it writes a temporary that no start reads.
* **AudioBridge.** The three band levels are one, written at once (the code
  accepts a torn read), the reactivity master is above zero, and time passes
  only when no thread is between two assignments. `start`, `stop` and the
  31-bit wrap of the beat counter are left out.
* **FrameLoop.** Rendering and sending take any time. The instructions
  between the end of a frame and the next wait take none. The LED leg's pause
  flag is in `Output`. `perf_counter` and `monotonic` are one clock.
* **Output.** A pixel is one grey level: saturation leaves greys alone, and
  the envelope asks for the greatest level only. Levels and the release of
  the envelope are integers, a gain is a fraction, the gamma table is a
  constant. The packets of a frame are sent without an await, so only the
  network comes between them, by failing; the silent loss of a datagram is
  not covered.
* **Params, Library.** Numbers count halves, so that `int()` has something to
  cut off; of a text only what `_coerce` asks of it is kept. A source is a
  version with the schema it declares; a torn file is one kind of file, which
  does not load. Whether a source under another version's schema passes the
  fence test is a choice. `damaged` is a history variable: names whose last
  write was cut off or came from a layer that was never theirs. Faults come
  after any write, truncation or removal; reordering by the file system
  itself is not covered.
* **Topology, Installation.** Of a strip's geometry only the bucket of the
  walk and the x of its end are kept. Of a configuration: strips, masters, and
  whether the auth block is there. An edit of the file by hand counts only
  before the first start.

## 3. Runs

| run | distinct states | properties | shows |
|---|---|---|---|
| `runtime_compositions` | 57,596 | TypeOK, FitsTopology, SelectedInRange, Isolated, IsStage | every sequence of edits, promotes, pulls, swaps and frames over stacks of two; the refinement of `Stage` |
| `runtime_progress` | 15,148 | CrossfadeSettles, OverloadedLayersGoDark | liveness under a running render loop |
| `chat` | 242,685 | TypeOK, AcceptableHistory, MemoryMatchesTranscript, RateLimited, PromptIsCurrent, IsConversation, ChatEnds | two requests at once, retries, trims, wipes, a full rate window, a busy operator; the refinement of `Conversation` |
| `playlist` | 205,632 | TypeOK, IsPlayer, EveryEntryPlays | starts, stops, edits and restarts around the loop, saves that fail, cancelled tasks that linger; the refinement of `Player` |
| `audio` | 46,464 | TypeOK, OutageIsNoticed, NoPhantomFlash, FeedReturns, EveryOnsetFlashes | three threads, field by field |
| `frames` | 151,632 | TypeOK, FramesKeepComing, RequestsAreServed, LedsNotFlooded, NoBurst | kicks, stalls, failing browsers, rate changes |
| `library` | 424,670 | TypeOK, FollowsItsEffect, ParamsFit, StoredEffectsLoad, BundledComeBack | saves, renames, deletes, drags, loads, promotes and boots, one of them cut off at any step |
| `installation` | 122,678 | TypeOK, EveryLedOnce, BackupIsPrevious, IsRegister | every small layout, edits of it, knobs, two faults at any step of a write; the refinement of `ConfigRegister` |
| `output` | 859,152 | TypeOK, ControllerShowsWholeFrames, HighlightsSurvive, BlackoutReachesTheRig | frames of one and two packets, all knobs, a failing network |
| `reenable` | violation | ReenableTakesHold | finding 1 |
| `first_frame` | violation | DtIsClamped | finding 2 |
| `drags` | violation | DragsStayHome | finding 3 |

### Bounds, and why they are enough

* **Runtime.** `MaxLayers` 2 gives removals below, at and above the selected
  layer, reorders that move it and swaps that drop either layer or both.
  `LayerId` has one identity per layer of both legs and of a fading stack, so
  that the pool never constrains an edit. The counters' limits (3, 60 and 30
  in the code) are 1 or 2: what matters is whether the next sample reaches a
  limit or not. Each run enables the outcomes and modes its question needs;
  `runtime_compositions` leaves health out, `runtime_progress` puts it in on
  stacks of one. A frame comes 1 to `MaxGap` clock units after the last; a
  duration of 1 lets a fade survive a frame. `MaxAccum` saturates the
  preview's dt. The VIEW `Canonical` replaces each identity by the place of
  its first reference: two states with the same view differ by a renaming of
  identities, and no action or property mentions an identity otherwise; what
  IsStage maps a state to is a function of the view.
  `runtime_progress` checks liveness and therefore uses no view.
* **Chat.** Two requests suffice for turns to interleave; two transcript
  entries with a memory of one turn suffice for a trim; one retry for a turn of
  several assistant messages; replies of no, one and two calls. One wipe at
  any moment separates before from after. Two admissions a minute against two
  requests, a refusal and a clock that passes the boundary age. A preview of
  at most one layer already changes what the prompt showed by every load,
  pull, removal and swap; for longer stacks and all other bounds, PromptIsCurrent
  and the histories are proved (section 5). `MaxTurns` and `MaxEpoch` bound how
  long it goes on.
* **Playlist.** The empty list, lists of one and of two of three effects, one
  of them broken and first, last or absent, any of them deleted: an edit
  empties the list, shortens it under the index or changes what is there. Any
  number of saves may fail. Two tasks, so a cancelled one can overlap a new
  one; slots of two slices, so stops and edits hit a slot in the middle, and
  of one.
* **Audio.** The threshold is twice the poll, as in the code; ages saturate
  just above every test; three onsets let two share a frame.
* **Frames.** LED periods of 1 and 3 units and a browser period of 4: the LED
  leg both faster than and out of step with the browser leg, half a period
  both below and above one unit. Elapsed times saturate at or above every
  threshold (`Cap`, `SimCap`, `WallCap`), a deadline in the past at `NeverDue`,
  beyond where the code resets it.
* **Library.** Two names, one of them bundled, so a rename has somewhere to go
  and an effect another to collide with; two sources that share keys under
  other controls, so that carried values are clamped, replaced or refused; a
  patch with an unknown key and one that fails half-way. `MaxFaults` 1: one
  operation cut off anywhere, with any sequence of operations and boots
  before and after it.
* **Installation.** Any two strips on two controllers, any three on one, in
  any order and with gaps, contact and overlap, and a repeated id; the editor
  PUTs a smaller layout, one in reverse order and one that overlaps. Two
  knobs, one of them also turned beyond its limit. `MaxFaults` 2: a fault
  during the repair of a fault.
* **Output.** A rig of two pixels (one packet) and of three (two packets).
  Levels in quarters, brightness below and above 1.0, a half-life of one time
  unit; `MaxTime` 2 bounds the engine's clock, at which it stays.

### Fairness

* `Runtime`: WF of `Frame`. `Engine._loop` calls `render` as long as the
  process runs and the network is there (`FrameLoop`, FramesKeepComing).
* `ChatAgent`: WF of `LLMAnswers(r)`. `request_timeout_seconds` bounds an LLM
  call, which then answers or raises.
* `Playlist`: WF of `Resume(t)`. The event loop resumes a task whose sleep is
  over.
* `AudioBridge`: WF of the listener's second half, of the watchdog, of the
  frame and of time. Nothing is assumed of the audio server: FeedReturns has
  the return of the packets as its premise.
* `FrameLoop`: WF of the engine's own steps; WF of the browsers, since the
  websocket keepalive drops one that stopped reading, at which its send
  raises; SF of `Serve`, since the event loop runs ready callbacks in the
  order they became ready, so a request that is ready whenever the loop is
  suspended gets its turn; SF of `Tick`, since time passes while the loop
  waits. Nothing is assumed of kicks, which may come without end.
* `Output`: WF of `RenderAny`, `BeginSend` and `SendPacket`, the steps of the
  render loop, which come as FramesKeepComing says. Nothing is assumed of the
  operator or the network: BlackoutReachesTheRig has an operator who leaves
  blackout on, and a loop that lives, as its premise.

`Library` and `Installation` assume no fairness; FramesKeepComing has the loss
of the network as its way out. Deadlock is checked everywhere but in
`installation`, where a configuration that does not validate never starts.

PromptIsCurrent leaves out the requests that an edit without a wipe disturbs
(a layer removed or moved, a topology swap; see the divergences): it says that
nothing else changes the layer under a prompt.

## 4. Findings

1. **A re-enabled layer goes dark again** (`runtime.py` 572). The budget trip
   clears `tripped` only; the window and `over_budget` keep their values, so
   the first frame after the operator's re-enable, however fast, trips it
   again. The comment says "one-shot — operator can re-enable".
2. **The first frame runs backwards** (`engine.py` 224, 264). `last_wall`
   starts as a clock reading and is subtracted from an elapsed time; the clamp
   has no lower bound. A test documents that "the engine code clamps dt"
   (`tests/test_hardening.py` 188).
3. **A drag overwrites an effect it never came from** (`server.py` 811).
   PATCH params writes all values of the selected layer under the layer's
   name. When the LLM names an effect like a saved one, the first drag writes
   the new effect's values into the saved one's yaml. `server.py` 647-650 says
   drags must not "quietly overwrite a different on-disk effect", `tool.py`
   153-155 that LLM-authored effects are "intentionally NOT persisted".

### Divergences without a run

Seen while modelling, each by reading code against the words quoted.

Runtime and frame loop:

* in a crossfade a shared layer is struck twice a frame (`runtime.py` 561), while 593
  logs "failed %d frames in a row";
* the preview's dt accumulates while nobody watches and is handed to a layer
  installed later (`runtime.py` 653, 217);
* the first frame in design mode may be a skipped one (`runtime.py` 657, 214);
* promoting an effect that cannot be copied re-enables it (`runtime.py` 848, 879);
* a lost network ends the render loop for good (`ddp.py` 58, `engine.py` 325;
  `docs/implementation_roadmap.md` 125: "Render loop should never block on a
  missing transport"). `Engine.stop` then raises the same error again, and
  what the shutdown does after it, stopping the audio bridge and closing the
  transport, is skipped;
* blackout is not black while calibrating (`README.md` 282 and 443 against
  `runtime.py` 638-642: calibration is drawn after blackout), and pixels beyond
  a topology that shrank stay lit. BlackoutReachesTheRig excludes both.

Chat:

* the LLM's write lands on whatever layer is selected when the reply comes,
  not on the one the prompt showed (`agent.py` 180, `prompt.py` 369, 376);
* removing or reordering preview layers and swapping topology change the
  layer the LLM works on without a wipe (`server.py` 705, 863, 875);
* a chat in flight over a wipe appends its turn to the clean session
  (`agent.py` 246, `session.py` 15);
* an attempt that installed its effect is repeated when a stray second tool
  call failed (`agent.py` 206, `config.py` 297); `topology` of the first attempt
  is used in the prompts of later ones (`agent.py` 127);
* a carried value that the new control refuses ends the request with a 500 and
  no turn (`tool.py` 142);
* `turns` grows until the next wipe (`agent.py` 256);
* the browser gives up after 90 s while the server goes on retrying
  (`main-desktop.js` 1287); `chat_epoch` restarts at 0 with the server, so a
  browser may miss that its session is gone (`main-desktop.js` 1676).

Playlist and library:

* replacing the playlist takes effect at the end of the slot, and
  `current_name` meanwhile names the wrong entry (`playlist.py` 143-146);
* an edit of the playlist whose save fails is answered with a 500 and in force
  all the same, until the next start (`playlist.py` 81-84, `server.py` 899);
* renaming an effect leaves its old name in the playlist (`server.py` 670);
* slots and the rate window are measured by `time.time()`, which may step
  (`playlist.py` 145, `session.py` 90);
* saving over a starred effect drops the star (`persistence.py` 119); a deleted
  example returns at the next boot (`persistence.py` 193, "on first boot" at 9);
* an example whose yaml was torn counts as existing and is never installed
  again; a directory left behind by a cut-off delete blocks its name for
  renames;
* after finding 3 the saved effect may no longer load, and if it is the boot
  effect both slots stay empty;
* a colour control accepts any text of the right length, "#ice" for one.

Audio and configuration:

* when the feed is lost the last levels stay and reach every frame (`bridge.py`
  265, `engine.py` 186-194), where `prompt.py` 308 promises "bands will be 0.0" and
  `config.py` 211 "the engine reverts to non-reactive output";
* `_on_meta` counts as a heartbeat (`bridge.py` 229; `config.py` 211: "if no
  `/audio/lmh` packet arrives");
* the onset of the frame in which the 31-bit beat counter wraps is lost
  (`bridge.py` 240, `engine.py` 176);
* writing the configuration back drops the auth block and makes the working
  directory absolute (`server.py` 226-237);
* strips are checked for overlap per controller, laid into one list of LEDs
  whatever their controller, and only the first controller is driven:
  EveryLedOnce is about a rig on one controller;
* u_loop ignores `reversed` (`frames.py` 28), and the gaps between strips count
  in the bounding box.

## 5. Proofs

tlapm checks every theorem below for all values of the constants that satisfy
the ASSUMEs of the modules (positive limits and periods, bounds that are
naturals, saturation at or above every period, schemas as `WriteEffectArgs`
accepts them, tables with the right ranges). No other assumption is made.

* **RuntimeProofs** — `TypeCorrect`, `SelectionCorrect`, `IsolationCorrect`,
  `TopologyCorrect`, `EditsFade`, `Implements` (`Runtime` implements `Stage`).
  The invariant is the conjunction of the first four properties:
  isolation needs the types of what it indexes, `FitsTopology` needs isolation
  so that a clone is written to identities nobody else refers to, selections
  need the lengths. Lemmas about InsertAt, RemoveAt and ReplaceAt say what an
  edit does to the elements of a stack and that it stays injective; `EditKeeps`
  reduces each edit of a stack to its set of elements, `CloneKeeps` does the
  same for promote and pull, and `RenderKeeps` shows that a frame only rewrites
  health records. `EditsFade` goes through the edits: each builds a new stack for
  one leg and starts the fade from the old one. For `Implements` every edit is
  one of two kinds, the installation of a new layer (`Installs`) or a
  rearrangement of old ones (`Rearranges`). `SameLooks` is the link to stacks
  of values: a stack looks the same as long as the records it refers to do, and by
  isolation a patch, a clone or a frame writes no record of the other leg. A frame
  may switch a layer off and nothing else (`RenderLayerDims`), also one that two
  stacks share and that is rendered twice.
* **ChatProofs** — `TypeCorrect`, `HistoryAcceptable`, `MemoryTrue`, `RateKept`,
  `PromptTrue`, `AttemptsCounted`, `Implements` (`ChatAgent` implements
  `Conversation`). AcceptableHistory is not inductive: `Buffers`
  adds that what each request carries is acceptable by itself and not empty.
  A trim cuts at a user message, because a walk from the end meets every count
  of user messages (`TrimCuts`, by the least-element principle); the suffix of
  an acceptable buffer from a user message on is acceptable
  (`SuffixAcceptable`), and so is one followed by another (`ConcatAcceptable`).
  `MemoryTrue` compares buffer and transcript from their ends, so that no
  induction over either is needed: a turn that is recorded adds one user message
  and one answered entry at the end and moves all others one place further
  (`AnsweredTurnIsRemembered`), and a trim keeps the counts of what it keeps
  (`TrimKeepsTheLast`). It needs that what a request carries asks once, and first
  (`Recollection`).
  `Window` says that the admissions of the last minute are the rate window
  without its expired front, and that both run from old to new.
  `AttemptsCounted` is the part of ChatEnds that takes no fairness: an answer ends
  its request or uses up an attempt, and nobody gives one back.
* **PlaylistProofs** — `TypeCorrect`, `OneDriverAlways`,
  `AcknowledgedStored`, `Implements` (`Playlist` implements `Player`). OneDriver is inductive
  with the types: a task is created only when none runs, and what stop()
  forgets it has cancelled. `Implements` needs its converse too, that the
  current task drives as long as the playlist runs (`Driven`): then every step
  of the current task is one of the player's, and any other task that wakes up
  ends unseen. The file need not hold the list: a save may fail, and the player
  keeps the last list that was acknowledged. `AcknowledgedStored` says when
  the two agree: from an acknowledged edit or a restart until a save fails.
* **AudioProofs** — `TypeCorrect`, `OutagesNoticed`, `FlashesHaveOnsets`.
  OutageIsNoticed is not inductive: `Watched` adds what a connected feed owes
  at each of the watchdog's steps (while it waits, the age is at most the threshold
  plus the time since its last test). `Latched` orders flashes, latch
  and counter.
* **FrameProofs** — `TypeCorrect`, `BrowsersNotFlooded`, `LedsKeptApart`.
  `Paced` relates the ages of the last two sends to the browsers to the
  deadline: the last is as old as the deadline is overdue, the one before it a
  period more, unless they are old enough anyway; a send moves the deadline
  by a period, from now when it is far behind, and keeps both. `LedsPaced`: what
  the loop takes for the age of the last frame is never more than what the LEDs
  have seen, so that half a period of it is half a period for them.
* **LibraryProofs** — `TypeCorrect`, `LayersFollow`, `ValuesFit`,
  `SavedLoads`, `RigComesUp`. A coerced value fits its control (`CoerceFits`) and a value
  that fits is its own coercion (`CoerceKeeps`), so what a layer holds may go to
  the disk and come back. `Homes` ties each layer to the effect it came from: unless
  a write was cut off, that effect is there in full, with the layer's schema,
  under the layer's name. Each operation keeps it because a save, a rename
  and a delete tell every layer that came from the directory they change.
* **InstallationProofs** — `TypeCorrect`, `BackupCorrect`, `Implements`
  (`Installation` implements `ConfigRegister`), `NeighboursSuffice`,
  `LedsInPlace`, `WalkInOrder`, `LedsCorrect`. `WriteIsAtomic` says that, whatever
  cuts a write off, `config.yaml` is whole, the old configuration or the new
  one. Once the new one is in place the backup is a copy of the old one; a write
  cut off before that leaves the backup as it was, torn, or a copy of the file.
  `Agreement`, that the running server
  and the file have the same strips and stored knobs. With these each
  action is one step of the register, or none. The last four are about any list of
  strips with natural offsets and positive counts: of the strips after one in
  the sorted order there is a nearest (`NextNeighbour`, by counting those in
  between), and the overlap check compares with it; so pixels have one strip,
  and `from_config` gives each LED its own. An LED's rank in the walk of u_loop
  is the number of LEDs passed before it: ranks grow strictly along the walk and
  run from 0 to one below the number of LEDs, so that no rank is given twice or
  left out (`WalkInOrder`). `LedsCorrect` puts both together for every reachable
  state (EveryLedOnce).
* **OutputProofs** — `TypeCorrect`, `WholeFramesShown`, `HighlightsKept`,
  `BlackoutLasts`. While
  a frame is on its way the controller has every byte before the next packet
  (`Received`), so that what it shows at PUSH is that frame. No highlight is
  clipped because the envelope is at least the frame's greatest level when the
  gain is taken, and the lifted peak is at most full (`TargetBounded`).
  `BlackoutLasts` is the part of BlackoutReachesTheRig that takes no fairness:
  level 0 stays 0 through gain and encoding (`BlackDraws`), so that a blackout
  waits for one frame of its topology to be sent to its end, and then holds.

Every invariant, action property and refinement that a run checks is proved.
Only model-checked is what is out of the prover's reach, liveness under
fairness and whatever needs ENABLED: CrossfadeSettles, OverloadedLayersGoDark,
ChatEnds, EveryEntryPlays, FeedReturns, EveryOnsetFlashes, FramesKeepComing,
RequestsAreServed and BlackoutReachesTheRig. So are the three findings, which
are counterexamples.

## 6. Plan

Done: the runtime as a refinement of a stage, the chat agent of a conversation,
the playlist of a player and the configuration, with its topology, of a
register; the audio bridge and the frame loop; the library with its faults and
its parameters; the output to the controller. Each has its proofs.

Left, in order:

1. `Library` composed with `Playlist`: the names in the list after a rename.
2. A browser's side of a conversation: its 90 s timeout against the server's
   retries, `chat_epoch` over a server restart, composed with `ChatAgent`.
3. What the other liveness properties owe to safety, as AttemptsCounted and
   BlackoutLasts state it for theirs: that a frame ages a fade, that a strike
   brings a layer nearer to dark, that a served request gives way.
4. Two controllers, once the program drives more than the first.
5. The audio-server supervisor with the shutdown order of the application.

## 7. Not modelled

Effect code and the sandbox (arbitrary Python: its outcome is a choice);
helpers, palettes and the frames other than u_loop, blending, saturation and
dithering (floating-point arithmetic without control); the prompt's text;
authentication (stateless); the command line; the audio-server supervisor (its
process may do anything in `AudioBridge`); the browsers' own state; static
files and diagnostics; deployment units and the calibration script. Of modelled
parts: metadata and bpm of the audio feed, fps statistics, starting and
stopping the engine and the bridge, the websocket that broadcasts state, PATCH
of the agent's configuration.
