# Spectrum Jetson: specifications

TLA+ models of the two programs in this repository that keep state for long: the
detector library of the vision coprocessor (a Jetson that runs PhotonVision with
this team's GPU detectors, scripts and patches), and the training site (a page of
twenty chapters whose labs are small simulations of that system, each with its own
timers, frames and observers); the TLC runs that check them on small instances, and
the TLAPS proofs of what matters most for every instance.

    tlc -workers 2 -config detector_locks.cfg MCGpuDetector   # one run
    tlc -workers 2 -config training_site.cfg MCTrainingSite   # the site
    tlapm GpuDetectorProofs.tla                               # one module's proofs

`PROJECT.json` lists the components, the runs, the lines each definition models
(`map`), the hazards and the properties aimed at them, the mutants (a plausible
bug for every property, which TLC must find) and the findings.

## 1. The coprocessor and the robot code

| Part | Source | State it keeps | Modelled |
|---|---|---|---|
| GPU detector slots and locks | `detector/GpuDetectorJNI.cc` | slots (detector, settings, flags), `alloc_mu`, the slots' `mu`, `cuda_capture_lock`, `gpu_mu` | `GpuDetector` |
| CUDA watchdog | the same, `RecordFailure`; the systemd unit in `scripts/jetson/09-robot-tuning.sh` | failures in a row, time of the first | `CudaWatchdog` |
| GPU input frame pool | the same, `gpu_frames` | 24 slots, one note per decode thread | `GpuFramePool` |
| NVJPG decoder and checker | the same, `NvJpgDecoder.cc` | places taken, fallback switches, checker's job | partly: pool and capture lock |
| Stream decode | `detector/stream_decode.cc` | watchers (a thread per camera device), their frames, a ring of results, a sink | `StreamDecode` |
| Far-tag search | `detector/far_search.cc` | per camera times and turns; one shared detector | no |
| Object detection | `detector/trt_yolo.cu`, `TensorRtYoloJNI.cu` | networks by handle | its use of the capture lock |
| NAPA detector | `detector/napa/` | an alternative build | its band sink, in `StreamDecode` |
| Robot vision loop | `robot-vision/.../VisionSystem.java`, `gate/` | gates with memory, accepted observations | no |
| Tag quality matching | `robot-vision/.../io/TagQualityMatcher.java` | pending frames | no |
| Health alerts | `robot-vision/.../health/VisionHealth.java` | first values, latched alerts | no |
| Mount check, solvers, trust model, codec, logging, simulation | `robot-vision/` | windows and statistics | no: floating-point numbers |
| Clock tiers | `scripts/jetson/spectrum-clocks.sh`, `spectrum-quiet.sh` | clocks, marker files, the guard | no |
| USB watchdog | `scripts/jetson/usb-watchdog.py` | reset counters | no |
| Fan, Wi-Fi and data services | `scripts/jetson/` | a line of state each | no (small) |
| Read-only root, installation, firmware jobs | `scripts/jetson/` | files | no (sequential scripts) |
| PhotonVision and detector patches | `patches/` | code that is not in this repository | external |
| Training site | `training/js/` | see 2 | see 2 |
| Tests, tools | `tests/`, `tools/` | none of the running system | no |

### How the parts interact

* PhotonVision (Java) calls the detector library by JNI. Each camera has a
  *vision thread* (`processimage`, `setMask`, `setparams`) and a *decode thread*
  (`decodeMjpegGray` / `decodeMjpegBgr`); settings changes and pipeline switches
  create and destroy slots.
* Everything that touches CUDA meets at the *capture lock*: shared for normal
  work, exclusive for the moment a CUDA graph is recorded, because a recording
  is broken by, and breaks, the work of any other thread.
* The decode thread leaves each frame on the GPU; the vision thread finds it
  there through the pool, or uploads its own copy.
* With streaming on, a *watcher* per camera decodes each frame while the driver
  fills its buffer and feeds the rows to the *band sink* of the detector that took
  its last frame; the decode thread looks the frame up among the watcher's results,
  the vision thread takes the sink's detections.
* A failure inside a call costs that frame only: the slot is rebuilt by the next
  one. If CUDA itself is broken for the process, the process exits and systemd
  starts it again.
* Robot code reads the results by NetworkTables, judges them (gates), sorts them
  and hands them to the pose estimator.

### What is hard, and the properties that answer it

* **Four locks and a window.** `processimage` takes a slot, the capture lock and
  perhaps `gpu_mu`, and gives up the capture lock in the middle of its work to
  record a graph, under which the slot must stay its own. → `CaptureExclusive`,
  `NoCircularWait`, `OnlyHolderWrites`, `EveryCallReturns`, `RecorderNotStarved`.
* **Settings that reach the detector late.** Masks and calibrations are stored and
  applied by a later frame, whose upload or build can fail half way, in a slot
  that may have been destroyed and created again. → `ChangesRemembered`,
  `DetectIsCurrent`.
* **A check before the lock.** Most calls look their slot up before they lock it.
  → `NeverNullDetector`.
* **Deciding to die.** A process that exits when one camera's scene or settings
  fail is as bad as one that never exits. → `ExitsOnlyWhenBlind`,
  `CountsNoHealthyTime`, `BrokenIsRestarted`.
* **Frames matched by an address.** The same host buffer carries many frames, a
  slot changes hands between threads of one and of different cameras. →
  `SlotExclusive`, `SameSamples`, `PoolSuffices`, `WaitingFrameHasOneOwner`.
* **A callback that may be gone.** The sink a watcher calls can be moved to another
  watcher, replaced or deleted between any two rows of a frame. →
  `SinkCalledAlone`, `AttachedOnce`, `FedAsBegun`.
* **A result and its number under two locks.** The ring of results is filled in two
  steps and read by number, and after a stall not in the order of the frames. →
  `ResultsAgree`, `TakesNoOther`, `TakesItsFrame`.

* **Not modelled, and hard too.** The far-tag search gives turns by times read before
  its lock; the robot's loop judges the frames of all cameras before it accepts any,
  and sends them oldest first; qualities and frames come by two topics and are joined
  by a number that starts again with the coprocessor; the clock scripts remove and
  write their markers after the clocks, and may lose power in between. Section 3 says
  what a model of each would show.

## 2. The training site

`training/js/` is one page without a framework: `site.js` is the runtime all chapters
share, each file of `ch/` starts the labs of one chapter. All of it runs on the
browser's one thread, so a step is one callback; what interleaves is their order:
clicks, drags and scrolls, animation frames, timers, observers' reports, pictures and
data that load late, and the page's own history and storage, which outlive it.

| Part | Source | State it keeps | Modelled |
|---|---|---|---|
| Animation loop | `site.js` 37-54 | on screen, the requested frame, its last time | `SiteLoop` |
| Scrolling blocks | `site.js` (scrolly) | active step, a queued look | `SiteScrolly` |
| Place, version, history | `site.js` (pins, links, `popstate`) | anchor, pin, history entries, storage | `SitePlace` |
| Loading, bar, tips | `site.js` (`load`, `chrome`) | partials, started chapters, times | `SiteLoad` |
| 2 AprilTags | `ch/02` | pattern, tag, crossfade; a picture's union-find | `LabsApriltags`, `TagPipeline` |
| 3 Camera | `ch/03` | exploded view, photo, shutters, focus | `LabsCamera` |
| 4 Camera settings | `ch/04` | picture, sliders, preset, a frame asked for | `LabsSettings` |
| 5 Jetson | `ch/05` | 3D kit, bus diagram, cores | `LabsJetson` |
| 6 Linux | `ch/06` | trips, crash, boots | `LabsLinux`, `StoryPlayer` |
| 8 CUDA | `ch/08` | race, grid, warp, slots, the line at the GPU; a flood fill | `LabsCuda`, `BlobFlood`, `Filtering` |
| 10 Speed | `ch/10` | cameras on the USB bus, frequencies kept, frames taken | `LabsSpeed` |
| 11 Calibration | `ch/11` | solver, sliders, snapshots, data | `LabsSolve`, `LabsCalibration` |
| 12 Pose | `ch/12` | solver, frames, scene, noise | `LabsSolve`, `LabsPose` |
| 14 Latency | `ch/14` | timeline, rewind, robot, ping | `LabsLatency` |
| 15 NetworkTables | `ch/15` | messages in flight, topics | `LabsNetworktables` |
| 16 Failsafes | `ch/16` | watchdog, faults, terminal, dashboard | `LabsFailsafes` |
| 17 Finale | `ch/17`, `glossary.js` | journey, quiz, glossary | `LabsFinale` |
| 18 PhotonLib | `ch/18` | results that arrive, the way of reading them | `LabsPhotonlib` |
| 19 Coordinates | `ch/19` | the robot placed, the quiz | `LabsCoords` |
| 20 Camera setup | `ch/20` | ports, lenses, bench sheets | `LabsCamSetup` |
| 21 Pit | `ch/21` | problem finder, reports, the day's checklist | `LabsPit` |
| 0, 1, 7, 9, 13, the hero | `ch/`, `hero.js` | the clock, a tab, a slider or two | no |

A lab asks the runtime for a loop (`Site.loop`), for the step the reader is at
(`Site.scrolly`), and listens for `site:mode` when a switch of version hides parts of
it. Labs do not share state, except for the random numbers of the pose chapter (two
labs draw from one generator). That is why `TrainingSite`, which composes them all,
runs one part of the page at a time: the product of two says nothing more than each.

### What is hard, and the properties that answer it

* **Leaving and coming back between two frames.** A loop asks for its next frame in
  each; a frame left over doubles the lab's speed. → `OneLoop`, `OneStoryAtATime`.
* **Looks one frame late.** The nearest step is looked for after the scroll, near the
  screen only, while the version may change. → `SettledOnNearest`.
* **A place that has to survive.** Chapters above it load and grow, links push
  entries, Back restores them, reloads come. → `PinHolds`, `BackRemembersPlace`;
  `AddressSaysMode`, which fails (finding 6).
* **Partials that fail, chapters that throw.** → `SiteComesUp`, `StartedOnce`.
* **Late answers.** Pictures, models, data, pings and measured figures arrive after the
  setting they were asked for has changed. → `ShownIsCurrent`, `StateAnswersRequest`.
* **Stories told by timers**, with another begun before the last is told, and players
  that are paused, stepped and taken over. → `OneStoryAtATime`, `PlaybackForward`,
  `LayersKeepPlayer`.
* **What the browser keeps** over reloads, versions and midnights. → `KeptAsSeen`.
* **Explanations computed from several settings**, each of which may change alone. →
  `NotesTellTruth`.
* **Algorithms in the page.** Union-find with path halving, a flood fill with a stack, a
  decoder over four rotations, a solver that must not take a worse step. →
  `ParentsComeFirst`, `PicturesInBlobs`, `NearestTagIsTheTag`, `SolverKeepsBest`.
* **Controls that move each other.** A preset moves sliders whose handlers clear the preset;
  binding a slider calls its handler. → `PresetIsSet`, in `ShownIsCurrent`.
* **What a formula says of a schedule.** Which frames two ways of reading a camera lose,
  what became of a result in the mailbox, which camera the bus refuses: the page computes
  them without running the schedule. → `WaitingLoses`, `MailboxTrue`, `UsbTableTrue`, in
  `NotesTellTruth`.

## 3. Plan

| State | Module | Composes with | Properties |
|---|---|---|---|
| done | `GpuDetector` (+`Proofs`) | — | locks, settings, destroyed slots |
| done | `CudaWatchdog` (+`Proofs`) | one frame of `GpuDetector` is one step of it | exits justified, recovery |
| done | `GpuFramePool` (+`Proofs`) | two threads per camera between the slots | ownership, right image, room |
| done | `StreamDecode` (+`Proofs`) | watchers and the users of their frames | sinks called alone and as begun, results of the frame asked for |
| done | `SiteLoop`, `SiteScrolly`, `SitePlace`, `SiteLoad` (+`SiteProofs`) | every lab runs on them | one loop, the right step, the place kept, started once |
| done | `Labs*`, `TagPipeline`, `BlobFlood`, `Filtering` (+`LabsProofs`, `LabsLinuxProofs`, `BlobProofs`) | `TrainingSite` | section 2 |
| done | `StoryPlayer`, an abstract player | implemented by `LabsLinux` | `LayersKeepPlayer` |
| next | `NvjpgDecode` | the decode thread of `GpuFramePool` | a free place is used, the fallback latches, the checker never loses its job |
| next | `FarSearch` | the end of `GpuDetector`'s frame | every starved camera gets its sweep, one search at a time |
| next | `ClockTiers` | scripts, guard and power loss | markers agree with clocks after the guard |
| next | `VisionLoop`, `TagQuality`, `VisionHealth` | robot-side loop | order, each frame used once, latched alerts |

Abstract specifications still worth stating: a *reader-writer lock* that the capture
lock implements, an *exactly-one-owner slot* that the pool implements, a *bounded
result mailbox* that the ring of `StreamDecode` implements.

## 4. Modules

### GpuDetector — `detector/GpuDetectorJNI.cc`

`slots[h]` is the source's `DetectorSlot` with the fields that decide behaviour:
`in_use`, whether `td` exists, the detector on the GPU (`gpu`, by the mask and the
calibration it was made with), the mask and calibration the pipeline last asked
for, `mask_dirty`, `needs_rebuild`. A thread's `pc` names the lock it waits for
(`frame_slot`, `frame_cuda`, `record_wait`, `relock`, `gpu_wait`, ...) or the step
it is in; the sets `HoldsSlot`, `HoldsShared`, ... say which locks go with a step,
and the proofs show that the lock variables agree with them.

| Code | Actions |
|---|---|
| `createGpuDetector` (1274-1307) | `CallCreate`, `CreatePick` (under `alloc_mu`), slot, capture lock, `CreateBody` (build, which may fail) |
| `destroyGpuDetector` (1309-1331) | `Call`, `DestroyCheck` (looks again under `alloc_mu`), slot, capture lock, `DestroyBody` |
| `setMask`, `setparams` (1338-1402) | `Call` (looks the slot up, no lock), `SetMask`, `SetParams` |
| `processimage` (1404-1708) | `Call`, slot, capture lock, `FrameRebuild` / `FrameKeep`, `ApplyMask`, per graph `SkipGraph` or `AskExclusive` - `StartRecord` - `EndRecord` - `Relock`, `ChooseGpuLock`, `TakeGpuLock`, `Detect`, `EndFarSearch`, `FrameFailed` |
| other CUDA paths | `CallCuda` - `CudaDone`; `ThreadEnds` - `DecoderDestroyed` for `~NvjpgThread` |

Abstracted: pixels, tags and timing. Whether a graph is due (at most one recording
a second per slot), whether the switch for `gpu_mu` is on, and which of a step's
CUDA calls throws are nondeterministic. Size changes and `needs_rebuild` both lead
to `FrameRebuild`. A slot whose detector was deleted has no `td`: a rebuild then
reads a null pointer, which ends the process (`crashed`). `handle` and `resume` are
dead when no call needs them and are reset there, which saves states.

### CudaWatchdog — `RecordFailure` (374-400)

`failing_for` is `now - first_failure`. It saturates at `kMaxFailingTime` and the count
at `kMinFailures`, the largest values the code compares with. `seen_ok_ago` and
`broken_for` are history: they are never read by a guard. A frame whose scene is
too busy for the detector's buffers (`ResourceExhausted`) changes nothing and is a
stutter. `Restart` is the systemd unit (`Restart=always`, no start limit).

### GpuFramePool — `gpu_frames` (856-1038, 1495-1561)

A camera's decode thread: `StartDecode` (PhotonVision has a buffer), then
`TakeFreeGpuFrameSlot` or `DecodeWithoutPool`, then `DecodeOnBoth` and
`PublishGpuFrameSlot`, or `DecodeOnHost`, or `DecodeFails`. Its vision thread:
`TakeFrame`, `Claim` or `NothingToClaim`, `CopyIn` or `CheckFails`, `Finish`. The steps
are the code's critical sections under `gpu_frames_mu`, with the decode and the copy
between them.

Abstracted: one frame size; a failed allocation is "no slot"; an image is a value,
its fingerprint what the 64 sampled pixels show; a slot's or a buffer's content is
cleared when nobody can read it again. External: PhotonVision keeps each camera's
newest frame and uses a buffer again when nobody has it. `JpegFault`, a test hook,
takes the path of `DecodeOnHost`. Claiming does not look at `gpu_input_off` - nor does
the code.

### StreamDecode — `detector/stream_decode.cc`, `detector/napa/`

A watcher's state is where its thread is in a frame: `wait`, `begin`, `rows`, `finish`,
`publish`, and `in_begin`, `in_feed`, `in_finish`, `in_abort` inside a call into its sink,
while it holds `sink_mu`. `sink` is what is attached, `fed_ctx` what this frame feeds.
A handle's thread is at `search` (in `spectrum_stream_decode_gray` after `g_mu`),
`move` and `fetch` (in `spectrum_stream_take`, with `g_mu`), `detach`, or between the calls.

| Code | Actions |
|---|---|
| `WatchLoop` (354-544) | `StartFrame`, `NotFed` / `SinkBegin` - `SinkBegun`, `SinkFeed` - `SinkFed`, `ClearSlot`, `SinkFinish` - `SinkFinished`, `Publish`; `Abort` - `SinkReset`; `Dies` |
| `spectrum_stream_decode_gray` (669-729) | `DecodeGray` (with or without `Scan`), `Search` |
| `spectrum_stream_take` (731-782) | `Take`, `Move` for each other watcher, `Attach`, `Fetch` |
| `spectrum_stream_detach` (784-796), `~Napa` | `Destroy`, `Detach` for each watcher, `Detached` |
| the sink: `napa_far::Detector::Begin`, `Feed`, `Finish` | `SinkBegun`, `SinkFed`, `SinkFinished`, `SinkReset` |

`begun` says which frame a sink would give a result of; `Begin` sets it or, when it
refuses the frame, clears it. Abstracted: rows, buffers and their wiping; times (the
2 s between scans, the sink's idle second, the frame-rate cap, 300 ms, 25 ms, 3 ms)
are nondeterministic; frames are numbered over all devices and no two match; of the
watchers a search visits only that of the frame's device matters. A handle is one
thread that asks for a frame and then takes it, and may be given the same frame
again; PhotonVision may do the two from two threads, and the take then finds the
frame by its content, as the model's may. `DecodeGray` gives any complete frame,
as a rule while the next one arrives; later ones it passes over were dropped.
A frame the driver drops may still be finished by the watcher, and is given to nobody.
A watcher takes up any buffer that it wiped and that shows the start of a frame,
complete or not, in the order of the buffers: `shown` has the frames it may start, and
`StartFrame` takes any of them, so that after a stall an older frame can be published
after a newer one. `Init` has some devices scanned already. A camera may come back as
another device (`Replug`) while the old device's watcher is still in the handle's frame.
Left out: the re-decode that can turn streaming off, the cores, a buffer filled again
while it is being decoded (its rows are then of two frames), and a sink made at a
deleted one's address.

When another thread's scan has deleted the watcher that a thread still searches
(`Lost`), the use is a crash (`UseDeleted`) and the model stops.

### The site's runtime — `training/js/site.js`

| Code | Actions |
|---|---|
| `Site.loop`, `Site.onVisible` | `LoopEnter`, `LoopLeave` (observer), `LoopTick` (a frame), `LoopWait` (time) |
| `Site.scrolly` | `Moves` (scroll, resize), `Nears`, `SwitchMode`, `Pick` (the queued frame) |
| `setMode`, `showInUrl` | `SetMode` |
| `goTo` and links | `FollowLink`, `FollowHiddenLink`, `FollowTopLink` |
| `popstate`, `restorePlace` | `Traverse`, `Reload` |
| the ResizeObserver, scroll and input listeners | `Grows`, `Resize`, `Scroll`, `Release` |
| `load`, `measureTimes` | `Answer`, `Insert`, `ComesNear` |
| `chrome`, tooltips | `SwitchTour`, `ScrollTour`, `NameChapter`, `OpenMenu`, `Hover` |

`SiteLoop` keeps the browser's requested frames as a set: the code never keeps more
than the last handle, and `OneLoop` is that no other is left. `SiteScrolly` and
`SitePlace` abstract the layout: which step is at the middle, which place is at the
reading line. History entries are a sequence with what the code writes into each; the
place a link was followed from is kept beside it, as history that no guard reads.

### The labs — `training/js/ch/`

Each module has one part per lab: its variables, `XInit`, an action per handler
(clicks and sliders named after what they do, `XTick` for the lab's frame, `...Comes`,
`...Loads` for what arrives late) and `XNext`. A handler's action includes the calls it
makes: `DrawAll`, `Update`, `Compute`, `SyncUI` and their like are operators of the
actions, not actions. Text is what it tells of: the setting, step or pick it was
written for, with a value of its own for "..." and "nothing yet". Pictures are
identified by what they were drawn from. Time is in ticks, with bounds in the guards.
Random choices (noise, shuffled data, corruption) are nondeterministic, except
where a generator is seeded again to give the same numbers, which `LabsPose` counts.

* `LabsSolve` keeps both solvers' control: a step leads to any cost; which parameters,
  residuals and views go together is what `SolverKeepsBest` is about.
* `LabsApriltags` has the 48 codes of the tag family; `NearestTagIsTheTag`
  compares them in all rotations, flipped in up to five squares.
* `TagPipeline` and `BlobFlood` run the two algorithms pixel by pixel over every picture of
  a set; `Blob` and `Blob8` are the definitions of a component they are checked against.
* `Filtering` has the one operator for what `filter()`, and a loop that pushes what passes a
  test, leave of an array; it is a recursive function, so that proofs can follow it.
* `LabsNetworktables` keeps the order in which one frame's landings are handled (last to
  first), which its property depends on, and what the frames of the display take (`ntPace`):
  always the same number of ticks, or now one and now another, as when a frame is dropped.
* `LabsPit` has the whole tree of the problem finder.
* `LabsCamSetup`, `LabsFinale` and `LabsPit` may run in a browser that keeps no storage, where
  each use of it throws and is caught: the page then shows what was ticked, and forgets it.
  `LabsCalibration` counts the field's sightings as a display of 60 frames a second does.
* `LabsSettings` keeps what the list, the sliders and the picture say apart: a picture is
  the settings it was computed from. Of the sliders that are handled alike one is kept.
* `LabsSpeed` has the bus's numbers as they are, and the Low Latency lab's loops side by
  side, a frame of each in a step; times are sixths of a millisecond, of which the
  camera's frame time is 50. `LabsPhotonlib` has whole milliseconds and each frame early,
  on time or late; `ReadAt` is what the robot's library does with the results, against which
  the lab's classification is checked.
* `LabsCoords` has the lengths in millimetres and rounds them as the page does.
* `StoryPlayer` is the abstract player: a story is open at a step, runs or not; it goes on by
  one step and only while it runs; a picked step stops it. `LabsLinux` maps its trip, step
  and `playing` to it (`LayersPlayer`), and leaves out nothing the player says.

### TrainingSite

`open` is the part of the page that moves, chosen at the start; every other part's
variables stay as they are. `Next` is a conjunction with one line per part, and Init
keeps parts that are not open in one state, which saves only states.

## 5. Runs

| Run | Instance | States | Shows |
|---|---|---|---|
| `detector_locks` | 2 camera threads that may use any handle at any time, 1 decode thread, 2 slots, 2 masks, 2 calibrations | 3.8 million | the locks exclude whom they must and never wait in a circle; no setting is lost; a slot is written by its holder |
| `detector_calls` | the same threads, a handle used by one at a time, 2 slots | 81,672 | no null detector; every call returns; a recorder is not starved |
| `detector_destroy_race` | any handle at any time | (finding) | the slot's mutex does not stop a destroy that came between lookup and lock |
| `capture_exit` | as `detector_calls` | (finding) | an ending decode thread uses CUDA outside the lock |
| `watchdog` | 2 cameras, 3 failures, 3 ticks, 2 creations | 11,598 | exits are justified, a broken context is left |
| `watchdog_early_exit` | the same | (finding) | the exit can come before the context was broken that long |
| `frame_pool` | 2 cameras, 4 slots, 3 buffers, 2 images, 1 ended thread | 572,221 | ownership, the right image, room |
| `frame_pool_aba` | the same | (finding) | a stale note frees another camera's frame |
| `stream` | 2 devices, 2 handles, 3 frames, a ring of 1, 1 device change | 4.7 million | sinks are called alone and with the frame they were begun with; results are of their frame |
| `stream_take` | 1 device, 1 handle, the ring of 3 | (finding) | a take can get another frame's tags |
| `training_site` | one part of the page at a time, each with the bounds in the cfg | 96,757 | see the properties of 2 |
| `address_mode` | 2 history entries, 2 places, one of them only in the full course | (finding) | Back does not restore the address of the version shown |

*Bounds.* Two slots and two threads give every pair of calls on the same slot and
on different ones, a slot destroyed and created again, and all slots in use; the
third thread is the one that never holds a slot. Two values of each setting tell
"current" from "stale". Three failures and three ticks separate first, middle and
last, and two cameras separate a camera's own count from its neighbour's. In the
pool two cameras race for the slots, three buffers are the fewest that let one be
used again while the others are held, and two slots a camera is the tight case:
with three slots in all `PoolSuffices` fails. Symmetry is used for threads,
cameras, slots and buffers that the specification treats alike, and only in runs
without liveness. A ring of one slot is the tightest:
every frame meets its predecessor's slot; three frames are one served, one begun and
one that replaces it, or comes before it, on one device or divided between two. With one
device change no sink can be moved away and back; one handle on two devices with four frames
and two changes can, and there `FedAsBegun` fails unless `NoReturn` (section 6) is assumed,
with which all of it holds (2 million states). `MaxEnds` and `MaxCreations` bound threads that end and detectors
made anew.

For the site, three frame handles let a request avoid two others; time is three of the
longest steps; four steps of a block, of which the short tour shows the first and
last, make every nearest-step tie and hidden neighbour; two history entries are the
entry left and the one come to. Two chapters are one that throws and one only the full
course shows. The pictures are 4 by 3, all with two shades and seven pixels free:
rings, diagonals and touching blobs are among them. A solver has three rounds of two or
three tries and four costs, so every pattern of better, equal and worse occurs. Three
events cover any two messages and an answer in flight; legs of three and two ticks, with frames of one
and two, have messages that end a leg early, in time and late, and some that catch up. Timers and frames that may pile
up are bounded where the code bounds nothing (`CovWaiting`, `AmbWaiting`, `PitCopies`,
`NtEvents`): two is a second one begun while the first is under way. Two ports of the USB bus
are changed after a preset (`UsbTouches`), which fills the bus past either limit from most
presets. The Low Latency lab runs half a second (`LlUntil`) at 23 processing times from
half a frame to almost two, so that loops drift through every phase of the camera's.
Five results (`MailFrames`) at four rates are more, as many and fewer than the robot's
loops. Two questions (`CoQuestions`) are one skipped or answered and the next.

*Deadlock.* Checked in every run except `detector_locks`,
`detector_destroy_race`, `stream` and `stream_take`, where the process may crash and
stop for good (and, in the last two, the frames run out), and `training_site` and
`address_mode`, where a lab that has run to its end waits for the reader (a file is
typed, a picture worked through, an observer has reported for the last time).

*Fairness.* `GpuDetector`: strong fairness of every thread's steps inside a call.
A thread waiting for a mutex that is free again and again gets it (the kernel wakes
waiters), and glibc's writer-preferring rwlock admits the queued readers when the
last writer leaves. Nothing obliges a caller to call, so calls are not fair.
`CudaWatchdog`: weak fairness of time, of each camera's frames (a running camera
sends frames) and of systemd's restart; errors and creations are not fair.
`TrainingSite`: weak fairness of the two steps of `load()` that the browser owes the
page, the answer to each fetch (a text, an error status or a failure) and the promise
that waits for all of them. The reader, frames, observers and timers owe nothing.

*Serialised.* PhotonVision uses a handle from one thread at a time (the pipeline
race fix, `patches/photonvision-66-pipeline-race-watchdog-pause.patch`). The library's safety properties
are checked and proved without that assumption; only `NeverNullDetector` and the
liveness run need it.

## 6. Proofs

Proved for every set of threads, number of slots, cameras, buffers and values,
from the modules' named assumptions (constants are disjoint from their null
values; limits are positive):

* `GpuDetectorProofs`. The inductive invariant has two parts. `LockInv` ties the lock
  variables to the control states (who is in `HoldsSlot` owns the slot it names, who
  is in `HoldsShared` is a reader, a writer is recording and there are no readers):
  mutual exclusion alone is not inductive, since nothing else says that a second
  thread in `HoldsSlot` is impossible. `SettingsInv` follows a setting through a frame:
  between the mask's upload and `Detect()` the detector has the slot's mask and
  calibration. From them `TypeCorrect`, `RecordingIsAlone`, `SettingsRemembered`,
  `FramesAreCurrent`, `HoldersAreAlone`. `LocksNeverCircular` shows by the order
  `alloc_mu` < slot < capture lock < `gpu_mu` that any group of threads, of any size,
  has a member that waits for nobody in it: one that waits for the latest lock.
  `OneCallerNeverNull`: under the assumption *Serialised* a call that has found a handle's
  detector still has it after it waited for the slot (`CallInv`: no two calls have the
  same handle, and the slot of a call that found it in use still is).
* `CudaWatchdogProofs`. `ExitIsJustified` and `NoHealthyTimeCounted`: while a camera has
  failures to count, its time does not reach back beyond its last healthy frame.
* `GpuFramePoolProofs`. `SlotsAreExclusive` and `SamplesAgree`: the slots each decoder
  or detector has are exactly those in use, a host buffer is in one pair of hands,
  and a claimed slot has the samples of the buffer it was claimed for until it is
  copied or given back. `TwoSlotsSuffice`, by counting: a decoder that finds no slot
  has every slot accounted for by a camera, as claimed or as its decoder's
  (`AllAccountedFor`), and its own place among these is empty, so there are fewer slots than
  two for each camera.

* `StreamDecodeProofs`. A watcher calls only the sink attached to it, and a sink's places
  are followed through the move and the detach of its handle (`SinkPlaces`): from this
  `AttachedToOne` and `CalledByOne`. A sink moved to another watcher, begun there, and moved
  back while the first one is still in the frame of before would be fed with the rest of it,
  since the watcher compares the sink's address only (318). So the other three results
  assume `NoReturn`: no camera comes back as a device whose watcher still has the frame, begun
  for that camera, of before. The code does not check it; it gives a frame up after 25 ms,
  and a camera takes longer to be unplugged, found under another name and plugged back.
  With it `BegunFrame` and `RingResult` (together `FedInv`) are inductive, for any
  number of changes: `FedTheFrameBegun`, `RingAgrees`, `NoOtherTaken`. For the last the
  slots are numbered `seq % kResults`, and the watcher asked for a number has either the
  frame asked for under it (`Numbered`) or, being a new watcher that counts from the
  start, a later one (`Later`), whatever the order in which frames are published.

* `SiteProofs`. `LoopsStaySingle`: that on screen the only requested frame is the last one,
  and off screen none, is inductive; for the lab's clock it takes `LoopClock`, which
  says how far the last frame's time lies behind. `BlocksSettle`: unless a look is queued
  the step is the nearest (`ScrollyInv`), for any number of steps and any of them
  hidden. `PinsHold` and `BackReturnsToPlace`: `PlaceInv` says of every history entry that
  the place a link left it at is the place its state holds, and of a pin that the
  anchor, if this version shows it, is at the reading line. `ChaptersStartOnce`: a
  chapter that was started is no longer watched.
* `LabsProofs`. `BestIsKept`, with the kept cost the least of those tried and the
  residuals those of the kept step.
* `LabsLinuxProofs`: `TripsArePlayed`, the refinement. The initial state maps to the
  player's, and each action to one of its steps or to none; the trip's step stays within
  its length (`TripInv`), which the modulus in the code is for. `CrashIsToldOnce`: the log
  followed by the timers still to run is one whole story (`CrashInv`).
* `LabsProofs`, again. `TicksAreTodays`: the storage always agrees with the page that is
  open (`DayInv`), without which nothing says what a page opened tomorrow would find.
  `WaitingNeverGains`: after as many frames the loop that takes the newest is never behind
  the one that waits; `FramesAreNewest` and `FramesNeverRepeat`
  follow the division by the frame time, for any processing times. `PresetNamedIsSet`,
  by the settings being the sliders'. `QuizIsFair`: no two of the four answers round alike, by
  the distance from the middle line that a question keeps (`WallsApart`) and the headings it
  may have (`HeadingsApart`). `CodeIsOfRobot`: red's spot is inside the walls, and a metre
  ahead of the robot is matched by a metre ahead of the spot (`SpotsDriveAlike`).
* `LabsProofs`, the labs that the page's composite properties gather, one inductive invariant
  each, named after its lab, with a lemma for the start and one for the step. Most say which
  setting each thing shown was made from and which requests are still out (`SceneInv`,
  `PortsInv`); these are more than that:
  the problem finder's trail is a path of the tree from its root (`Trail`); the zigzag passes
  all 64 frequencies once, finer ones later, each beside the one before (`ZigzagIsKept`, one
  diagonal after another); a result in the mailbox is what the robot's library would have read; the
  bus refuses the cameras it must and no others (`TableIsTrue`): the bandwidth reserved is
  a sum over the cameras plugged in, kept by a fold over their order, and
  `ReservedGrows` and its neighbours say how such a sum moves when one is added.
* `BlobProofs`. `ParentsAreEarlier`: the pixels' parents never point forward, so that the walk to
  a root ends. `UnionFindFindsBlobs`: when all pixels have been passed, two have the same root
  exactly if they are connected; halving a path and hanging one root under another
  keep or merge the parts as they should (`HalvedRoots`, `JoinedRoots`), and no part reaches
  beyond a blob while all edges passed are within parts (`PartInv`). For the flood fill, `FillInv`: the pixels named so far
  are whole blobs except the one being filled, whose open edge is on the stack.
  `FloodFound` follows. Both for pictures of any size.
  *Induction over data* is needed here, for the roots, paths and components are recursive
  functions. The library's induction theorems have an operator for a parameter, which the
  provers cannot instantiate, but `WFMin` (a well-founded relation has minimal elements) has a
  set: `LeastNatural` applies it to the order of the naturals, and `EveryNatural`,
  `GoesOn` (a recursive function exists and obeys its equation) and `GrowthStops` (a
  growing chain of subsets of a finite set becomes constant) follow from the least
  counterexample. The lemmas about `Only` in `Filtering` (its items, its length, what the
  first or last item adds) are proved the same way.
* `SiteProofs`, the page. `TrainingSite`'s `Next` has a line for each of its parts, so
  `PageRunsItsParts` (every behaviour of the page is one of each part's own
  specification, with steps in which the part does nothing) needs only that each line implies
  the part's `[Next]_vars` and that the page's start is one of its starts
  (`EachPartAlone`, `EachPartStarts`). With it what is proved of parts alone holds on the page: `KeptIsAsSeen`,
  `StoriesStayOne`, `PicturesInBlobsAlways`, `ShownIsOfNow`, `PlaysForward`, `NotesAreTrue` are
  the composite properties of the `training_site` run, proved whole.
* `RequestsAreAnswered`, of the publish/subscribe diagram, for legs and frames of any length. What
  follows a message is not its place in the array, for each frame filters the array and
  reverses parts of it, but the order in which messages will be shown (`Sooner`): by leg, then by
  age, and for messages sent between the same two frames by place, which is reversed at the
  turn and read from the end at both landings, so that it comes out right. On an even display a frame
  keeps that order (`FrameKeepsOrder`): messages are of one age or a whole frame apart
  (`Spaced`), so two that land together are of one age. The invariant is then that of each topic
  the message shown last has the value the topic must end with (`WillShow`), or, while no
  request is on its way, that the last timeout that answers does (`WillAnswer`). A result's two
  messages fly side by side on any display (`InTwos`), which keeps `hasTarget` about the
  result shown. What the filters leave, and in which order, is `OnlyInOrder` (`BlobProofs`).
* `NearestTagIsRead`, of the Hamming lab, for every set of squares the reader flips and every
  pattern drawn. That the 48 codes are eleven squares apart in all rotations is arithmetic on a
  table, which TLC evaluates as the assumption `CodesApart` of `LabsApriltags` (it compares the upright
  codes with the turned ones). From there it is proved: turning is a permutation of the squares
  that is the identity after four times, so turned codes are as far apart (`CodesTurned`); squares that
  differ obey the triangle inequality, so a pattern at most five off one code in one rotation is at least
  six off any other; and `Decode`, which takes the first of the nearest, takes that one (`FiveOffIsRead`).

* `SiteTypesHold`, the types of the whole page. Each part's type is kept by the part's own steps, and
  `EachPartAlone` puts them together; where a part's type is not inductive by itself it is
  carried with what bounds it:
  - a solver's steps with its rounds and tries (`StepsBound`), the sightings of the field
    lab with the spot and frame they were seen at (`FieldInv`);
  - the watchdog's hunger with what the robot is doing and for how much longer (`DogInv`), the lines of
    the terminal with the one run that types them (`TypedBounds`);
  - the snapshots with the solves under way (`CoverageBounds`), the ages of rows, fades and headings
    with the invariants of their labs (`ShutterBounds`, `FadeBounds`, `BotBounds`, `PingBounds`);
  - a blob's size is of a set of pixels, so no larger than the picture (`NoMorePixels`,
    `PipelineBounds`), and the names given by the fill are as many as pixels passed
    at most, since each blob began at one of its own (`FloodBounds`);
  - the line of cameras on the bus holds each plugged port exactly once, without which
    taking one out would not leave the line one shorter (`UsbBounds`);
  - the numbers in the publish/subscribe diagram are of results already published, also those still in
    flight (`PubsubBounds`): that a value shown, or on its way, is never ahead of what was
    sent is what bounds it.

  Bounds that the runs' `.cfg` files had met without saying so, and the proofs asked for, are
  now assumptions of the modules that declare the constants: that the rows of the latency
  timeline end one after another, that the topic tree has a folder under its root, that there
  are pit items, sliders, seeds and stages to choose from and finitely many of them. Each is of the
  tables the code has written out.

With these every invariant and action property of the passing runs is a theorem, three of
`StreamDecode` and the one of `NeverNullDetector` under the assumptions named above. Only model-checked
are the liveness properties `RecorderNotStarved`, `EveryCallReturns`, `BrokenIsRestarted` and
`SiteComesUp`: the prover has no fairness.

## 7. Findings

1. `processimage` (1442) looks a slot up before it locks it and does not look again.
   A destroy in between leaves it a null detector. The header (16) credits the slot's
   mutex with stopping this; in fact PhotonVision's call order does.
2. `~NvjpgThread` (848) frees CUDA objects outside the capture lock, which the comment
   at 174-175 says every CUDA path holds.
3. A failure on a healthy context starts the clock and later ones on a broken context
   keep it (384-391): the exit may follow the break at once, where the header (19-22)
   promises `kMaxFailingTime`.
4. `my_waiting_slot` (874, 880) is kept after its frame was claimed, so a decoder can free
   another camera's waiting frame. The cost is a frame uploaded again: `SlotExclusive`
   and `SameSamples` hold all the same.
5. `sink_finish` puts the new frame's result into the ring slot (334-338) before the slot
   gets its number (483), and lets go of the lock in between. A `spectrum_stream_take`
   for the frame that slot was numbered for, `kResults` frames ago, returns the tags of
   the frame being published, where `stream_decode.h` (40) says "that frame's sink
   result". That frame is a newer one as a rule, and after a stall may be an older one. A
   new watcher that counts from the start may also have a later frame under the number; no
   other frame is ever taken (`TakesNoOther`).
6. `popstate` (site.js 498) restores the place of the entry come back to, but not its
   version: the address then names the version in which the entry was left, the page
   shows the one the reader switched to since. The comment at 336 says "The address
   always says which version you're on".

Met while modelling, of which no document states the contrary: a callback that throws
ends its loop until the lab leaves the screen and comes back (site.js 47); a copy
button's earlier timer takes away a later click's "Copied" (21-pit.js 640); snapshots
reset while the solve is on its way are solved all the same (11-calibration.js 577);
the toggles of the publish-and-subscribe lab are labelled from the values shown when
the message is sent, and so say the old action until the next click
(15-networktables.js 109); the frame loop of that lab handles messages last to first (132), which
keeps those in order that were sent between the same two frames, but of two that were a frame
apart and land in the same, longer frame shows the older one last, so that an older answer
or result can be the one that stays (why `StateAnswersRequest` speaks of even frames: with legs of
20 and 14 ticks and frames of one or two, TLC finds two requests of which the
first one's answer stays); a line of the latency card clicked during playback stays until
the next line's time (14-latency.js 165); binding a slider calls its handler at once
(site.js 144), so the list of presets says "Custom (you moved a slider)" as soon as the
picture has come, and the preset it showed, or the reader chose while waiting, is not
applied (04-settings.js 145 and 165; `Bind`); the race works the CPU's total out once, for
tiles on their own (08-cuda.js 34), and so stops counting at 32 ticks, and says 32 in the
end, when each tile needs the last and the 192 tiles take 192 (`CpuTotal`, `CpuShows`); a
sink moved to another camera's watcher and back within one frame passes for the one the
frame was begun with (stream_decode.cc 318, see `NoReturn`); and after a stall a watcher
numbers frames in the order of their buffers, not of their arrival (358-404).

## 8. Not modelled, and why

Detection, decoding, networks, poses and statistics are numerical and have no
control worth checking. Installation, firmware and calibration scripts run in
one order on an idle machine. PhotonVision and frc971's detector are not in this
repository; the patches change them, and the models state what they rely on as
external definitions. Memory exhaustion inside the JVM and hardware faults other
than CUDA errors are left out.

Of the site: how anything is drawn, the arithmetic of cameras, lenses and poses
(floating-point numbers; the models keep which of several solutions is taken, and
when), the sizes of the page, keyboard access, and the chapters whose labs are a
simulation of one or two sliders. The chapters' partials (HTML) and the service that
hosts them are external: `SiteLoad` takes any answer to a fetch.
