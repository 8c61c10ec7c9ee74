# Verification project of TrigGlow Dynamic Delay

TrigGlow is an OBS plugin that delays the live scene by up to minutes: it captures every
rendered frame, encodes it, keeps the packets in a ring in RAM, decodes the frame that is due,
and draws it instead of the live picture. Audio is delayed by as much. "Buffer mode" is what the
user switches on: a wrapper scene goes on Program, the ring fills behind a loading scene, and
then the delayed picture appears.

This directory holds TLA+ models of that program, TLC configurations that check them on small
instances, and TLAPS proofs. Paths below are relative to `src/` of the repository; line numbers
are in `PROJECT.json`, which maps every definition to the code it models, and lists the hazards
each property is there for.

    tlasany FrameRing.tla                       # parse
    tlc -workers 2 -config FrameRing.cfg MCFrameRing
    tlapm FrameRingProofs.tla                   # check the proofs

Contents: [inventory](#1-the-system), [modules](#2-the-modules), [runs](#3-the-runs),
[fairness](#4-fairness), [proofs](#5-the-proofs), [findings](#6-findings),
[what is not modelled](#7-what-is-not-modelled), [plan](#8-plan).

## 1. The system

### Threads

| thread | runs |
|---|---|
| graphics (OBS) | `VideoDelayFilter::Render`, `Tick`: sizes the ring, captures, draws the delayed frame |
| encode workers | `CodecPipeline::EncodeLoop`: encode a raw frame, publish it in the ring. Worker 0 may own an inter-frame (H.264/HEVC/AV1) encoder |
| decode worker | `DecodeLoop`: decodes ahead of the time shown into a small pool |
| reaper | frees rings and trims the arena, so that nobody else waits for that |
| setup thread | `SetupLoop`: opens inter-frame encoders, which may take seconds |
| audio (OBS) | `AudioDelayFilter` |
| UI, or core-host's controller thread | `BufferModeController` and every call of `ObsFrontendBridge`; the dock; results of background tasks |
| background jobs | web requests of the account, of support and of the update check; the hardware probe |
| WinHTTP's own | callbacks of a request that a job waits for |
| core-host's IPC | `Update` of the settings source: commands and configuration of the host program |

### Components

**Frame ring** (`frame-ring.cpp`). State: an array of slot headers (state, capture time,
generation, pins, payload), the write index, how many slots are in use, the last time.
Operations: Reserve, MarkDropped, BeginEncode, Publish, the three pins, Unpin, and reads.
Writer, encoders and readers are on three kinds of threads. Hard: a slot may be overwritten,
published late, pinned or dropped in any order; payloads change hands outside the mutex; a
clock that goes back. Correct when: what is pinned stays, every payload has one owner, every
capture is decided by somebody, the window is ordered, and the binary searches select right.

**Frame arena** (`frame-arena.cpp`). State: blocks, spare and vacant ids, counters. Operations:
Allocate, Free, Trim. Hard: long sequences of payloads of unequal sizes under a limit. Correct
when: payloads do not overlap, no block is lost or listed twice, the limit holds, memory returns.

**Codec pipeline** (`codec-pipeline.cpp`, `storage-codec.cpp`). Four parts, which share one mutex:
*encode* (jobs; the encoder adopted, retired, failing; chains and seqs; frames in flight),
*decode* (cursor, restart from a key, catch-up), *cycles* (Attach, Detach, Disable, Shutdown; who
holds rings and raw frames; the reaper) and *playback* (the pool of decoded frames, its epoch, the
time wanted). Hard: every worker is between two critical sections when a cycle ends; encoders
are asynchronous and lose packets; decode results of an old cycle; lost wakeups. Correct when: a
P-frame is never decoded without its reference, never refused when it could be, nothing heavy is
freed on the graphics thread, every raw frame returns, and what is shown is of this cycle,
on time and in order.

**Inter-frame setup and yield** (`SetupLoop`, `hw-storage-codec.cpp` Setup, `video-delay-filter.cpp` Yield
and Resume). State: the mailbox with its generation, the encoder handed over or closed, who yields,
the policy's state, the encoders that failed. Hard: seconds of opening raced by Disable, by a yield of
100 ms, by another size and by Shutdown. Correct when: a yield stays closed and frees the engine, a
failed encoder never comes back, a failed setup is heard, Disable closes every session.

**Storage codec policy** (`storage-codec-policy.cpp`), **encoder selection** (`storage-codec-select.cpp`)
and **hardware codec** (`hw-storage-codec.cpp`): a table of rules over samples; which encoder is tried
when; one encoder and decoder over FFmpeg. Hard: encoders hold packets back, so the probe's come out
among the pipeline's; an error of OBS's own encoder that arrives while probing or yielded.

**Degradation policy** (`degradation-policy.cpp`). State: rung, step, cooldowns, predictions. Hard: the
decoder meets what a change did only after the whole delay. Correct when: the picture is never
smaller than the machine needs and does not swing.

**Video filter** (`video-delay-filter.cpp`). State: settings, ring, staging slots, the last picture,
textures, a telemetry window. Operations: Render (EnsureRingSized, CaptureFrame,
HarvestStagingSlot, DrawDelayed), Update, Tick, ReleaseBuffers, Yield and Resume. **Delay window
arithmetic** (`buffer-fit.cpp`, `encoder-check.cpp`): slots, size and seconds under a RAM budget and
under the ceiling of OBS's encoders. Hard: the controller computes the audio's delay from settings
the filter will have, the filter sizes its ring later, and OBS's video may be reset in between.

**Audio filter** (`audio-delay-filter.cpp`): a ring of samples, gaps filled with silence, resizes.
Correct when it is a pure delay line. **Samples** (`perf-stats.cpp`): rings the policies decide from.

**Buffer mode controller** (`buffer-mode-controller.cpp`). State: mode (Inactive, Filling,
Active, Error), fill generation, keep-alive, the scene before. Operations: Enable, Disable, the
fill timer, SetDelaySeconds and SetMinHeight, OnBufferRestarted, OnFrontendEvent.
Hard: each handler makes many bridge calls and the graphics thread runs between them; the
restart of the ring comes back through a queue. Correct when: audio, video and overlay agree,
filters are on exactly in Filling and Active, a ring that fills is fed and covered, and
Disable gives the scene back.

**Core host** (`core-host.cpp`): the same controller without a dock, on a thread with a queue and a
timer. Hard: `Update` gives up after 10 s, the task may still run; Shutdown with a queue. Correct
when: each command runs once and in order, the status is of the command it answers.

**Frontend bridge** (`obs-frontend-bridge.cpp`, `auto-names.cpp`): scenes, filters, overlay, keep-alive, the
guard that switches filters back on, and the outputs it listens to. Hard: libobs callbacks on any
thread; objects that earlier sessions, older versions and the user left in the collection. Correct
when: only this cycle's filters are on; each output error is told once.

**Dock** (`settings-ui.cpp`): what it shows, locks and counts down. Hard: status, hotkeys, timer, account
and user refresh parts of it in any order. **Plugin entry** (`plugin-main.cpp`, `hotkeys.cpp`): the settings
file over sessions, kills and hand edits; hotkeys; the order of load and unload.

**Background tasks** (`background-tasks.cpp`, `cancel-token.cpp`, `ui-tasks.cpp`): jobs on threads, results
drained on the UI thread. Hard: a result that closes the owner of a later one, shutdowns with limits,
callbacks under the token's lock. **Web request** (`win-http.cpp`): an asynchronous call whose record is
on the stack of the thread that waits. Correct when: nobody touches what is gone, nobody waits for
ever, and the answer is true.

**Account** (`auth-manager.cpp`, `token-store.cpp`, `auth-client.cpp`). State: token in memory and on disk, the
epoch, the session shown, calls on their way. Operations: sign in, poll, cancel, check, renew, sign
out. Hard: answers about one token arrive when another is stored. Correct when: a sign-out is final, a
newer sign-in stays. **Support** (`support-service.cpp`, `trigi-page.cpp`, `report-bug-dialog.cpp`): one
question in flight, events in a queue, a conversation that may be closed or declared gone.

Without state between calls: the raw codec and packet parsing, diagnostics, redaction and reports, JSON,
painting. **Reconnect-mode controller** (`delay-controller.cpp`) is not created by anything.

### How they interact

    Controller --settings, enable--> filters --Render--> EnsureRingSized --Attach--> pipeline
        ^                                        |            |
        +---- "buffer restarted" (UI queue) -----+            +-- Detach / Disable
    Render --Reserve, SubmitEncode--> encode workers --Publish--> FrameRing --payloads--> FrameArena
    Render --AcquireForDisplay(target)--> pool <-- decode worker --PinNextForDecode--> FrameRing
    whoever lets go of a ring --reap_--> reaper
    Render --Evaluate--> storage policy --mailbox--> setup thread --encoder--> encode worker 0
    output starts --bridge--> controller --Yield--> filter --close--> encode worker 0, setup thread
    dock, hotkeys, core-host, outputs --> controller --effective delay--> audio filters
    account, support, update check --Start--> background job --queue--> UI thread --> their owner

## 2. The modules

Source names are kept. A name with a suffix (`NextSlot_NoWrap`, `ForgetCursor_Keep`, ...), or a
comment that says *Mutant*, is a plausible bug of the definition that follows it: `PROJECT.json`
names, for each property, one that violates it.

| module | code | kind |
|---|---|---|
| `RingSelect` | `frame-ring.hpp` (ringselect): pure selections over a window | operators |
| `FrameRing` | `frame-ring.cpp` | state machine |
| `DelayWindow` | the contract of `frame-ring.hpp` | abstract specification |
| `FrameArena` | `frame-arena.cpp` | state machine |
| `EncodeChain` | `EncodeLoop`, `EncodeOne`, `ChainTracker`, `InFlightQueue` | state machine |
| `DecodeChain` | `DecodeLoop`, `DecodePinned`, `StartFromKey`; EXTENDS `EncodeChain` | composition |
| `PipelineCycles` | Attach ... Shutdown of `codec-pipeline.cpp`, cycles of the video filter | state machine |
| `DecodedPool` | `DrawDelayed`, `AcquireForDisplay`, `PrimeDecode`, the pool of `DecodeLoop` | state machine |
| `StoragePolicy`, `CodecSelect` | `storage-codec-policy.cpp`, `storage-codec-select.cpp` | operators |
| `StorageCodec` | setup thread, encode worker 0, policy, blacklist, yield | composition |
| `HwCodec` | `hw-storage-codec.cpp` over FFmpeg | state machine |
| `RollingWindow` | `perf-stats.cpp` | state machine |
| `DegradationPolicy` | `degradation-policy.cpp`, its evaluation in the filter, a machine | composition |
| `BufferFit` | `buffer-fit.cpp`, `encoder-check.cpp` | operators |
| `BufferSizing` | who feeds `BufferFit`: dock, settings, tick, Render, controller | composition |
| `RenderPath` | Render of `video-delay-filter.cpp` | state machine |
| `AudioDelay` | `audio-delay-filter.cpp` | state machine |
| `BufferMode` | controller, its bridge calls, fill timers of dock and core-host, the filter's cycles | composition |
| `CoreHost` | `core-host.cpp` | state machine |
| `FilterGuard`, `AutoScenes`, `OutputWatch` | three parts of `obs-frontend-bridge.cpp` | state machines |
| `Dock` | `settings-ui.cpp`, `scene-combo-box.cpp` | state machine |
| `PluginSession` | `plugin-main.cpp`, `hotkeys.cpp` | state machine |
| `BackgroundTasks` | `background-tasks.cpp`, `cancel-token.cpp`, `ui-tasks.cpp` | composition |
| `HttpCall` | `win-http.cpp`, `api-client.cpp`, `update-checker.cpp` | state machine |
| `Account` | `token-store.cpp`, `auth-client.cpp`, `auth-manager.cpp` | composition |
| `Conversation` | `support-service.cpp`, `support-client.cpp`, `trigi-page.cpp`, `report-bug-dialog.cpp` | composition |
| `MC...` | | instances for TLC (section 3) |
| `FrameRingProofs`, `DecodeChainProofs`, `PipelineCyclesProofs`, `DecodedPoolProofs`, `StorageProofs`, `BufferModeProofs`, `HostPartsProofs`, `HostLinksProofs` | | theorems (section 5) |

### FrameRing

`headers` is `headers_`; `view` is what each reader holds; `reserved` the reservations on their way
to a worker; `encoder` the worker between BeginEncode and Publish; `freeing` Reserve's local
`previous`. A method is one action because it holds the mutex; what the caller does outside is a
second one: `FreePrevious` after Reserve, `Allocate` before Publish, the Free when Publish
refuses. Hazards: a slot reused under a pin, a payload freed twice or never.
`DelayWindow` states the promise without slots: a window that gives up its oldest capture only
when it is decided and not pinned. The mapping is the window in logical order, "Reserved" and
"Encoding" both "pending".

### FrameArena

One action per branch of Allocate (oversized, in the current block, in a spare one, in a new one,
refused). Sizes are in units of `kAlignment`. `held` is what callers have, so an offset is really
compared with the others, not with a counter.

### EncodeChain and DecodeChain

Captures are numbers and a capture's number is its time. A packet in the window has what the
code stores (codec, key, chain, seq) plus `ref`, the packet its bitstream *really* references, which
the code does not know: the encoder (external, modelled from how the pipeline uses it) sets it,
and the properties compare what chain and seq say with it. `LosePacket` and `Receive(lost)` are the
losses; `SendBusy`, `SendFails`, `CloseEncoder`, `FailInter`, `RetireIdle` the other paths of the
encode loop. A packet is lost between Send and Receive, or after (Publish without memory).

The decode worker adds `cursor` (what the code goes by) and `reference` (what the decoder really
holds). A call of the ring is one step, so the ring moves on between the pin of the frame due and
the plan of a restart. `DecodeTime` and `Interval` give PlanDecodeStart its estimates.

### PipelineCycles

Every holder of a `shared_ptr<FrameRing>` is a variable: pipeline, filter, jobs, workers (also the
rings they took out of in-flight frames to let go of), the encoder's frames, the decode worker's
copy, the reaper's lists. A ring is freed by whoever drops the last one. Raw frames are counted
by place. A step is a critical section of `mutex_` or what lies between two.

### DecodedPool

`graphics` is Render between its read of the ring and `mutex_`; `decoder` is DecodeLoop between the
ring and `mutex_`. `woken` is `wakeSerial_` against the worker's copy. Each shown or decoded frame
records the ring it really came from, next to the epoch the code compares. All frames are keys
here; captures of `Broken` are not decodable. The pool is a set of at most `Lookahead` frames: the order of
the code's list decides nothing, since frames are found and evicted by their time.

### StorageCodec, StoragePolicy, CodecSelect

An encoder that is open is a record in exactly one place: with the setup thread, in the mailbox, in
worker 0 or with the reaper. `setup.left` holds the places of the ranking that are still to be tried, so that
an encoder is opened in the ranking's order and one that fails is not tried again. Setup is three steps (take the request, open, hand over), because each
reads the generation and the yield anew. The evaluation of the policy is one step of the graphics
thread: it samples, decides (`StoragePolicy`: a table of rules, the first that applies), and asks
for a setup or lets the encoder go. Times are evaluations, up to the threshold they are compared with.
The yield goes through the controller, the filter and the pipeline, and waits for the worker and the
setup thread with its limit. `lost` and `late` mark the two races of section 6.

### HwCodec

`hwEncoder` is the encoder, `ffmpeg` the frames FFmpeg holds (it may keep one back, give parameter sets
with the first key only, fail or reorder). The probe's packets and the pipeline's have the same
numbers and are told apart by `of`, which the code does not know.

### RenderPath

A capture is its number; `caps` is its fate, `slots` the three staging slots, `pic` the last picture,
`win` the telemetry window. Render is one action, with what the GPU and the pipeline did with it
as its choices (a raw frame free, surfaces mapped, staged, reserved, which frame the pool gave):
nothing runs between its steps that touches the filter. `ReleaseBuffersTask` and Update come between two
Renders. The ring and the pool behind it are those of `FrameRing` and `DecodedPool`.

### RollingWindow, DegradationPolicy

`RollingWindow` compares the rings of samples with every sample that was pushed. `DegradationPolicy` runs
the policy in a loop with a machine: what a full-size frame costs graphics, an encode context and
the decoder, with cost following pixels and the decoder `PlayDelay` behind. The three costs range over
18 machines. Whatever the loads are, an evaluation may find that OBS lagged, that captures were dropped
or that due frames were missed, each over its rate, and that a metric has fewer samples than
`minSamples` (`Samples`, at most `MaxOdd` such things at once): these are triggers of their own in
`Evaluate`, and `line` tags each frame with the rung and codec it was captured for, since the code
compares tags and not sizes. `blamed` remembers the rungs left while their own frames were in trouble.

### BufferFit, BufferSizing, AudioDelay

`BufferFit` is the arithmetic on exact fractions (the code's doubles); its contract is
`RingKeepsPromise`: the ring holds the delay asked for or as much as the budget allows, and the picture is
not lowered further than that takes. `BufferSizing` has the inputs where they really are (dock,
settings, what the filter applied, OBS's video, what the ring was sized from) and the audio filters'
delay. In `AudioDelay` a sample is its run and its timestamp, so a sample of another lap of
the ring, or of before a reset, is told from the right one.

### BufferMode

A handler computes a sequence of bridge calls from the controller's own status and `script` is
what is left of it: one call per step. Between two, the graphics thread may run `EnsureRingSized`
(which restarts the ring and posts to `inbox`) and `CaptureFrame`. `Second` is time: the timer counts
down and a ring that is rendered gains a second. `bufferfit::Compute` is the constant `Fit`, a table
in which a larger canvas or better quality has fewer seconds. `RestartObs`, `SwitchCollection` and
`CopyCollection` load filters as they were saved, enabled or not. `ChangeIn` says in which modes the
host changes settings: the dock locks them while filling (`settings-ui.cpp`), core-host does not.

### FilterGuard

libobs (external) flips the flag, then emits `enable` with the signal's mutex held; disconnecting
waits for a callback under way. `todo` is the bridge's remaining calls, `outsider` each other thread
between the flip, the callback's look at what is kept and its switching back.

### CoreHost, Dock

`CoreHost`: `source` is the host program's side (calls, tokens, the settings read back), `coreThread` the
queue, the timer and the task that runs, `delayMode` what the controller looks like from there,
`snapshot` the status it publishes. An Update is posting, waiting and giving up; the task it
posted may run after that. `Dock`: `dock` is its widgets, as far as they mean something, `mode` the
controller, `desk` scenes, account, RAM and load. A handler is one action, since all of it runs on the UI
thread; scenes and load change without a callback.

### AutoScenes, OutputWatch

`AutoScenes`: `coll` is the collection with marks, names and flags, `held` what the bridge holds. An
object's name may be the current one, that of v0.5.1 or one the user gave. A behaviour starts with an empty
collection or one of v0.5.1 closed with the delay on; OBS ends, loads and duplicates it in any state. Drawing the
badge may fail (no image: a badge that is there is hidden) and so may creating its source (one that is there
is shown); `held.shown` is what the last `SetDelayOverlay` answered. Scenes and filters are always created.
`OutputWatch`: the watch lists outputs under OBS's lock and
connects without it, an error is signalled on the output's thread, queued, and told.

### PluginSession

`disk` is the settings file and the unreadable ones set aside, `plugin` the loaded plugin. A kill may come at
any step, the save included; between sessions the file may be written by hand, well or badly. `saved` are the
settings of the session that wrote the file, until somebody else writes it.

### BackgroundTasks, HttpCall

`BackgroundTasks`: a job's thread is a step between two locks (subscribe, call, unsubscribe, post);
`uiThread` drains one item at a time, and a handler may close an owner or shut the registry down, after which
the rest of that drain is dropped. How each wait ended is recorded (`waited`: its jobs ended, or the limit
was reached); an owner closed after the shutdown does not wait (`background-tasks.cpp:429`) and so rests on
how the shutdown's wait ended. `HttpCall`: `job` is
Send's thread, `asyncCall` the record on its stack (`alive` until it returns), `winhttp` what is
outstanding and which callbacks may still come, `token` the cancellation. Sizes are chunks. A version is a
name, and `Above` says which is newer than which: a name that is no version is above nothing.

### Account, Conversation

`Account`: a call is between taking its token and the delivery of its result; `web` is the server's view
of each token, and `dropped` names the tokens whose loss has a reason (an answer that was lost, OBS
closed with it in hand, a second approval over the first). `Conversation`: `service` has the queue and the
generation, `page` what is shown as waiting, `dialog` the other jobs; a request remembers what
question and conversation it was of. A question whose session cannot be opened (`unavailable`) is not counted.

## 3. The runs

"Pass" runs finish without an error; a "violation" run states what a document, comment or
test of the repository says, and TLC finds the code doing otherwise (section 6). Deadlock is not
checked: a bound (captures, cycles, the clock, calls), a Shutdown or the end of OBS ends the behaviours.
That nothing gets stuck is said by liveness, or by a conjunct that somebody holds what is waited for.

| run | asks | bounds, and why they are enough |
|---|---|---|
| `frame_ring` | safety of the ring, its selections, refinement of `DelayWindow` | 3 slots, 4 captures, 2 encoders, 2 readers, 4 allocations, clock 0..3: the ring wraps, encoders finish out of order, two readers share a slot, times repeat and go back; symmetric encoders, readers, allocations |
| `decode_chain` | chain and seq tell the truth, nothing undecided is lost, the decoder decodes exactly what it can | `MCDecodeRings`: 3 slots, 4 captures, 2 cycles, one fault, latency 2 (a chain as long as the ring, and one that wraps, ends, breaks and is mended); or 2 slots, 4 captures, no fault (the writer overwrites the frame due in the middle of a catch-up). 1.4 million states |
| `decode_key_due` | violation: a key that is due is skipped | |
| `pipeline_cycles` | who frees rings, where raw frames are, that Disable and Shutdown end well | 2 cycles, 2 raw frames, 2 workers, one frame in the encoder: a frame of the old cycle in every place while the next begins |
| `decoded_pool` | what is shown: cycle, order, age; that a frame due appears | a delay of 1, ring of 2, lookahead 2, one capture that no decoder accepts, 2 cycles, clock to 4: frames wrap, age in the pool over a pause, and a decode of the first cycle ends in the second |
| `buffer_mode` | audio, overlay, video and modes agree; Program is covered, fed, given back; every fill window ends | 2 canvases, 2 delays, 2 qualities; `Fit` trims the second canvas and quality to one second, so any change may restart the ring and shorten the delay; 1 upset (video reset, collection change or restart of OBS), one restart signal left in the queue; a user who puts another scene on Program at any time. 0.24 million states |
| `buffer_mode_core_host`, `buffer_mode_leftover_ring` | violations | as `buffer_mode`; for the first the host changes settings while filling too |
| `storage_codec` | setups, yields, failures, sessions | 2 NVENC encoders, each of which works at one of 2 sizes, OBS running 0 or 3 sessions of its own, 3 events (Enable, an output that starts or stops, a failure, a rung, an error of OBS's encoder): the Enable and any two others, at every moment of a setup, or a second cycle |
| `filter_parts` | seven parts of the filters | *arena*: blocks of 3 units, payloads 1, 2, 4 (one oversized), limit 10, 1 spare; *hardware*: 3 probe frames, 2 of the pipeline, 1 fault; *staging*: delay 5, clock 6, 2 cycles, 2 geometries, 1 trouble; *sound*: 2 delays, 7 time steps, 3 chunks of up to 2 samples at 2 per second, so the ring wraps; *sizing*: 2 changes among 2 delays, qualities and budgets; *ladder*: 3 rungs and half rate, 18 machines, the decoder 3 evaluations behind, 2 things wrong or unmeasured at each evaluation, 2 forced steps; *window*: a ring of 3, 4 samples. 0.37 million states |
| `host_parts` | ten parts around the filters | *guard*: 2 sounds and video, 2 outsiders; *account*: 2 tokens, 2 calls, 1 sign-in, 1 fault; *tasks*: 2 owners, 2 jobs; *support*: 2 questions in 2 conversations; *http*: 2 requests, answers of up to 2 chunks; *core*: 4 calls, 1 restart, 1 slow task; *dock*: 2 windows, RAM for one or two seconds; *scenes*: 2 live scenes, 2 edits by hand; *outputs*: 2 outputs, 2 mixes, 1 error; *session*: 3 sessions, 2 hand edits |
| `account_stale_check` | violation: an answer to an old token ends a newer sign-in | as the account of `host_parts` |

`filter_parts` and `host_parts` check several modules in one run. The variable `part` chooses one module
at the start, the variables of the others stay `Idle`, and each property is the module's own under
`part = ...`: a behaviour of the run is a behaviour of one part. The parts share no variable,
so interleaving them would show nothing more. Where two parts do interact, the composition
is a module (`BufferMode`, `BufferSizing`, `StorageCodec`, `Account`, ...).

Bounds that are constants of the models and not of the code have names that begin with `Max`, and
`Generations` (the code's fill generation is 32 bits; with two values a stale timer and the current one
differ, and a timer two windows old cannot exist, as arming replaces it).

Assumptions of `BufferMode`, each a guard there: a handler takes less than a second; the graphics
thread is never a whole second behind; a frame goes by between two uses of a dialog
(`ResetVideo`); at most `MaxInbox` restart signals wait for a whole second; the wrapper scene is not put
on Program by hand (`UserScenes`); one live scene; the overlay is on; audio filters are driven
together. Of `AudioDelay`: OBS stamps a steady source's chunks contiguously, so the 10 ms tolerance
is 0 and drifts below it are left out. Of `BufferSizing`: the budget never gives a ring of no second
(the code's floor is 1 GiB). Of `FilterGuard`: `Early = FALSE` (section 6).

### What the properties say

*Ring.* `PinnedFramesStay`, `AllocationOwnedOnce`, `UndecidedIsHeld`, and `ImplementsDelayWindow` for
the order of the window and what may leave it; `SelectionsRight` compares the code's searches with
their definitions over every reachable window and every time. *Arena.* `ArenaIsSound` (payloads never
overlap; lists, counters and the limit agree with the blocks), `MemoryComesBack`. *Chains.*
`SeqTellsReference` and `UndecidedIsHeldOnce` on the encode side, `DecodesWhatItCan` (the cursor accepts
exactly what is decodable, a restart is found when there is one, the catch-up gets there; with the types of the
decode side) and
`NeverWithoutReference` on the decode side: invariants I1 to I5 of `storage-codec.hpp`, in both
directions where that makes sense. A decoder that refuses too much freezes the picture, one that
accepts too much breaks it. *Cycles.* `OnlyReaperFreesRings`, `RawFramesInOnePlace`,
`DisableFreesRings` (and Shutdown). *Playback.* `ShownIsOfThisCycle`, `ShownInOrder` (forward only, nothing
from before a pause), `DueFrameIsShown` (which a lost wakeup of the decode worker would break).
*Encoder sessions.* `SetupIsHeeded` (a yield stays closed; a setup that failed is heard of, unless a later
request made it out of date), `FailuresCount` (a failed
encoder is not used again, OBS's error makes the buffer leave the engine), `SessionsClose` (on a yield
and on Disable, eventually). *Filter parts.* `PacketsAreThePipelines`, `PictureIsWholeAndDelayed`,
`HeardIsDelayed`, `AudioGetsTheRingsDelay`, `NeverLowerThanNeeded` (every rung above the one in use does not fit
the machine or was left when its own frames were in trouble; a step up that is counted on fits),
`WindowAnswersRight`.

*Buffer mode.* `InSync`, `ModeIsKept` (filters, keep-alive and overlay are what the mode says),
`ViewersSeeNoRefill` (shown only when full, a restart is covered, one scene is remembered),
`FillingEnds`. *Host parts.* `FiltersStay` (off stays off and on stays on), `OnlyOursIsOn` (filters, one scene, one
badge, and the badge visible and on top exactly when the dock asks and the call said so), `HeardOnce`,
`HostCommandsLand`, `DockIsTrue`, `SettingsSurvive` (unreadable texts are kept, a hidden switch is what the last
readable hand-written file says, what a session saved is what the next one gets; a hand edit, or a kill in the
middle of a save, ends the last two), `OwnersGetTheirResults` (no result to who closed, none lost; a wait that
did not reach its limit leaves no job of its own), `CallEndsCleanly`, `SignOutIsFinal`,
`AnswersFindTheirQuestion`.

Many of these are conjunctions of named parts, which the modules state one by one. Each module has
a type invariant, the first conjunct of one of them.

## 4. Fairness

Stated in each module next to the specification that uses it, and only for what the code's
threads do by themselves:

- `FrameRing`, the chain modules and the parts but `FrameArena` have safety properties only and no
  fairness. That the writer is not blocked for good is `UndecidedIsHeld` there: somebody always holds
  the capture that blocks it and will decide it. Where a wait could last for ever (a job in
  WinHTTP, a spinner, a result in a queue), the property says that what ends it is on its way.
- `FrameArena` (also in `filter_parts`): the reaper trims.
- `StorageCodec`: the setup thread, worker 0 and the reaper go on with what they have. Evaluations,
  outputs, resumes and the user are not counted on.
- `PipelineCycles`: calls of the graphics thread return; worker 0 works, and a job or decode that was
  started ends; the reaper and Shutdown go on. Packets coming out of the encoder, new cycles and
  the second worker are not counted on: Disable must free memory without them.
- `DecodedPool`: OBS renders and the decode worker runs. The clock and the encoders are not fair.
- `BufferMode`: weak fairness of the controller's thread and of rendering (a Render either sizes the
  ring or captures). Strong fairness of the fill timer, the restart signal and the second: they are
  enabled between handlers only, and a user who keeps the controller busy must not be able to stop
  them. Qt's queue is first in, first out, and seconds pass. Nothing the user does is fair.

## 5. The proofs

A run shows a property on a small instance; a theorem below states it for every value of the constants (ring
sizes, encoders, readers, outputs, bounds of every kind). All are proved from an inductive invariant: `Init`
implies it, a step keeps it, it implies the property; the last step is temporal logic.

| module | theorem | states |
|---|---|---|
| `FrameRingProofs` | `TypeCorrect`, `RingInvariantHolds` | `TypeOK`, `RingInvariant` always |
| | `PinnedFramesAlwaysStay`, `AllocationsNeverLeak`, `UndecidedAlwaysHeld` | `PinnedFramesStay`, `AllocationOwnedOnce`, `UndecidedIsHeld` |
| | `WindowStaysOrdered`, `RingImplementsWindow` | the window in time order; the ring implements `DelayWindow` |
| | `SelectionsAlwaysRight` | `SelectionsRight` |
| `DecodeChainProofs` | `ChainHolds` | `ChainInvariant` always |
| | `SeqTheorem`, `UndecidedTheorem`, `ReferenceTheorem` | `SeqTellsReference`, `UndecidedIsHeldOnce`, `NeverWithoutReference` |
| | `CursorTheorem` | the cursor accepts exactly the P-frames that can be decoded |
| `PipelineCyclesProofs` | `CyclesHold`, `ReaperTheorem`, `RawFramesTheorem` | `CyclesInvariant`, `OnlyReaperFreesRings`, `RawFramesInOnePlace` |
| `DecodedPoolProofs` | `ShownTheorem`, `ShownInOrderTheorem` | `ShownIsOfThisCycle`, `ShownInOrder` |
| `StorageProofs` | `StorageHolds`, `SetupTheorem`, `FailuresTheorem` | `StorageInvariant`, `SetupIsHeeded`, `FailuresCount` |
| | `ArenaTheorem`, `HardwareTheorem` | `ArenaIsSound`, `PacketsAreThePipelines` |
| `BufferModeProofs` | `ModeTheorem`, `SyncTheorem` | `ModeIsKept`, `InSync` |
| `HostPartsProofs` | `GuardTheorem`, `HeardTheorem`, `SettingsTheorem`, `CallTheorem` | `FiltersStay`, `HeardOnce`, `SettingsSurvive`, `CallEndsCleanly` |
| | `DockTheorem`, `ScenesTheorem` | `DockIsTrue`, `OnlyOursIsOn` |
| `HostLinksProofs` | `SignOutTheorem`, `CoreTheorem` | `SignOutIsFinal`, `HostCommandsLand` |

`StorageProofs` has what `StorageCodec`, `FrameArena` and `HwCodec` are about: what encodes the ring's frames,
where their payloads lie, and which packet is of which frame. `HostPartsProofs` and `HostLinksProofs` are both about `MCHostParts`, in two for their length: the
second has the account and the host program of the core build. The few lemmas on
the extremes of a set, and that a selection of `RingSelect` returns a Ready slot, are in each module that
needs them: these modules have variables of their own and cannot extend one another.

### Assumptions

The named assumptions of the modules, which TLC evaluates on every run: sizes and bounds are naturals,
`First` is one of the workers, the table `Fit` never gives more seconds than asked for. Those that are not
about sizes: `FilterAssumption` says that a scene has finitely many audio filters, `PartsAssumption` that the
main mix is one of OBS's mixes, `RepliesAssumption` that an answer has a size, `DockAssumption` that a quality is not 0,
`AccountAssumption` that the token of a kept sign-in exists and that calls have numbers, `ScenesAssumption` that
the scene an older version wrapped is one of the live scenes, `SettingsAssumption` that delays are naturals other than 0,
`HardwareAssumption` that the probe's second key lies inside the probe and that no frame has the number of
"out of order". Three theorems have
hypotheses of their own:

- `GuardTheorem` has `~Early`, as the run has: nobody switches a filter off in the moment between the bridge's
  switching it on and its listening (section 6).
- `ModeTheorem` and `SyncTheorem` have `Loading # ""`: without a loading scene Program stays where
  it is during a refill and the keep-alive is not taken (`LoadingSceneCalls`), so a user who shows another
  scene meanwhile may leave the ring unfed.
- `SyncTheorem` has `"Filling" \notin ChangeIn` (the dock's case; finding 2 is core-host's) and OBS video settings
  that stay the same. With one reset TLC shows `InSync` on the run `buffer_mode`; with two close together
  it does not hold (section 6).

### The inductive invariants, and why they are needed

**Ring.** None of the three ownership properties is inductive alone. That a pinned payload is not freed needs
to know that the encoder that publishes holds another one, which is ownership; that ownership survives
Publish needs the slot to be empty, which is `PayloadPlaces` (a payload is in a Ready slot or with an encoder
that publishes); that Publish finds the slot it began needs `UndecidedIsHeld`; that Reserve does not take
a pinned slot needs the pin count to be the number of readers on it, the other half of `PinnedFramesStay`. So

    RingInvariant == TypeOK /\ PinnedFramesStay /\ AllocationOwnedOnce /\ PayloadPlaces /\ UndecidedIsHeld

Pin counts are cardinalities, so those steps cite `FiniteSetTheorems`. With `WindowOrdered` it gives
the refinement: each action of the ring is a step of `DelayWindow` on the window in logical order, or leaves
that window alone, where the work is arithmetic of positions modulo `SlotCount`. `SelectionsRight` compares the
binary search, a recursive function, with its definition. No induction principle can be used (below), so
the proof goes by the least counterexample: of the ranges in which the search goes wrong take a shortest
one; one unfolding leads to a shorter range, which is right.

**Chains.** `ChainInvariant` relates four places a capture can be in: the ring, the jobs, the encoder, the frames
in flight. `RingSound`: slots of the ring are consecutive captures, and the undecided ones are what these
places hold, in order. `ChainsInOrder`, `SentBefore`: chains and seqs grow in the order frames are sent.
`KnownInOrder`, `KnownFollow`, `PacketsFollow`: what a packet in flight references is the frame that was sent before
it, of the same chain, and is stored or was lost; when a chain
is broken everything in flight is of it, and a key is on its way or will be asked for (`BrokenIsMended`). Only with these is `SeqTellsReference` kept when a packet
is published, since that is when a promise about a frame in flight becomes a fact about the ring.
`CursorIsReference` ties the decoder: the cursor, which the code has, names the packet that the decoder, which
the code cannot look into, decoded last.

**Cycles.** `CyclesInvariant` has `Resting` (what a thread holds in each of its states: a worker that settled holds no
ring), `Placed` (no raw frame in two places), `DisabledPoolIsEmpty` and `OnlyReaperFreesRings` itself, whose
proof is about sets: whoever lets go of a ring either leaves another holder or puts it on the reaper's list.

**Playback.** The code compares epochs, the property rings. `EpochMeansRing` says that a record whose epoch is the
present one is of the present ring, `EpochTells` that the epoch counts cycles begun and ended, `RecordsOK`
that the records are well typed. `ShownInOrder` is proved from it step by step.

**Encoder sessions.** `TargetTells` (an encoder is ready or wanted only while the policy has not left the
hardware), `NothingBlack` (nothing handed over, tried or open is on the blacklist unless a failure made the setup
out of date) and `OwedIsPending` (an error of OBS that still has to be acted on is in the news or with the policy).
`EvaluateDecides` and `EvaluateKeepsError` are lemmas on the policy's table of rules: the first that applies decides.

**Arena.** `ArenaInvariant` makes `ArenaIsSound` inductive by one fact about the blocks, `BlocksKept`: one given back has
nothing left of what it was, and a block in use is of the standard size unless it is oversized, so that a payload
that fits a spare fits every spare. Every allocation is one lemma, `PayloadIsTaken`: a payload put after all the others
of its block (that is what `used`, or an empty block, gives) overlaps none. The counters need sums over the
blocks and over what is held. The sum of the library takes an element by `CHOOSE`; that its recursion has one solution and
that the order does not matter is proved by the smallest set for which it fails, in lemmas of their own
(`TotalTakes`, `TotalSplits`), as are those on lists without repetition (`ListsJoin`, `AscendingIs`).

**Hardware encoder.** `HwInvariant` relates the frames asked for (`pending`) to the packets inside FFmpeg (`queue`):
`Earlier` (the times in both are below the next one to be given), `OwnPackets` (from the probe's end on, what comes
out under the time of a frame is that frame's packet, or the frame is marked to be discarded) and `SetsCome` (keys
carry their parameter sets, or only the first frame of all does). They hold of less than what was in flight
(`FewerInFlight`) and of one frame more, and every step is one of the two. `ProbeOK` and `DecodeOK` follow the probe:
frames are numbered as they are sent, and what came out tells whether there are sets to copy, so that `SetsReady`
holds when the pipeline begins: an encoder that gives its sets once has them copied. `SetsKnown` keeps that for
the quick probe of an encoder that worked before.

**Buffer mode.** A handler is the list of bridge calls it still has to make, and in its middle nothing holds that
the properties say. `BufferInvariant` therefore follows the calls to their end. A *view* has the
mode, which filters are on, keep-alive, overlay and countdown, and four claims (delayed, synced, told, fresh);
`Effect` is what a call does to a view. The invariant is: there are a view that is true now and a view to which
the calls left lead from it (`Leads`), and the second satisfies `ModeEnd` and `SyncEnd`. A call keeps it since
the view follows it (`CallMade`), the graphics thread since it changes nothing a view is about, except that
a ring may restart, which is announced (`Announced`); a handler starts with no calls left, where
both views are the same, and its list of calls leads where it should (`EnableLeads`, `StopLeads`, ...). That calls
lead from one view to another is said by the views in between (`Runs`), so lists are joined and
shortened without recursion.

**Parts around the filters.** A behaviour of `PartsSpec` is one of one part, so an invariant of a part is kept by the
others. *Guard*: `CallsLeft` (the calls left are those of the last request, in order), `OnSoFar`, `OffSoFar` (what
a call promises holds once it is made; a filter that is off while it should be on has somebody in the
callback who will see it kept). That a filter's calls come in order in the flattened list of calls is proved with
a least counterexample too. *Outputs*: `Counted` and `Lag` relate OBS's counters, the base of the watch and
what was told. *Settings*: `SwitchesKept` and `TextsKept` relate the file, what the user asked for and the
loaded settings, and what a session saved loads again as it was; a name for a file set aside is free since more numbers are tried than files
exist. *Web request*: `InUse` (who may touch the record), `Waking`, `Progress` (WinHTTP still owes the callback
the thread waits for, or the wake is set). *Dock*: a handler refreshes the dock by several functions,
each of a few fields, and a later one may undo what an earlier one set. `Refreshed`, `Counting`, `InRow` and `Spoken` say which
field shows what of the controller and the account once a handler is done; `HealthFacts`, `PopupFacts` and the
like say what one function sets and what it leaves alone, and a handler's step follows by composing them.
*Scene collection*: `Sound` is what holds in every collection, whoever edited it: names are unique, one
scene and one badge at most are in the wrapper, and the badge can be found again, since it has one of the plugin's names or the
marker. `BadgesShow` ties the badges to what the last call answered: what can be found is visible and on top
exactly if it said so, on each of the paths on which drawing or creating fails. Each builder keeps that (`WrapperEnsured`, `OverlaySet`, `MigratedIs`). `Joined` relates it to what the bridge
holds: what is on is what `held` refers to, and a reference that is alive is on. The user's renames need one
fact more: after a rename, no filter of the current name is left on that scene until the delay is off, or a
second rename would bring a dead reference back to life on a filter that is off.

**Sign-in.** Here the question is where a token comes from. `StoreOK`: what memory and disk hold was asked for
after the last sign-out, a plain-text token of an older version is alone. `CallsOK` and `PostedOK`: a call under way and
a result on its way to the UI carry the epoch of the store and the attempt of the sign-in they began with; while
these are the present ones, so is their sign-in. Then whatever a late answer writes is compared away or of this
sign-in. `Accounted` is the other half: a valid token is stored, in the hand of a call, being revoked
or one whose loss is named. A step is proved in two halves: what it does to store, session and server keeps
every call and result as it was (`Onward`: epochs, attempts and sign-ins only grow, a sign-out begins new ones; only a restart sets
them back, and it ends every call), and the call that makes it is replaced by one that is right again.

**Core host.** `EveryCommandOnce` is inductive with the types of the tasks; that an Update which saw its task done reports
a state after its own command is not. `QueueOK` adds what it rests on: the calls in the queue are later
than the last one done and stand in the order they were made. So when the last call is done no call is left
(`NothingLeft`), what ran is all that was sent, and the published count is the count of what ran. `FillOK` and
`OnStarted` hold after every notice, whatever the timer was before. The queue has any length: `TokensOf` is a
recursive function along it, and what it gives for a queue one task longer, at either end, is proved with a
least counterexample.

### Only model-checked, and why

- Liveness: `DisableFreesRings`, `DueFrameIsShown`, `SessionsClose`, `FillingEnds`, `MemoryComesBack`, and fairness with it;
  ENABLED.
- `DecodesWhatItCan` beyond the cursor: that a restart is found and that the catch-up arrives is about what a
  recursion along the chain computes, from any key on.
- `SelectSeq`, `FoldSeq` and the like on data: the library's theorems on them take an operator as a
  parameter, which the provers cannot instantiate. This leaves `OwnersGetTheirResults` and
  `AnswersFindTheirQuestion`, whose queues are filtered.
- `WindowAnswersRight`, `NeverLowerThanNeeded` and `AudioGetsTheRingsDelay` rest on sums and fractions, products of two
  variables, which the SMT solver does not decide.
- `ViewersSeeNoRefill`, and `PictureIsWholeAndDelayed` and `HeardIsDelayed` of `filter_parts`: section 8.

## 6. Findings

1. **A key that is due is skipped** (`decode_key_due`, `codec-pipeline.cpp:1197`). DecodeLoop pins an
   undecodable P-frame, an encoder then publishes a key, PlanDecodeStart answers "nothing to
   decode first" for that key, and StartFromKey treats this like "no plan": the picture
   holds until the next key. `frame-ring.hpp:188-190` promises the sooner one.
2. **core-host changes the delay while filling** (`buffer_mode_core_host`, `core-host.cpp:180`). The
   controller only stores it; at the end of the window audio follows the new value and video the
   old one. The dock locks its controls, core-host does not.
3. **A ring left over after loading** (`buffer_mode_leftover_ring`, `obs-frontend-bridge.cpp:1404`).
   Filters saved enabled render before the clean-up switches them off; nothing releases what
   they allocated.
4. **A check of an old token ends a newer sign-in** (`account_stale_check`, `auth-manager.cpp:262`). A session
   check is under way while the user signs out and in again; its 401 is reported as the end of the
   session, and the store is cleared of whatever token it has by then. `docs/SPEC.md:564-566` says:
   unless a newer token is stored.

The passing runs exclude what leads to 2 by a constant (`ChangeIn`), and say nothing of 1, 3 and 4.

Other limits are visible in the models, in a guard, a history variable or how a property is stated. No
document of the repository promises otherwise, or what they lead to is small:

- *Buffer mode, twice reset.* `SyncAudioDelayToVideoEffective` gives audio and overlay the seconds planned for OBS's
  video settings at that moment. If OBS's video is reset just before a handler asks, and reset back
  before the live scene is rendered again, the ring is kept, no restart is announced, and nothing
  corrects the delay until the next change, while `buffer-mode-controller.hpp:284-286` says this is right from
  Enable on. It takes both resets within a few frames of the handler; `buffer_mode` with `MaxUpsets = 2`
  finds it.
- *Buffer mode.* `FiltersFollowMode` excludes Error: the clean-up of a loaded collection runs in Inactive
  only (`buffer-mode-controller.cpp:614`), so a collection loaded in Error keeps the delay it was saved
  with.
- *Guard.* `OnStaysOn` holds with `Early = FALSE`. A filter that somebody switches off after the bridge
  switched it on and before the guard listens (`obs-frontend-bridge.cpp:834` and `841`) stays off;
  with `Early = TRUE` TLC finds that.
- *Degradation, lag.* A rung left because OBS lagged, dropped or missed frames stays left until the predictions for
  the larger one hold for a while, although its load may have fitted all along: `NeverLowerThanNeeded`
  allows that (`blamed`), since the code cannot tell.
- *Encoder sessions.* A job taken before Disable may ask for a setup after Detach, so a session is opened and
  held while the delay is off (`late`). A setup failure sampled together with a yield or a resume is
  lost, and the policy stays Probing for the cycle (`lost`, `storage-codec-policy.hpp:55`). The setup
  thread may open after the yield's wait saw no session. The first Render of a cycle clears a yield
  asked for between Enable and it (`video-delay-filter.cpp:1239`): the output that asked loses the engine,
  and `SessionsClose`, which follows the yield that is in force, does not object. An encoder that fails just before Disable and Enable may miss the
  blacklist.
- *Degradation.* After Rebase, frames of the same rung's old size still count as current.
- *Sizing.* OBS's video reset between Enable and the first sized ring reaches the audio at the end of the
  fill only.
- *Rendering.* `dropEvents_` is described as one event per capture lost (`video-delay-filter.hpp:563`);
  captures lost in staging push none. The video filter's own audio callback is never called.
- *Account.* The stale check also writes the old account's name onto the new record. A sign-in that was
  cancelled and started again may store two tokens in turn, the first never revoked. `PollOnce`'s
  approval shows the session without looking at the store again. A 401 `token_rotated` whose renewal
  failed ends the session. A support call whose dialog has closed loses the end of the session.
- *Support.* `resolved_` and `ticketCreated_` are never reset, so a second conversation after "It helped" is
  not closed as abandoned (`docs/SPEC.md:601-602`). Closing right after "It helped" drops queued
  events. A job that cannot be started leaves the spinner on.
- *core-host.* `GetHost` after Shutdown would create a new host. Update holds a raw pointer outside the
  lock. A command in the settings at creation never runs. A scene changed while the delay runs waits for the
  next Update after Disable. An Update that gave up publishes an older status.
- *Dock.* Values written by hand outside of its fields' ranges are shown clamped, while the controller uses
  them. Opening the scenes' popup refreshes the scenes but not the Enable button. A hotkey for off, while off or
  in Error, puts the live scene on Program.
- *Scenes.* A comment says filter names are globally unique; libobs keeps filters out of the global
  names. An unmarked badge of v0.5.1, renamed before it was ever shown, leaves a second one. A badge saved
  visible by a crash stays until the next fill ends.
- *Plugin.* The settings file is not written atomically: killed meanwhile, it is cut and the next session
  starts with defaults. Hotkeys queue tasks with a raw pointer (`plugin-main.cpp:426-430`), which is safe
  only because OBS runs its queue before it unloads the plugin.

## 7. What is not modelled

- Pictures: pixels, scaling, formats, shaders, GPU objects. Bytes of a packet: the raw codec
  (`mjpeg-codec.cpp`), packet parsing (`annexb.cpp`) and FFmpeg's options are data without state, the
  external encoder and decoder of the modules.
- Text: the redaction of logs, reports, wordings, translations, JSON. What is modelled of names is
  whether they are current, legacy or the user's.
- Widgets' painting, themes, layout; reading the machine's hardware.
- The second encode worker in `EncodeChain` (it stores keys only) and frames of the intra codecs in
  the decoder's cursor (they have decoders of their own).
- Fallbacks when a thread cannot be spawned, and the synchronous path (AcquireInline) beyond its pins.
- The degradation ladder of the synchronous path (`threaded_` false, which has parallelism steps of its own).
- Failures to create scenes and filters in `AutoScenes` (only the badge's own are there), and the migration of settings
  of older versions beyond reading what is missing as its default.
- In `BufferMode`: the yield and the ceilings (which `StorageCodec` and `BufferSizing` have),
  settings that need no filter. Both upsets in one behaviour (a video reset and a collection change): its
  `MaxUpsets` is 1.
- Interactions of parts that have a module each and are checked apart: the guard with the controller's
  handlers, the degradation ladder with the storage policy's samples, the dock with a core-host.
- `frame-ring.cpp`'s Due, GetCounts and Snapshot only read.
- `delay-controller.cpp`: nothing creates it.

## 8. Plan

Done: the ring and its proofs, arena, chains, cycles, playback, buffer mode and guard; then the encoder
sessions, hardware codec, policies, sizing, rendering, audio, core-host, dock, scenes, outputs,
settings, background jobs, web requests, account and support.

Then the proofs: the ring, its selections and its refinement of `DelayWindow`; both workers of the chains;
cycles; playback; encoder sessions; the arena; the hardware encoder; buffer mode; and of the parts around the filters the guard, outputs,
settings, web requests, dock, scenes, sign-in and core-host.

To come, more proofs of properties the runs check, in this order:

1. `PictureIsWholeAndDelayed` of `RenderPath` and `HeardIsDelayed` of `AudioDelay`;
2. `ShownWhenFull` and `RestartIsCovered` of `BufferMode`, along the calls left of a handler as in
   `ModeTheorem`;
3. `AnswersFindTheirQuestion` and `OwnersGetTheirResults`, which filter queues (`SelectSeq`) at any length.
