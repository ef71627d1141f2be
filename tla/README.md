# A verified model of iris-vaapi's decode core

iris-vaapi is a VA-API driver for stateful V4L2 video decoders (Qualcomm Iris).
Applications such as Chromium and FFmpeg call it through libva: they create
*surfaces*, create a *context* per video, submit *pictures* into surfaces, and
sync or export the surfaces they want to show. The decoder is a firmware that
takes access units on one V4L2 queue (OUTPUT) and returns frames on another
(CAPTURE), later, in its own order, and only as long as somebody takes them.

What is hard about it is in between: which surface does a returned frame belong
to, when may a client look at a surface, and what happens to all of it at a
seek, at a timeout, or when a context is destroyed under way. This directory
models that part in TLA+, checks it with TLC and proves parts of it with TLAPS.
Around it are the driver's outer layers: what the frontend's tables and the codec
adapters must get right for the core to see what the client meant.

## 1. Inventory of the system

| Component | Source | State | Operations |
|---|---|---|---|
| VA-API frontend | `src/src/vaapi/` | tables: 32 configs, 8 engines (swap-remove), 8 retired VP9 contexts, 256 buffers, images; id counters | the libva entry points; each finds its engine or surface and calls one of the components below |
| Codec adapters | `src/src/codec/` | slices collected for the current picture, parameter set caches, field state, the last sequence | begin, render, build an access unit, finish a picture |
| Decode scheduler | `src/src/decode/decode.c` | per context: current picture, `seq`, `target_ring`, `hevc_ring`, field pairing, `fatal_error` | create, begin, end, sync, destroy; `assign_frame` |
| Stream and session lifecycle | `src/src/decode/stream.c` | per context: `dec_open`, `dec_started`, `eos_sent`, `last_submit_ns` | `ensure_decoder`, `drain_available`, `wait_surface_ready`, flush, `stream_boundary_restart` |
| Surface registry | `src/src/decode/surface.c` | per display: 128 surfaces (backing, owner, generation, epoch, queued, decoded, fence), `epoch`, `last_frame` | alloc, free, export, sync, backfill, begin/finish write |
| Vulkan capture copies | `src/src/decode/vk_capture.c`, `src/src/vk_copy.c` | pending copies per context, import cache (192) and jobs (32) per display | submit, reap, forget; opt-in |
| V4L2 transport | `src/src/platform/qcom/` | file descriptor, 16 OUTPUT and up to 20 CAPTURE buffers, EOS, fences | open, start, feed, dequeue, STOP, source change, close |
| Platform selection | `src/src/platform/` | none after start | table lookup |
| Bitstream serialization | `h264_params.c`, `hevc_params.c`, `hevc_slice_rewrite.c` | none | VA structures to NAL units |
| Statistics, dumps, frame stamps | in `decode.c`, `surface.c` | counters | diagnostics |

How they interact:

- A call on a context (`vaEndPicture`, ...) holds that context's mutex from its
  entry to its return. Inside, it loops: poll the descriptor, take a frame,
  assign it. While it holds the mutex the firmware, calls on other contexts and
  calls on surfaces go on.
- Surfaces belong to the display and outlive the context that decoded into them.
  `owner` points back to that context; `vaSyncSurface` follows it.
- The registry has no lock. Epoch, owner, `queued` and `decoded` are read by
  `vpu_surfaces_sync` before any mutex is taken.
- Frames and pictures meet by timestamp: `seq` is put into the access unit's
  timestamp, and slot `seq % ring` remembers surface and generation. On
  platforms with the HEVC_CAPTURE_FIFO quirk they meet by arrival order instead.
- A seek is not visible to the driver. The first random access picture with a
  new sequence, a pause before it, or a session at its end counts as a stream
  boundary: the old session is drained through LAST, closed, and the display
  enters a new *epoch*. Surfaces last written in an older epoch are stale and
  are backfilled (last frame, or black) when they are synced.

The hard behaviours, and for each component what makes it correct:

- *Registry*: what a client is shown is never from before a seek; a surface that
  is reported decoded shows the picture it was begun for; no surface refers to a
  freed context; every fence can still be signalled, and is not signalled early.
- *Scheduler*: every frame reaches the surface of its picture, whatever is
  reused, dropped or late; timestamps identify pictures; queues at their limits
  never stop a call; a sync ends.
- *Stream lifecycle*: units of two streams are never in the VPU together; a
  boundary and a destruction finish what was accepted.
- *Vulkan copies*: a copy marks only the picture it was submitted for; every
  CAPTURE buffer goes back exactly once; the cache forgets closed sessions.
- *Transport*: no buffer is queued twice or lost across a renegotiation; frames are
  described as they were decoded; nothing uses a closed descriptor.
- *Frontend*: ids resolve to the object they were given for; a failed call gives
  back what it took, but for the surfaces `vaCreateSurfaces` made before its bound;
  a VP9 context predicts only from pictures its session
  decoded, although the client destroys and creates contexts under way.
- *Codec adapters*: the firmware can parse every unit with the parameter sets its
  session was given; a rewritten HEVC slice means what the client's meant; a
  session is replaced only at key pictures, and at every one after a pause.

`PROJECT.json` lists the hazards one by one, at their lines, with the properties
that watch them.

## 2. Modules

| Module | What it is |
|---|---|
| `SurfaceRegistry` | the registry's records and the rewrites of one record (begun, claimed, landed, finished, backfilled, new epoch). No actions: each rewrite happens inside a call of `Decode` |
| `Decode` | the scheduler, the session lifecycle and the registry calls, driven by a libva client and a firmware that are external to the repository |
| `DecodeProperties` | what the core promises, the inductive invariants, and the fairness |
| `SurfacePromise` | the abstract specification: what a surface promises the client, without contexts, sessions, rings, epochs or fences |
| `DecodeImplementsPromise` | the refinement mapping from `Decode` to `SurfacePromise` |
| `MCDecode` | what TLC needs: the symmetry set. The bounds are in the `.cfg` files |
| `V4l2Transport` | the V4L2 transport call by call: each operator is one function of `v4l2_decoder.c` with all its ioctls; and, external, the decoder behind the descriptor |
| `V4l2Session` | one caller of the transport: open, feed, start, drain, flush, close in the order `stream.c` and `decode.c` use, and what it may rely on |
| `VkCapture` | asynchronous GPU copies of one context over `V4l2Transport`: pending ring, jobs, import cache, and the calls that submit, reap and forget them |
| `MCVkCapture` | the symmetry set of `VkCapture` |
| `VaFrontend` | the libva entry points on configs, contexts, surfaces, buffers and images: each table with its array, bound, ids and failures; VP9 contexts retired, taken over and swept |
| `MCVaFrontend` | the clients of the run: which table each of them presses |
| `HevcSliceRewrite` | `hevc_slice_rewrite.c` as functions on bits and bytes: reader, writer, emulation prevention, inline reference picture sets |
| `CodecAdapters` | the H.264, HEVC and VP9 adapters over one firmware session: rendering, building, parameter set caches, the restart decision of `vaEndPicture` and its failures |
| `MCCodecAdapters` | the streams of the run, made by a small encoder; TLC checks that each is `WellFormed` (`StreamsAssumption`) |
| `DecodeOwnershipProofs` | type correctness; owners, calls, fences; how a session ends |
| `DecodePairingProofs` | sessions, epochs and pixels; timestamps, ring slots, and which picture a frame is |
| `DecodePromiseProofs` | `Decode` implements `SurfacePromise`, and what that is worth; and that nothing is lost: waits can complete, boundaries leave nothing behind, fences cover the writes, and the promise gives no picture up |
| `V4l2TransportProofs` | what every call of the transport and every step of the decoder keep true, for any caller: one lemma per call |
| `V4l2SessionProofs` | the four invariants of a transport session |
| `VkCaptureProofs` | buffers, imports, fences and pixels of the asynchronous copies |
| `VaFrontendProofs` | the frontend's tables: ids, handles, mappings, the places of contexts, the references of VP9 pictures |
| `CodecAdaptersProofs` | what an adapter holds after every buffer; key pictures and sequences; the parameter sets and slices of a unit |

### State

| Variable | In the code |
|---|---|
| `surf[s]` | `struct vpu_surface`: `life` (not created, live, freed), `decoded`, `queued`, `exported`, `fence` (`fence_token`, 0 for none), `gen`, `epoch`, `owner`, and `px`, the picture in the backing |
| `resv` | the reservation fences in the kernel, not yet signalled: the session that attached it, the backing, the token |
| `reg` | `epoch`, `last_frame`, `last_frame_epoch` of `struct vpu_surfaces` |
| `ctx[c]` | `dec_open`, `dec_started`, `eos_sent`, `fatal_error`, `seq` |
| `pend[c]` | `target_ring` and, oldest first, `hevc_ring` |
| `paff[c]` | `second_field`, `field_open`, `field_ts`, and the field flag of the H.264 adapter |
| `cur[c]` | `current_target`, `current_generation` and what the adapter collected |
| `pc[c]` | where the call that holds the mutex of `c` is |
| `dev[c]` | the firmware session: access units held, frames waiting, STOP, LAST |
| `sync` | the `vaSyncSurface` in progress |
| `goal`, `stream`, `pictures` | history: the picture a surface was last begun for and whether it was backfilled since, streams abandoned, pictures begun |

A picture is a number with its context and its stream, so that "pre-seek" and
"the right picture" are statements about the state. Pixel formats, sizes and
bitstreams are not represented. Timestamps keep the code's form, `seq + 1000`,
so that a frame without one (0) is told apart.

`V4l2Transport` and `VkCapture` look at the same system from below, and keep what
`Decode` abstracts:

| Variable | In the code |
|---|---|
| `dec` | `struct v4l2_dec`: streaming flags, `eos`, POLLPRI seen, CAPTURE size, `cap_generation`, `cap_count` |
| `freeOut`, `capQueued` | the stack of free OUTPUT buffers; `cap_queued` |
| `vdev` | the decoder: queued and finished buffers of both queues, pending events, the size it decodes at, STOP, LAST |
| `pc`, `cur`, `stopSent`, `spins` | `V4l2Session`: where the caller is, the frame in its hand, `eos_sent`, rounds left in `v4l2_dec_close` |
| `srf` | `VkCapture`: `struct vpu_surface` without epochs, with `initialized`, `fence_token` and `backing_serial`, and the picture its backing shows (black and torn included) |
| `mapped`, `pend`, `jobs`, `imports`, `vk` | `target_ring`, `pending_copies`, the engine's jobs and import cache, `vk_copy_failed` with the CAPTURE keys |
| `sess`, `call` | the firmware session; the client's call in progress |

`VaFrontend` and `CodecAdapters` look at it from above:

| Variable | In the code |
|---|---|
| `configs`, `bufs`, `imgs`, `surfs`, `engines`, `retired`, `derived` | the arrays of `vpu_drv_data` and the registry, in array order, so that a swap-remove moves the last entry |
| `ids`, `client`, `releaseAu` | the id counters and the failures so far; the bounds this client keeps to; the platform's quirk for VP9 |
| `decs`, `refs`, `held` | the decode contexts by number; which pictures a firmware session can predict from (external); the handles the client holds |
| `adapter` | `struct h264_codec` / `hevc_codec` / `vp9_codec` of the current picture: parameters, NAL units, `slice_next`, `pps_id`, `rewritten`, the IQ matrix |
| `cache` | `last_*`, `raw_*`, `pps_refs_l0/l1`: what the adapter believes was sent |
| `session`, `firmware` | `dec_open`, `dec_started`, `eos_sent`; the parameter sets the session holds (external) |
| `stream`, `pic`, `sent`, `seq` | the client: codec, packing and pictures; the picture being sent and how many of its buffers were |
| `fed`, `lost` | history: the unit accepted last; whether a failure is yet to be healed by a restart |

A parameter set is the record of what it depends on. An HEVC slice is its bytes:
the run's encoder writes it, the adapter rewrites it, and a reference parser,
written from the other side (a bitstream without reference picture sets in the
SPS), reads it back.

A job of the GPU carries the memory it reads and writes. It ends at any time
after its submission; if the decoder may write into the source by then, what the
surface shows is torn. So "not requeued too early" is a statement about pixels
and not about a flag.

### Actions

Fences are numbers. A context counts its pictures (`Token`, `decode.c:680`) and
its session attaches a fence under that number (`Attached`); the surface records the
bare number, and whoever finishes a write signals it through its own session
(`Signalled`: fences of that session with that token, of no other). A surface
claimed by one context while another still has it in flight would thus signal
nothing, or a fence of the claimer that bears the same number. `SharedTargets` says
whether clients do that. The kernel is taken to signal nothing for a token its
session did not attach, and nothing on close (a comment in `docs/seek-debug.md` says
that `iris_close()` releases fences; the driver does not rely on it). A backing that
takes no fence is not told apart: no GPU client waits for it.

| Call | Actions, in order |
|---|---|
| `vaCreateSurfaces`, export, destroy | `AllocSurface`, `ExportSurface`, `FreeSurface` |
| `vaCreateContext`, `vaBeginPicture` | `CreateContext`, `BeginPicture` |
| `vaEndPicture` | `EndPicture` or `EndPictureFails`; at a boundary `TakeFrame`* `FlushDone` `Restart`; `OpenSession`; `ClaimTarget`; `TakeFrame`* while the input is full; `Feed`, `SubmitFails` or `StartFails`, the last two to `Unwind`; `TakeFrame`* `DrainDone`; for an exported target `TakeFrame`* `WaitDone` |
| `vaSyncSurface` | `SyncSurface`; `SyncFilled`, or `SyncEnter` `TakeFrame`* `SyncReturn` |
| `vaDestroyContext` | `DestroyContext`; `TakeFrame`* `FlushDone`; `Teardown` |
| a loop that fails | `CallFails` (device error), `TimesOut` |
| firmware | `FwDecode`, `FwDrop`, `FwLast` |

`TakeFrame` is one turn of the code's four dequeue loops with the whole of
`assign_frame`; what the loops do differently (which of them take an empty
frame, stop at LAST, look at `fatal_error`) are conjuncts of its guard. A step
ends where the code can be overtaken: where it polls, and where it reads the
registry without a lock. `surfs_backfill_stale` is two steps because it copies
pixels and then stores the epoch.

The client keeps libva's rules: it does not destroy what it is using, sends the
second field right after the first, and does not sync a frame of which it has
sent only one field. With `ConcurrentClient` it has one thread per context and
one that creates, frees and syncs surfaces; otherwise it makes one call at a
time. `Faults` names what may fail outside the code: lost pictures, access units
that cannot be built, refused STOPs, opens, submissions and starts, device
errors, failed copies, timeouts of waits and of drains. Each fault is a choice
at every point where it can occur, never an event of its own.

`V4l2Session` and `VkCapture` compose the transport's operators: a step of the
caller is one call of the transport, and the decoder (`Device`) moves between any
two of them. In `VkCapture` a call of the client is a walk over `call.pc`:

| Call | Actions, in order |
|---|---|
| `vaBeginPicture`, `vaDestroySurfaces`, export | `BeginPicture`, `FreeSurface`, `ExportSurface`; the first two wait for a pending copy |
| `vaEndPicture` | at a boundary `Boundary` (flush loop) `Restart`, or `ReopenAfterEos`; `OpenSession`; `ClaimTarget`; `FeedUnit`, with the drain loop while `InputFull`; `StartSession` `SessionStarted`; drain loop; for an exported target the wait loop |
| `vaSyncSurface` | `SyncSurface`; wait loop |
| `vaDestroyContext` | `DestroyContext`; flush loop; `Teardown` |
| drain, wait and flush loops | `Reap` `PollDevice` `Events` `TakeFrame` or `TakeNothing`, then `assign_frame`; `CheckSurface`; `GiveUp` at a deadline |
| `assign_frame` | `DropFrame`, `DropLast`; `NewRing` and `MakeRoom` before a copy; `AssignFrame` with `AsyncCopy`, `DirectCopy` (exported), `CopyFails` or `CpuCopy` |
| GPU | `GpuRuns` |

In `VaFrontend` every libva call is one action of the same name (a display's calls
are serialized there; what two contexts do to each other below is `Decode`'s):
`CreateConfig`, `DestroyConfig`, `CreateContext`, `DestroyContext`,
`BeginPicture`, `RenderParameters`, `RenderSlice`, `EndPicture`,
`EndPictureFails` (a boundary whose drain fails, a session that cannot be opened, a
unit refused, or taken with what follows it failing), `SyncSurface`, `CreateSurfaces`, `DestroySurfaces`,
`CreateBuffer`, `DestroyBuffer`, `CreateImage`, `DeriveImage`, `DestroyImage`,
`Terminate`; `Land` is a frame that arrives. In `CodecAdapters`, `BeginPicture`,
one `Render` per buffer, and `vaEndPicture` by how it ends: `EndRefused` (nothing
to build), `EndUndrained` (a boundary whose drain timed out), `EndPicture` (with
`fault` naming the step that failed, if any; `wait` is what follows an accepted
unit: the drain, VP9's release units, the wait for an exported target); `Flush` is the end of stream that a
wait for the newest VP9 picture sends.

### The promise of a surface

`SurfacePromise` has one state per surface: open, pending (a picture was
accepted), ready, filled. `Deliver` takes a surface from pending to ready and it
then shows the picture last begun; `Fill` is allowed only on a surface not written
since the last seek, once, and shows black or a ready picture of this stream;
`Seek` gives up pending pictures only if something failed (`Lossy`); `Tell` needs
a surface that is not pending. The mapping (`DecodeImplementsPromise`) reads the
state off `surf` and `goal`; a backfill, two steps of the code, is one of the
promise. What refinement adds to the invariants: it says which step may take a
surface where, so a repeated frame must be a ready one and a lost picture must
have a failure behind it.

`ReadyIsRight` says that the abstract specification, read through the mapping,
never calls a surface ready that shows another picture, and `PromiseShowsPictures`
says what that means for the code:
`KeepsThePromise => []DecodedHoldsItsPicture`. That is why `playback` and `faults`
check the refinement and do not state the invariant a second time.

## 3. What TLC checks

| Run | Configuration | Question |
|---|---|---|
| `playback` | 1 context, 2 surfaces, PAFF fields, no faults, fairness | do the surfaces keep the promise without losing a picture, do fences last as long as the writes, and does every call and sync end? |
| `hevc_playback` | HEVC FIFO, 2 mappings for 1 + 1 buffers, 4 pictures, timeouts | does the FIFO pair right when it is exactly full, and has every queued picture its unit and its mapping? |
| `faults` | 1 context, every fault but a failed start, display order | do the surfaces keep the promise, epochs keep pre-seek pixels away, streams stay apart, whatever fails? |
| `threads` | 2 contexts, 3 pictures, concurrent client, failed starts, timeouts | does anything point to what is gone, and is a fence left that nobody can signal? |
| `v4l2_ring` | `V4l2Session`: 2 + 2 buffers, 4 units of 2 sizes, 2 sessions, repeated events, failing set-ups, submissions, STOPs and time limits, fairness | is a buffer ever lost, queued twice or described wrongly, across renegotiations and closes, and does a flush end? |
| `gpu_copies` | `VkCapture`: 2 surfaces, 3 CAPTURE buffers, 1 pending slot, 2 jobs, 4 imports, 3 pictures, 2 sessions, failing submissions and time limits | do asynchronous copies keep buffers, fences, imports and pictures together? |
| `frontend` | `VaFrontend`: 5 clients, each pressing one or two tables to their bound of 2, 3 contexts, 2 sizes, 3 profiles, one failing call | do handles, mappings and retired sessions survive every order of calls? |
| `codecs` | `CodecAdapters`: 3 codecs, all packings, parameter sets of 0 to 5 reference sets, 4 reference lists, 2 payloads, 2 sequences, pauses; a few streams with failures | can the firmware parse what it is given, and are sessions replaced only where they may be, and where they must? |
| `sync_of_stale`, `backfill_race`, `early_export`, `first_unit` | one finding each, see section 5 | |

The properties of the scheduler are in `DecodeProperties`, those of the transport,
its caller, the copies, the frontend and the adapters at the end of their modules, each with the code it is
about. Every one has a mutant in `PROJECT.json`: a plausible mistake in the mapped code (a
boundary that does not wait for LAST, a fence signalled on return, `seq` not
advanced, ...) that makes TLC find it violated.

**Bounds.** `MaxPictures` bounds the pictures a client begins (2 to 4) and is
tested in `BeginPicture`; ids are never reused, so a run has two surfaces and
one or two contexts. Two surfaces are enough for a target that is reused while
its earlier picture is under way next to one that is not; three pictures for a
picture before, at and after a boundary; OUTPUT + CAPTURE buffers equal to the
slots of the ring put both rings at their limit. The code has 16 + 20 buffers
and rings of 1024 and 512; only the ratio matters for the pairing, and the assumption
`OutBuffers + CapBuffers <= RingSize` (and `<= FifoSize`) is the code's.
`Faults.cfg` lets the firmware return frames in display order with two picture
order counts, because pairing by timestamp must not depend on the order.

In `V4l2Ring.cfg` two buffers on each side fill and empty both queues within four
units, two sizes give a renegotiation there and back, and two sessions a close
whose leftovers a second session could meet; `CloseSpins` stands for the 25
rounds of the close. In `GpuCopies.cfg` one pending slot makes the pressure valve
of `surface_vk_submit` run, which 20 buffers against 32 slots never do in
practice; four imports are the two surfaces and two CAPTURE buffers, so the cache
does get full and the fallback to the CPU happens; three CAPTURE buffers are one
more than a pending copy and the frame in hand hold, so that a flush can end. A
larger instance (three surfaces, two pending slots, one session) was run once
with the same result; it takes minutes and is not kept.

In `Frontend.cfg` every table has two places, so that the third object meets the
bound and a swap-remove moves a neighbour; each client may create many objects of
one kind and few of the others, because the tables meet only through surfaces.
`Codecs.cfg` starts from one of 342 streams; 64 by 48 samples with blocks of 16 give
slice addresses of four bits, a distance of 32769 between references a code of 31
bits, 33 zero bits after the reference picture set an escape that moves when the
header changes length, and payloads that begin with zeros or hold an escape of
their own. `MaxSlices` is 4: no stream sends more, so that bound of the adapter is
not met.

`Threads.cfg` has three pictures, so that a surface can go from one context to the
other and back with the tokens of both counting from one. The sizes of the runs, in
distinct states: `playback` 537 412, `hevc_playback` 470 871, `faults` 752 463,
`threads` 2 071 881, `frontend` 930 888, `codecs` 524 280.

**Deadlock.** The configurations say `CHECK_DEADLOCK FALSE` because the client
may run out of ids and pictures; then the system really stops. That no call
stops half way is checked as `EveryCallReturns`.

**Symmetry.** Surfaces and contexts are only compared for equality; the runs
without liveness use the permutations of both.

**Fairness.** `LiveSpec` has weak fairness on the steps inside a call, on the
firmware of each context and on the steps of a sync: a thread that is not
blocked runs, and a decoder with input and a free CAPTURE buffer decodes.
Nothing is assumed of the client. `V4l2Session`'s `LiveSpec` is the same for the
transport: the decoder works while it can, the loop of a flush polls on (it is a
loop, and its time limit is a fault that ends it early), and a close in progress
goes on. In particular a held first field is not
decoded until a next picture or STOP arrives, and a picture is not assumed to be
followed by another.

## 4. What TLAPS proves

About `Decode`, for every set of surfaces and contexts, every number of buffers and
slots that `DecodeAssumption` allows, any set of faults and any number of pictures:

| Theorem | States | Needs |
|---|---|---|
| `TypeCorrect` | `TypeOK`, with the V4L2 queues and the mapping ring within their buffers | the assumptions on constants |
| `OwnershipHolds`, `NoDanglingOwner` | `OwnershipInv`, `OwnersAlive` | nothing else: any number of client threads |
| `FencesOrderly`, `FencesSignallable` | `FenceInv`, `FenceHasOpenOwner` | `~SharedTargets`, `~FieldPictures`, no failed copy: any number of client threads |
| `StreamsNeverMix` | `StreamsDoNotMix` | nothing else |
| `PixelsHold`, `NoPreSeekPixels`, `SyncIsCurrent` | `CurrentPixelsInv`, `NoAbandonedPixels`, `SyncShowsCurrentStream` | `~ConcurrentClient`, `~HevcFifo` |
| `BoundariesObserveLast` | `BoundaryObservesLast` | a drain does not time out, its device does not fail |
| `TimestampsAreUnique` | `TimestampsUnique` | `~FieldPictures`, no failed start |
| `PairingHolds`, `PicturesAreRight` | `PairingInv`, `DecodedHoldsItsPicture` | the same, and `~HevcFifo` |
| `ClaimsHold` | `PromiseKeptInv` | the same, and `~ConcurrentClient` |
| `DecodeImplementsThePromise` | `KeepsThePromise`: `Decode` implements `SurfacePromise` | the same, and `Faults # {}` |
| `ReadyIsRight`, `PromiseShowsPictures` | the promise implies `DecodedHoldsItsPicture` | nothing else |
| `DeliveryHolds`, `QueuedWillComplete` | `DeliveryInv`, `QueuedCanComplete` | `Reliable` |
| `FencesCoverWrites` | `FenceCoversTheWrite` | `Reliable`, `~SharedTargets` |
| `PicturesAreRightInOrder` | `DecodedHoldsItsPicture`, by timestamp and by HEVC FIFO | `Reliable` |
| `AcceptedWorkIsDone` | `AcceptedWorkCompletes` | `Reliable`, `"stop" \notin Faults` |
| `NoPictureIsGivenUp` | `KeepsThePromise`, also with `Faults = {}`, where a seek may lose nothing | the same, and `~HevcFifo` |
| `FinishedPicturesStay` | `FinishedPictureStays` | `OneContext`, `~ConcurrentClient`, `~HevcFifo`, `~FieldPictures`, no failed start |

`Reliable` says that the client has one thread, that pictures are frames, that the
firmware returns them in decode order, and that nothing fails but syncs that time out,
units that cannot be built, refused STOPs and failed opens.

About `V4l2Session`, for every number of buffers, sizes, units, sessions and rounds
of a close, and every set of faults, without further hypotheses:

| Theorem | States |
|---|---|
| `SessionHolds`, `SessionTyped` | `SessionInv`, `TypeOK` |
| `BuffersStayAccounted` | `BuffersAccounted` |
| `NothingAfterLast` | `EosIsLast` |
| `FramesKeepTheirSize` | `FrameHasItsLayout` |

About `VkCapture`, for every set of surfaces, every number of buffers, pending
slots, jobs, imports, pictures and sessions, and every set of faults:

| Theorem | States | Needs |
|---|---|---|
| `CaptureHolds`, `CaptureTyped` | `CaptureSafe`, `TypeOK` | nothing else |
| `ImportsAreKept` | `ImportsOutliveJobs` | nothing else |
| `CopiesAreFenced` | `FenceCoversTheCopy` | nothing else |
| `NoImportIsLeft` | `CaptureImportsCurrent` | nothing else |
| `FencesWillSignal` | `FenceWillSignal` | nothing else |
| `CaptureIsConserved` | `CaptureConserved` | nothing else |
| `CopiesAreRight` | `DecodedHoldsTheCopy` | `~EarlyExport` (run `early_export` shows that it cannot be dropped) |

"Nothing else" is besides `CaptureAssumption`, which has one picture size: a size
change is a stream boundary for the two codecs `VkCapture` stands for.

About `VaFrontend`, for every bound of a table, every set of clients, profiles and
sizes that `FrontendAssumption` allows, and any number of failing calls, without
further hypotheses:

| Theorem | States |
|---|---|
| `FrontendHolds`, `FrontendTyped` | `FrontendInv`, `TypeOK` |
| `HandlesStayResolved`, `MappingsStayLive` | `HandlesResolve`, `MappingsLive` |
| `ContextsStayPlaced` | `ContextsPlaced` |
| `PicturesFindTheirReferences`, `ReferencesStay` | `PicturesMeetTheirReferences`, `ReferencesKept` |
| `SweepLeavesHolders` | `SweptSessionsHoldReferences` |

About `CodecAdapters`, for every set of well-formed streams (`StreamsAssumption`),
whatever fails and in whatever order the client sends their pictures:

| Theorem | States | Needs |
|---|---|---|
| `AdapterHolds`, `SequencesHold`, `TypesHold` | `AdapterInv`, `SequenceInv`, `TypeInv` | nothing else |
| `RestartsOnlyAtKeyPictures` | `RestartsAtKeyPictures` | nothing else |
| `SessionsPlayOneSequence` | `OneSequencePerSession` | nothing else |
| `AdaptersTyped` | `TypeOK` | `NoRewriting` |
| `UnitsCanBeParsed` | `UnitsDecodable` | `NoRewriting` |

`NoRewriting` leaves out the HEVC streams whose slice headers the adapter rewrites
(those without parameter sets of their own).

**Ownership.** That a destroyed context leaves no pointer behind does not follow
from `Teardown` alone. `detach_owned_surfaces` and `finish_pending_writes` sweep
the live surfaces, so one needs `OwnedAreLive`; a frame can make a context the
owner of a surface again at any time a call is inside it, so one needs
`CallsOnLive`; and a sync that found an owner takes its mutex later, so one needs
`SyncOwnerAlive`. Together they are `OwnershipInv`, which is inductive given
`TypeOK`. Most steps are *quiet* (they hand over no surface and close no session)
and are dealt with by one lemma, `QuietStep`; the others are restarts, openings,
claims, landings and teardowns.

**Fences.** That a fence in the kernel can be signalled needs more than an owner with
an open session: the owner must be the session that attached it, and the surface must
still bear the number. `FenceInv` says why: at any time only one context has a way to
write into a surface, be it the picture under way or a mapping that still leads there
(`ClaimsOwn`), so only that context's calls touch the surface's token; a mapping
of another context is of a generation that has passed (`GenerationsPast`, `FifoPast`);
and every fence is recorded where it was attached (`AttachedRecorded`). A client that
begins a picture on a surface another context has in flight breaks `ClaimsOwn`, and
then the theorem is false (section 5), hence `~SharedTargets`. A failed copy is
excluded because it includes a signal the kernel refuses: `surface_finish_write` forgets
the token all the same (`surface.c:126-130`), and that fence stays. Field pairs are
excluded from the proof because the order of generations it rests on is stated for
frames (`NoPairs`): the two fields of a pair are one generation. `Threads.cfg` with pairs and two pictures was
run once without a violation. Conversely no fence is
signalled early: two surfaces of a context never bear the same token (`TokensApart`), so a
sweep or a landing signals its own fence only, and what is pending is covered
(`WritesCovered`, together `CoverInv`); this uses the delivery argument below, so it
needs `Reliable`.

**Sessions.** `StreamsDoNotMix` is inductive together with `LastHasNoTimestamp`:
what is fed is of the current stream, what the firmware emits is what it holds,
and the stream moves on only with an empty session.

**Pixels.** `NoAbandonedPixels` needs three things that are true of the code and
not of a single line: the frames of a session are of the current stream (the
session invariant); nothing is ahead of the display's epoch (`EpochsPast`), so
that a new epoch makes every surface stale at once; and nothing happens between
the two halves of a backfill (`OneCall`, `SyncedSurfaceCurrent`). The last one is
where `~ConcurrentClient` is used; run `backfill_race` shows that it cannot be
dropped. `~HevcFifo` is used for an empty LAST frame: by timestamp it belongs to
no picture; by arrival it would mark a surface decoded that holds old pixels.

**How a session ends.** `BoundaryObservesLast` is about one step, the restart, but
that the session is then empty was decided earlier: STOP goes to a running
session and nothing is fed after it, LAST is emitted when nothing is held, and is
the last frame (`SessionsEnd`). The invariant says in addition which calls may
meet a session that was stopped. A drain that times out or fails leaves such a
session to the next call, which then skips the drain (section 5): this is what
the hypotheses `"drain"`, `"device" \notin Faults` exclude.

**Pairing.** A frame finds its surface through a ring slot that may have been
filled for an earlier picture, in a ring that wraps, for a surface that may have
been begun again or freed. The code believes a slot if its sequence number is that
of the frame and its generation that of the surface. `PairingInv` says what this
is worth: a slot that leads to a surface (`LeadsTo`) and a unit of the session with
the slot's timestamp are the picture the surface was last begun for
(`MappedPicture`). It is inductive because of what stands around it: every unit in
the session is older than `seq` (`StampsInOrder`, `TimestampsUnique`), no slot and
no current picture is ahead of the generation of its surface (`GenerationsPast`),
the current picture is what the client wants in its target (`CurrentPicture`), and
while a unit waits for an OUTPUT buffer its slot is not taken by another
(`TargetClaimed`). Most steps neither fill a slot nor begin a picture; they are
`PlainStep`, and one lemma covers them. No property of the order of the frames is
used, so the theorem holds in display order too, and none of the ring's size: a
slot overwritten too early loses a frame, and never pairs it with another picture.
Failed starts are excluded because `seq` is then not advanced (a hazard of its
own), and field pairs because two units share a timestamp by design: both are
model-checked.

**The promise.** The refinement needs more than the pairing: the abstract action
must be *enabled*. A frame may land only on a surface that is pending or filled,
`vaEndPicture` may claim only one that is open. `PromiseKeptInv` says why: from
`vaBeginPicture` on, a surface is claimed by one picture that is under way
(`FreshTarget`, `TargetsApart`: no slot leads to it and no other context renders
into it), and afterwards by one slot (`MappingsAwaited`: it is queued, owned by the
slot's context, not ready, and no second slot leads to it); the frame to be
repeated is one that was delivered (`LastFrameDelivered`). The steps fall into
three kinds: those that leave the standing of every surface alone (`StandStep`: a
stutter, or the start or end of a sync), those that only take (`ClaimsRest`: the two
ways a stream ends, and a failed copy), and those with an abstract action of their
own: alloc, free, begin, claim, landing and the two halves of a backfill. One client
thread is needed because a backfill reads the registry without a lock
(`backfill_race`). `Faults # {}` is needed because a seek may only lose pictures when
something can fail; that nothing is lost otherwise is the next argument, and
`NoPictureIsGivenUp` puts the two together.

**Why nothing is lost.** The pairing says that a frame which finds a surface is the
right one; that a pending surface still has a frame to come is the converse, and
needs arithmetic. `DeliveryInv` says: a session that is not over serves
(`NothingFailed`, `SessionsServe`); the units it holds bear one sequence number after
the other, up to the last one fed (`UnitsInOrder`), and are at most one for each
OUTPUT buffer and the one just fed (`UnitsFit`), so they are fewer than the slots of a
ring and none of their slots has been filled again, however often the ring wrapped; with the HEVC FIFO the
mappings are the same numbers in the same order, so the oldest mapping is that of the
next frame (`MappingsInOrder`); a picture begun is the last of its surface
(`OwnGeneration`); and every pending surface has its unit in the session of its owner
(`PendingAwaited`). Decode order is used for the FIFO and the numbers; a firmware that
drops pictures, a device error, a failed copy or a drain that timed out really does
lose pictures, which is why `Reliable` excludes them (`faults` checks the promise with
them, as a promise that may give pictures up). A sync that times out loses nothing: the
unit and its mapping stay. A refused STOP closes the session with what it holds, so
`AcceptedWorkIsDone` excludes it.

**Why a finished picture stays.** Only a frame, a backfill or a half-made copy writes
pixels. The first and the last write where a slot leads, and `MappingsAwaited` has
such a surface not ready. A backfill writes a stale surface, so one must know which
surfaces can be stale: `FinishedInv` says that what a context decoded is stale only
when the context is gone or has moved on to a later stream, which never comes back
(`StreamsAge`). With two contexts that is false, for the epoch belongs to the display
and the seek of one video makes the pictures of the other stale; hence `OneContext`
(`decode.c:142`, section 5).

**The transport.** Each call (`Feed`, `DequeueFrame`, `SetupCapture`,
`RequeueFrames`, `CloseDevice` and the rest) and each step of the decoder keeps
`TransportSafe`, and this is a lemma about the call alone, so that both callers,
`V4l2Session` and `VkCapture`, cite the same lemmas. `BuffersAccounted` is
about the lengths and the members of sequences at once; inductive is the form in
`OutputInv` and `CaptureAccounted`: the numbers add up *and* the places are
different, which one needs for `freeOut` as a stack whose top may be any buffer.
A CAPTURE buffer is in one place only (`CaptureApart`), which `cap_queued` alone
does not say. That a frame has the size `v4l2_dec_dqcap` stamps on it needs
`RingHasLayout`: everything finished in the ring has the driver's size, unless the
decoder is paused at a source change, and then nothing is finished in the new size
until the ring was rebuilt. `EosIsLast` needs that a buffer marked LAST is the
last one and that nothing is left behind it (`LastIsLast`), and that no unit is
fed after STOP, which the transport does not enforce: its caller does
(`StopKnown`: it remembers STOP in `eos_sent`, or it is closing).

**The copies.** `CaptureInv` follows a picture from the mapping `vaEndPicture`
leaves, over the decoder, to the frame in hand, the pending slot and its job, and
says at each place who holds the buffer and what the fence of the surface is.

- `KeysApart`, `ImportsSound`: no key names two pieces of memory, so an import found
  under a key is of the memory the key was made for. Without it a stale import would
  make a copy write elsewhere, whatever the slots say.
- `SlotsSound`, `SlotsApart`, `JobsPending`: a pending slot has a surface that waits
  for it, with the generation and the token of its own picture, and a CAPTURE buffer
  the decoder does not have; two slots share nothing; a running job has a slot. From
  these follow `ImportsOutliveJobs` and `FenceCoversTheCopy`, and that no job
  reads a buffer that is queued.
- `HandSound`, `OnlyLastIsLost`: apart from the slots only the frame in hand has a
  buffer, and a buffer nobody has was the one marked LAST. `CaptureConserved` counts
  them, which takes that a slot's buffer is a one-to-one image.
- `CallInv`, `RingInv`, `PicsKnown`: in which session a call may be where, that the
  ring is of the open session, and that a picture whose unit is still to be fed is
  with nobody yet. A boundary or a refused feed comes back to a target that was claimed
  before, so these relate the program counter to the target.
- `MapInv`, `FenceInv`: a mapping that still fits its surface has no copy pending and a
  fence of its own picture; and an unsignalled fence of a running session has a
  copy, or a mapping with the unit somewhere between the call and `assign_frame`.
  The second is `FenceWillSignal` at every place of a call; between calls alone it
  is not inductive.
- `PixelInv`: what is decoded, or copied and not yet reaped, is the picture of the
  surface. Here `~EarlyExport` is needed.

**The frontend.** `FrontendInv` was first checked by TLC on the `frontend` instance.
Each table is a sequence without two entries of one id, all ids at most the counter
(`Tables`, `Surfaces`, `Engines`), so a lookup finds the same entry wherever a
swap-remove has moved it. Buffers, images and derived images share a counter, and no id
is in two of the tables (`ObjectsApart`): `vaMapBuffer` asks one after the other. `Mappings` and
`Handles` say where every pointer the client holds leads. A decode context is in use by one
VA context, waiting among the retired, or freed (`Placed`, `DecsSound`, `Owners`).
That a picture's references are at hand takes `RefsOwned`: what a session can predict from is in surfaces that it
owns, and the session runs. Without it, destroying a surface or sweeping
a session could take a reference away that no single call has in view. The sweep is a
loop over the retired sessions and the freeing a loop over a list of surfaces; the
lemmas on both are proved by well-founded induction on the number of rounds.

**The adapters.** `AdapterInv` follows a picture from buffer to buffer: after `sent`
of them the adapter holds exactly the parameters and slices among these, whatever the packing
(`Collected`). So a unit counts as random access if and only if its picture is a key
picture (`KeyUnits`), which with the restart decision gives `RestartsAtKeyPictures`: only at key
pictures, always at one after a pause. It does not say that a key picture within a
stream is left alone (`decode.c:600-603`); restarting there would keep it too.
`SequenceInv` relates caches and session: a session not started was given nothing, and
a started one was given only the SPS that the adapter takes for current, unless a failure is
not healed yet. `DecodesInv` says that the firmware holds the parameter sets the caches
name, that in a sequence in band it holds what every picture of the sequence needs, and that the unit accepted
last could be parsed. The unit's order (parameter sets, then the slices in the order they were
sent, none twice) is a lemma on `Build`, for any number of slices (`UnitLaid`).
Why `NoRewriting`: the reference count in an adapter and the slices in a rewritten unit
are what `hevc_rewrite_slice` made of the header bits, a computation over data.
The assumptions on streams are libva's contract: a picture has at least one slice, its
slice parameters name their slice, pictures of one sequence share the sequence's
parameters, a stream with its own sets sends them with every key picture.

**Model-checked only.** Liveness (`EveryCallReturns`, `SyncSucceeds`, `FlushEnds`) is
outside the prover's reach. So is what the recursive functions of `HevcSliceRewrite`
compute for every input, and with it `UnitsDecodable` and `TypeOK` for streams whose
HEVC slices are rewritten: `codecs` compares them with a reference reader. Of the
scheduler, what the theorems exclude is only model-checked, and only on the instances
of section 3: field pairs without faults (`playback`), failed starts with two threads
(`threads`, ownership alone). `FinishedPicturesStay` is about one context and its own
seeks. With a HEVC FIFO, pairing and delivery are proved for a `Reliable` system; the
epochs and the promise are neither proved nor checked there. What becomes of copies
after an early export is left to the run `early_export`.

## 5. Findings

Each is a run that TLC must find violated, with the line it contradicts.

1. `sync_of_stale`. `vpu_surfaces_sync` looks at the epoch before it looks at
   `queued` (`surface.c:616`). After a seek, a sync of a surface whose new
   picture is queued returns a repeated frame or black at once, where
   `decode.h:33` promises to drain until it is ready.
2. `backfill_race`. A backfill that another thread's `vaDestroyContext` overtakes
   stamps old pixels with the new epoch (`surface.c:379`), against
   `decode_internal.h:66-67`.
3. `early_export`. For an asynchronous GPU copy `initialized` is set when the copy
   is reaped (`vk_capture.c:34`), not when it is made. An export between
   `vaEndPicture` and `vaSyncSurface` then fills the finished picture black
   (`surface.c:596`), and the reap reports the surface decoded, against
   `decode_internal.h:46`. `gpu_copies` has clients that export before the first
   picture or after a sync, and shows that then every decoded surface holds its
   picture.

4. `first_unit`. A parameter set counts as sent when the unit is built
   (`h264_codec.c:296`, `hevc_codec.c:442`). If the open or the submission then
   fails, or `ensure_decoder` replaces a session that a timed out drain left at its
   end (`stream.c:102-113`, after the build), the next session's first unit has no
   parameter sets, against `decode.c:618-619`. `codecs` shows that without such a
   failure, and again after the next restart, every unit can be parsed.

Disagreements met while modelling that have no run of their own:

- The epoch belongs to the display: destroying or seeking one video
  (`decode.c:142`, `stream.c:368`) makes the next sync of another video's finished
  surface overwrite it, against `decode.h:9-10` ("concurrent videos do not share
  engine state").
- Fence tokens are per context and a surface records the bare number (`decode.c:680`,
  `surface.c:141-142`): when a context claims a surface that another still has in
  flight, it signals the old token through its own session. The old fence is never
  signalled, or a fence of its own with the same number is signalled early.
  `chromium-integration.md:20` promises that fences cover asynchronous writes, and
  `vk_capture.c:37-40` that none stays "permanently unsignalled" if a client recycles
  an in-flight target. With `SharedTargets = TRUE` in `Threads.cfg`, TLC finds
  `FenceHasOpenOwner` violated within seconds.
- After a boundary drain that timed out the next attempt skips the drain
  (`stream.c:286`) and closes the session without LAST, against `stream.c:336-338`.
- `hevc_rewrite_slice` returns 0 for a header it cannot read, because `ret` was
  overwritten by the result of the unescaping (`hevc_slice_rewrite.c:301`); the
  slice silently becomes an empty NAL unit. `hevc_slice_rewrite.h` promises a
  negative value.
- When all slice parameters come first and the slices in a buffer each, a later
  slice no longer than the first buffer is taken out of the first buffer
  (`hevc_codec.c:143-156`).
- A build that fails at the PPS leaves the VPS and SPS cached as sent
  (`hevc_codec.c:439-465`).
- A context that takes over no retired session, but decodes a key frame into one's
  last surface, leaves that session waiting until the next `vaDestroySurfaces`,
  against `vaapi_decode.c:90-93`.

A comment that disagrees with the code: `decode.c:330-331` says that HEVC frames are matched by picture order count; `hevc_pending_take` never
looks at it. With firmware in decode order, which the session asks for, the pairing
is right (`hevc_playback`).

## 6. Not modelled, and the plan

Not modelled at all: device discovery and platform selection (lookups without
state), statistics, dumps and frame stamps (they change nothing the driver reads),
`vpu_decode_reset` and `vpu_decode_reconfigure` (no caller), direct CAPTURE (an
opt-in path), attribute queries and `vaGetImage`/`vaPutImage` (they change no
table).

Abstracted in `VaFrontend`: calls are serialized and sessions are a few flags;
what a session can predict from is the set of pictures it decoded since its last
key frame; data in buffers and images is left out, so that a mapping is live or
not. Abstracted in `CodecAdapters`: a parameter set is a record; its bits are not
(`h264_params.c`, `hevc_params.c`); the scaling lists of an HEVC stream are
constant, because a change between key pictures would change the SPS within a
sequence; H.264 slices refer to PPS 0, as built; a stream either carries its
parameter sets or leaves them to the driver; allocations succeed; VP9 frames are
their first byte, and the release access unit is left out.

Abstracted in `V4l2Transport` and `VkCapture`: a size is a value, and so is a
layout; `v4l2_dec_open` fails as a whole and leaves nothing behind; every
`G_FMT`, dequeue and requeue of a streaming queue succeeds; the direct CAPTURE
path is left out. `VkCapture` has one H.264 or HEVC context, one client thread
and one size (a size change is a new sequence, which is a boundary for these
codecs; for VP9, whose ring may change under pending copies, see the hazards);
pictures map by their number, epochs and backfills are left to `Decode`; fences
can always be attached, and waiting for a job never fails. Fence tokens are the
picture's number, unique over sessions: with one context no other can bear it.

Abstracted in `Decode`: a surface is a member of a set, not a place in an array
that a swap-remove can move; GPU copies are off (`VkCapture` has them), so
`finish_pending_writes` has no jobs to reap; the transport is two bounded queues
(`V4l2Transport` has the buffers); a device error is possible at any time but leaves
the queues as they are; an idle gap and a new sequence are one choice (`cue`).

Planned, most important first:

1. VP9 in `Decode`: internal access units, the seek barrier, and a size change
   under pending copies in `VkCapture` (hazard `vk_capture.c:121`).
2. Proofs: delivery in display order and for
   field pairs, where the units held are a set of numbers and not an interval.
3. Proofs about rewritten HEVC slices, from the assumption (which TLC can check) that
   `hevc_rewrite_slice` is right on the slices of a stream.
4. `V4l2Session` shown to implement the bounded queues that `Decode` uses.
5. Errors from waiting for a GPU job, and several contexts on one copy engine.
