# TLA+ models of the emulated camera HAL

This directory holds TLA+ specifications of the emulated camera HWL
(`src/devices/EmulatedCamera/hwl`) and of the realtime process block
(`src/common/hal/utils/realtime_process_block.cc`), and the TLC
configurations that check them. Every definition is translated from the C++
source. `PROJECT.json` holds the rest:
- `map`: each definition and the source lines it models;
- the runs, the mutants, the findings and the hazards.

## 1. The system: parts, state, operations

| Part | Source | State | Operations |
|---|---|---|---|
| Request processor | `EmulatedRequestProcessor.cpp` | `pending_requests_` (FIFO), `override_settings_` (FIFO), `last_settings_`, `last_override_settings_`, `process_mutex_`, `request_condition_` | `ProcessPipelineRequests` (client thread), `RequestProcessorLoop` (request thread), `Flush`, `NotifyFailedRequest`, `ApplyOverrideSettings`, `ApplyOverrideZoom`, `AcquireBuffers`, `CreateSensorBuffers` |
| Sensor scheduler | `EmulatedSensor.cpp` | the one-slot mailbox (`current_settings_`, `current_result_`, `current_output_buffers_`, `partial_result_`), `got_vsync_` and the `vsync_` condition, `control_mutex_` | `StartUp`, `ShutDown`, `SetCurrentRequest`, `WaitForVSync(Locked)`, `Flush`, `threadLoop` (swap, shutter, synthesis, early/late `ReturnResults`) |
| Image synthesis | `EmulatedSensor.cpp` 864-1240, 1438-2091 | pixel buffers, gamma tables | RAW/YUV/JPEG/depth synthesis |
| Stream checks | `EmulatedSensor.cpp` 210-634 | none (pure) | `AreCharacteristicsSupported`, `SplitStreamCombination`, `IsStreamCombinationSupported` |
| Realtime process block | `realtime_process_block.cc` | `is_configured_`, `result_processor_`, two locks | `ConfigureStreams`, `SetResultProcessor`, `ProcessRequests`, `Flush`, `RepeatingRequestEnd`, `NotifyHwlPipelineResult`, `NotifyHwlPipelineBatchResult`, `NotifyHwlPipelineMessage` |
| Stream configuration map | `utils/StreamConfigurationMap.cpp` | format, size, duration and input/output maps | the constructor's parsing of the metadata tags |
| Device HWL | `EmulatedCameraDeviceHWLImpl.cpp` | the configuration maps, sensor characteristics, torch levels | `Initialize`, `IsStreamCombinationSupported`, `SetTorchMode`, `TurnOnTorchWithStrengthLevel`, `GetTorchStrengthLevel`, `ConstructDefaultRequestSettings`, `CreateCameraDeviceSessionHwl` |
| Session, ZSL processor, HWL interface | headers only | | declarations; no behaviour in the repository |

**How the parts interact.**

*Request processor and sensor.* A client thread calls
`ProcessPipelineRequests` once per frame. Under `process_mutex_` it waits
while more than `kPipelineDepth` requests are pending. The wait has a 30 s
timeout. The client then queues the request, and an override entry when the
settings carry `ANDROID_CONTROL_SETTINGS_OVERRIDE` or are null.

The request thread starts in the `EmulatedRequestProcessor` constructor. The
sensor thread starts only when the session calls `EmulatedSensor::StartUp`.
StartUp first checks every camera's characteristics with
`AreCharacteristicsSupported`, against the limits at `EmulatedSensor.cpp`
76-135. Until StartUp has run, requests can be queued and latched, but no
vsync comes.

The request thread loops over these steps:
- under `process_mutex_`, take the oldest pending request;
- acquire its buffer fences;
- walk the override queue (`ApplyOverrideSettings`);
- hand the request to the sensor with `SetCurrentRequest`, or send `ERROR_RESULT`;
- pop the request and `notify_one`;
- block in `WaitForVSync` until the sensor thread's next swap.

The sensor thread loops over these steps:
- under `control_mutex_`, swap the mailbox into locals and signal vsync;
- send the shutter;
- synthesise the buffers;
- call `ReturnResults` before the blanking sleep when the deadline is tight;
- call `ReturnResults` again after the sleep.

`Flush` takes `process_mutex_` and waits in `EmulatedSensor::Flush` for a
vsync. It errors whatever is latched, then sends `ERROR_REQUEST` for every
pending request.

*Realtime process block.* The session's realtime process block sits between
the session and the HWL:
- it passes each request to the HWL;
- it registers pending requests with the session's result processor;
- it forwards the HWL's results, batch results and error messages back to that processor.

*Device HWL.* `Initialize` builds a `StreamConfigurationMap` for each of
these, from its static metadata:
- the logical camera, in the default and the maximum-resolution mode;
- every physical camera, in both modes.

`IsStreamCombinationSupported` checks a stream configuration against those
maps and the sensor characteristics. It does this through
`EmulatedSensor::IsStreamCombinationSupported`.

**Behaviours that make this hard.**
- Four threads interleave: the client, the request thread, the sensor thread and a flusher.
- The request thread and Flush share one `got_vsync_` flag.
- `ReturnResults` is called twice per frame, and only `std::move` stops the second call from delivering a second result.
- The timed wait depends on notifications.
- Frame numbers are compared in `uint32_t`.
- Error paths skip the override walk.
- The process block adds the pending entry before it checks `is_configured_` and before submission can fail, and a failed conversion silently drops a whole batch.
- The metadata parsing uses index arithmetic over flat tag arrays.
- The stream check attributes each stream to per-camera counters that depend on whether the camera is logical.

## 2. Modules

| Module | Models | Composed from |
|---|---|---|
| `HalTypes` | the shared `Null` constant | |
| `FrameLifecycle` | the abstract promise of a pipeline stage: a frame is accepted at most once and completed exactly once, perhaps together with others | |
| `OverrideSettings` | `ApplyOverrideSettings` (RECURSIVE operator over the queue), `ApplyOverrideZoom`, the entry `ProcessPipelineRequests` queues, unsigned frame subtraction | `HalTypes` |
| `SensorCharacteristics` | `AreCharacteristicsSupported` and the sensor limits it reads, as operators over a characteristics record (durations in 20 ns ticks, so that 30 s fits a TLC integer) | |
| `EmulatedSensor` | `StartUp`, `threadLoop` as four actions (`SwapCurrentRequest`, `CaptureFrame`, `ReturnResultsEarly`, `SleepAndReturnResults`) run only once StartUp started the thread, `SetCurrentRequest`, `WaitForVSyncLocked`, the mailbox after `EmulatedSensor::Flush` | `HalTypes`, `SensorCharacteristics` |
| `EmulatedRequestProcessor` | the session's `StartUp` call (`SessionStartUp`), client (`ProcessPipelineRequests`, `WakeOnSlot`, `TimeoutOnSlot`), request thread (`ProcessPendingRequest`, `ProcessorIdle`, `ProcessorWaitVSync`, `ProcessorVSynced`), Flush (`FlushBegin`, `FlushEnd`) and the sensor thread; refines `FrameLifecycle` | `EmulatedSensor`, `OverrideSettings`, `FrameLifecycle` |
| `RealtimeProcessBlock` | `SetResultProcessor`, `ConfigureStreams`, `ProcessRequests` as its two locked blocks (`ProcessRequestsAddPending`, `ProcessRequestsSubmit`), `Flush` (with the HWL's error messages), `NotifyHwlPipelineResult`, `NotifyHwlPipelineBatchResult`, `NotifyHwlPipelineMessage` | |
| `StreamConfigurationMap` | the constructor (`StreamConfigurationMapOf`) and every `Append...` helper, including the RECURSIVE input/output formats loop, as operators over metadata | |
| `StreamConfigurationMapCheck` | one construction from a metadata value, and reference definitions of the tags | `StreamConfigurationMap` |
| `StreamCombination` | `SplitStreamCombination` and both `IsStreamCombinationSupported` overloads of `EmulatedSensor` as operators, one per check of the per-stream loop | `StreamConfigurationMap` |
| `EmulatedCameraDeviceHwl` | the maps `Initialize` builds and the device's `IsStreamCombinationSupported` (`QueryStreamCombination`), with reference definitions of sensor limits and advertised sizes | `StreamCombination` |
| `MC_*` | constants and metadata for TLC | the module they name |

**How state maps to the code.**

*Request processor and sensor.*
- A request is `[frame, settings, buffers]`.
- Settings are abstracted to null or `[ovr, zoom]`:
  - `ovr` is the value of the override entry ("absent", "off" or "zoom");
  - `zoom` names the frame whose zoom tags the settings carry.
- Buffers are "ok", or "empty" when `CreateSensorBuffers` returned an empty vector. That happens when a `request_stream_buffers` call failed and the acquired buffers were cleared, or when `CreateSensorBuffer` dropped the buffer because `LockSensorBuffer` or the fence import failed (`SensorBuffersOf`).
- The mailbox `current_request` holds a frame and its output vector, which is "cleared" once `EmulatedSensor::Flush` has emptied it.
- `sensing` holds the sensor thread's locals. Its `result` becomes "moved" once the result was passed to `ReturnResults`.
- `msgs` is the sequence of callbacks the result processor receives: shutter, partial, final, ERROR_REQUEST and ERROR_RESULT, each with its frame.
- `process_mutex_` is implicit: every action that takes it is atomic, and it is free unless Flush holds it across its vsync wait (`flush_pc = "wait_vsync"`).
- `crashed` records undefined behaviour: a null dereference, or `at(0)` on an empty vector.
- `running` is the sensor thread's `isRunning()`. StartUp sets it only when the characteristics map is non-null, has the logical camera, and every entry passes `AreCharacteristicsSupported`. Thread creation is taken to succeed.

Each action models a whole locked block. For example, `ProcessPendingRequest`
is the whole `if (!pending_requests_.empty())` body of
`RequestProcessorLoop`. It has three outcomes:
- acquire failed: `ERROR_RESULT`;
- null dereference: `crashed`;
- otherwise: the override walk, `last_settings_`, then either a latch or `ERROR_RESULT`.

The pop and `notify_one` follow every outcome that does not crash.

`InitializeLogicalSettings` belongs to `EmulatedLogicalRequestState`, which is
not in this repository. It is modelled from the specification (it fails
exactly when given null settings) and marked `spec_modelled`.

*Realtime process block.*
- The result processor is abstracted to the frames it waits for (`rp_pending`) and those it has resolved (`rp_resolved`).
- The HWL is abstracted to the frames it was given and still owes an answer for (`hwl_pending`).
- `ProcessRequests` is two actions, one per lock. `ProcessRequestsAddPending` is the `result_processor_lock_` block: NO_INIT, or `AddPendingRequests`, whose failure returns. `ProcessRequestsSubmit` is the `configure_shared_mutex_` block: NO_INIT when not configured, or a submission that may fail. `rpb_pc` and `submitting` record the calling thread between the two blocks, where the HWL's callbacks and `ConfigureStreams` can run.
- Each HWL callback is an action. `Answer(S, forwarded)` is its common effect: the frames S are answered, and they are resolved only if the callback reached the result processor.

*Stream configuration map.*
- Metadata is a function from the tags present to `[type, data]`, where data is the flat `i32` or `i64` array.
- The size maps are relations of `<<format, <<width, height>>>>`.
- The duration maps are functions built by overwriting in tuple order, as `std::map::operator[]` does.
- An `i32` entry read through `data.i64` is undefined behaviour. The map is then recorded in `misread` instead of given values.

*Stream combination.*
- A stream is a record of the `google_camera_hal::Stream` fields the check reads.
- A configuration is a sequence of streams.
- The per-camera counters (`raw_stream_count` and the others) are `StreamCount`, the number of output streams of a kind that `CountedFor` attributes to a camera.
- Each early `return false` of the loop is a failing conjunct. The verdict does not depend on the order of the checks, because nothing in the loop has effects besides the counters.

`GetOutputSizes`, `GetValidOutputFormatsForInput` and
`GetDynamicPhysicalStreamOutputSizes` are inline in `StreamConfigurationMap.h`,
which is not in the repository. They are marked `spec_modelled`. Each returns
the image of a format under the map's relations. `GetOutputSizes` uses the
JPEG_R map for BLOB streams with the JPEG_R data space.

## 3. Refinement

`FrameLifecycle` is the abstract specification of a pipeline stage. It says:
- a frame is admitted at most once;
- only an admitted frame is completed, and never twice;
- every admitted frame is eventually completed (`WF(Complete)`).

`EmulatedRequestProcessor` is shown to implement it, with `Lifecycle!Spec`
checked as a PROPERTY (`ImplementsFrameLifecycle`):
- **`EmulatedRequestProcessor`**:
  - `admitted` is the frames `ProcessPipelineRequests` accepted;
  - `completed` is the frames with a final result or an error callback (`Completed`).
`RealtimeProcessBlock` does not implement it. Once its failure paths are
enabled, a frame can stay pending for ever, which is what `rpb_orphan_pending`
shows. With those paths switched off, the refinement held only because each
action updated both sets together, so it is not checked.

## 4. Runs

| Run | Expect | Checks | Shows |
|---|---|---|---|
| `erp_core` | pass (65,972 states) | `TypeOK`, `NoLostFrame`, `CallbacksWellFormed`, `FlushFindsMailboxEmpty`, `ImplementsFrameLifecycle`, `FlushReturns`, `SubmitReturns` | The queue never holds more than `kPipelineDepth + 1` requests. Each accepted frame is always in exactly one of two conditions: held in one place (queue, mailbox or sensor), or finished. Callbacks come in allowed sequences. Flush never finds a latched request. The request processor refines `FrameLifecycle`, even when requests arrive and Flush starts before the sensor has been started. A Flush waiting for vsync always returns, even when the request thread resets `got_vsync_` under it. A client blocked on a full queue always returns (`SubmitReturns`). |
| `erp_override_behind` | violation | `OverrideNeverBehind` | A flushed frame's override entry stays queued. The next frame computes `1 - 2` in `uint32_t`, treats the entry as far ahead, and reports override frame 1 for frame 2. |
| `erp_null_override` | violation | `NoCrash` | Frame 1 is refused and frame 2 (null settings) is flushed. Frame 3's override walk then meets the null entry with `last_override_settings_` still null: a null dereference. |
| `erp_completion_order` | violation | `CompletionsInFrameOrder` | Flush's `ERROR_REQUEST` for frame 2 precedes frame 1's final result. The specification asks errors to keep frame order. |
| `erp_flush_timeout` | violation | `TimeoutOnlyWhenFull` | Flush empties the queue without `notify_one`, so a client blocked on a full queue times out with the queue empty. |
| `erp_inflight_depth` | violation | `InFlightWithinDepth` | The code bounds only the queue (`size() > kPipelineDepth`). With a full queue, a latched request and one in synthesis, more frames are in flight than the pipeline depth the specification bounds. |
| `rpb_core` | pass (482 states) | `AnswersFindPending` | Every failure path is enabled: a request before `ConfigureStreams`, and failures of `AddPendingRequests`, of submission and of conversion. The HWL still never owes an answer for a frame the result processor is not waiting for, although the HWL's callbacks run between the two locked blocks of `ProcessRequests`. |
| `rpb_orphan_pending` | violation | `NoOrphanPending` | TLC's trace is `ProcessRequests` before `ConfigureStreams`: NO_INIT after the pending entry was added. A failed submission or a failed `ConvertToCaptureResult` reaches the same kind of state in this run. In each case a pending entry is left that nobody will resolve. |
| `scm_core` | pass (124,992 states) | `ScmTypeOK`, `InputOutputMapMatchesReference` | For every input/output formats array of up to five values, the constructor's index loop yields exactly the pairs of the well-formed groups. |
| `scm_mode_tags` | violation | `MapsFromModeTags` | The two dynamic depth tags are read for the opposite mode, and `kScalerStallDurationsMaxRes` names the stream configurations tag, so the maximum-resolution stall map is read from an `i32` entry as `i64`. |
| `hwl_core` | pass (12,348 states) | `StreamCountsWithinSensorLimits`, `AcceptedSizesAdvertised` | For a logical camera over two physical cameras, every accepted configuration of up to three streams stays within each producing sensor's RAW, stalling and processed limits per mode, and uses only sizes the producing camera lists for every mode the stream is intended for. |
| `hwl_single_camera_limits` | violation | `StreamCountsWithinSensorLimits` | For a camera without physical cameras nothing is counted, so two RAW16 streams are accepted with `max_raw_streams = 1`. |

**Bounds, and why they are enough.**

*Request processor (`MC_EmulatedRequestProcessor`).*
- 3 frames. With 4 frames the same cfg also passes (640,454 distinct states, about 3 minutes on two workers). That is too slow to repeat for every mutant, so the run keeps 3 frames.
- `kPipelineDepth = 1`. The code's value is 3; it is scaled down so that the queue fills with three frames.
- One `Flush`.
- `kZoomSpeedup = 2`.
- Frame numbers modulo 2^30. TLC's integers are 32-bit, and only the wrap of the subtraction matters.
- One camera, whose characteristics are the emulated sensor's defaults. Its `max_pipeline_depth` equals `kPipelineDepth`, the boundary that the depth check admits.

With this depth and three frames:
- the third submission waits;
- pending, waiting client, mailbox and sensor are all occupied at once;
- Flush can meet a frame at any stage;
- the override walk meets queues of up to three entries, including a repeating entry and a stale one.

The environment:
- Request settings carry the override key ("off" or "zoom").
- The first request has settings; later requests may be repeating (null settings).
- Buffers may be empty and fences may fail.
- Frame 2 may be refused by an early return.

`NoCrash` is checked only in `erp_null_override`. In `erp_core`, frame 1 is
never refused and always carries the override key, so the first queued
override entry is never null and line 578 cannot be reached.

*Process block (`rpb_core`).* Four frames, and every failure flag on. Batches
of two and three results then meet frames that are still pending, frames in
the middle of submission, and frames whose entries were never added.

*Stream configuration map (`MC_StreamConfigurationMap`).* Every input/output
array of length 0 to 5 over `{0, 1, 2, 33, 35}` covers these cases:
- a zero count;
- a count running past the end;
- a group ending exactly at the end;
- a single trailing value;
- two consecutive groups.

Each is checked for both modes, with and without the optional dynamic depth
and stall tags.

*Device HWL (`MC_EmulatedCameraDeviceHwl`).* Eighteen candidate streams, in
every configuration of one to three of them. Every sensor has the limits
1 RAW, 1 stalling, 2 processed and 1 input. This reaches these cases:
- every early return of the per-stream loop: rotation, input format without outputs, unknown physical id, dynamic format, 10-bit, BLOB data space, RAW size, output size, each use-case rule;
- a stream intended for both modes;
- every count limit exceeded by one.

**Fairness.**
- The request thread and the sensor thread loop for the life of the session, so each has weak fairness.
- A started Flush finishes once a vsync comes (`WF_vars(FlushEnd)`).
- The session calls `StartUp` while it sets itself up (`WF_vars(SessionStartUp)`). The session code is not in the repository, so this is an assumption. A StartUp that rejects the characteristics leaves the state unchanged, so fairness does not force the sensor to start.
- The client gets no fairness to submit again: nothing obliges a camera client to keep submitting. A client already blocked in `wait_for` is weakly fair (`WF_vars(WakeOnSlot \/ TimeoutOnSlot)`). The wait returns on `notify_one` or on the 30 s timeout, and the thread then needs only `process_mutex_`, which Flush releases.
- The process block has no fairness: only safety is checked of it.

The stream checks and the map construction are one-step computations, so they
need no fairness.

**Mutants.** Each property of a passing run is broken by a plausible fault in
the code it is about:

| Property | Mutated definition | Fault |
|---|---|---|
| `TypeOK` | `TimeoutOnSlot` | a timed-out slot wait breaks out of the loop and queues the request (`TimeoutOnSlotEnqueues`) |
| `NoLostFrame` | `ProcessorVSynced` | request thread does not wait for vsync |
| `CallbacksWellFormed` | `ReturnResults` | result copied, not moved |
| `FlushFindsMailboxEmpty` | `WaitForVSyncBegin` | `got_vsync_` not reset before a wait |
| `ImplementsFrameLifecycle` (ERP) | `NotifyFailedRequests` | Flush pops without notifying |
| `ImplementsFrameLifecycle` (ERP) | `AreCharacteristicsSupported` | the depth check is `<=` instead of `<`: StartUp rejects the sensor, and every frame waits for ever |
| `FlushReturns` | `SwapCurrentRequest` | vsync signalled only when a request was latched |
| `SubmitReturns` | `TimeoutOnSlot` | the slot wait without a timeout (`wait` instead of `wait_for`): after Flush empties the queue without notifying, the client waits for ever |
| `AnswersFindPending` | `ProcessRequestsAddPending` | a failed `AddPendingRequests` is logged without returning, and the request is submitted anyway |
| `ScmTypeOK` | `AppendAvailableStreamConfigurations` | format read at the direction offset |
| `InputOutputMapMatchesReference` | `ParseInputOutputFormats` | a group ending at the array's end taken as overrunning it |
| `StreamCountsWithinSensorLimits` | `CountedFor` | logical streams counted for no camera |
| `AcceptedSizesAdvertised` | `SplitStreamCombination` | a stream intended for both modes checked only in the default mode |

## 5. Not modelled, and why

- **Pixel synthesis, gamma and colour math, the JPEG compressor.** They compute data, and no control decision depends on it.
- **The screen-rotation sensor listener.** It only stores `screen_rotation_`.
- **Gralloc locking and stride computation.** These are I/O against the buffer mapper. Their outcome is abstracted to "ok" or "empty" buffers.
- **Timing.** The choice between early and late `ReturnResults` is nondeterministic. The frame-pacing arithmetic is not modelled.
- **Several requests in one `ProcessPipelineRequests` call, and multiple pipelines.** The model submits one request per frame. This is a listed hazard.
- **`ShutDown` and the `EmulatedRequestProcessor` destructor.** The session decides when the processor is destroyed, and the session is not in the repository. `FrameLifecycle` promises completion of every accepted frame, which a destruction with frames in flight breaks by design. The join that can hang, and the dropped frames, are listed hazards.
- **A condition-wait error in `WaitForVSync`.** It would end the request thread for good. `waitRelative` on a held mutex with a valid timeout returns only OK or TIMED_OUT, so the model's waits return only on a signal or a timeout, and the exit is not listed as a hazard.
- **Characteristics that StartUp rejects, in a run.** With them, every frame waits for ever. `erp_core` shows this only through the `AreCharacteristicsSupported` mutant: all twelve run slots are in use.
- **The device's torch operations.** They delegate to `EmulatedTorchState`, which is not in the repository. The unchecked `torch_state_` read in `GetTorchStrengthLevel` is a listed hazard.
- **`ConstructDefaultRequestSettings` and the characteristics getters.** They copy metadata.
- **`RealtimeProcessBlock::RepeatingRequestEnd`, and `Create`/`IsSupported`.** `RepeatingRequestEnd` only forwards to the HWL under the configure lock, and changes no state of the block. `Create` only refuses a null HWL session.
- **The session's buffer cache and pending-request tracker.** Only `camera_device_session.h` is in the repository. A model would come entirely from the specification's contracts, so it could not be checked against code, and all twelve run slots are in use.
- **A metadata entry whose count is not a multiple of the tuple size** (`StreamConfigurationMap.cpp:67`). The loop would read past the entry. Whether such metadata can reach the constructor depends on the metadata loader, which is not in the repository.

## 6. Plan for the remaining work

1. **Several pipeline requests per frame in `ProcessPipelineRequests`.** A later request's early return leaves the earlier ones queued.
2. **The session's buffer cache and pending-request tracker**, modelled from the specification (`spec_modelled`) and composed over `RealtimeProcessBlock`, if the session's implementation becomes available or a run slot frees up.
