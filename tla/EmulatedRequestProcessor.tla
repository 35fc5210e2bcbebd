------------------------ MODULE EmulatedRequestProcessor ------------------------
(***************************************************************************)
(* The emulated HWL's request pipeline: EmulatedRequestProcessor composed  *)
(* with the EmulatedSensor it drives.                                      *)
(*                                                                         *)
(* Four threads interleave:                                                *)
(*  - the client, calling ProcessPipelineRequests for frames 1, 2, ... and *)
(*    blocking on request_condition_ while pending_requests_ is full;      *)
(*  - the request thread, RequestProcessorLoop: under process_mutex_ it    *)
(*    takes the oldest pending request, acquires its buffers, applies the  *)
(*    deferred settings and latches it into the sensor (or fails it), then *)
(*    waits for the sensor's vsync;                                        *)
(*  - the sensor thread, EmulatedSensor::threadLoop (module EmulatedSensor);*)
(*  - a thread calling Flush, which holds process_mutex_ while it waits    *)
(*    for a vsync and then fails every pending request.                    *)
(* process_mutex_ is held for whole atomic steps, except by Flush, which   *)
(* keeps it across its vsync wait (flush_pc = "wait_vsync").               *)
(***************************************************************************)
EXTENDS Integers, Sequences, FiniteSets, EmulatedSensor, OverrideSettings

CONSTANTS
  MaxFrame,              \* frames 1..MaxFrame are submitted
  MaxFlushes,            \* bound on Flush calls
  RequestOverrides,      \* values of ANDROID_CONTROL_SETTINGS_OVERRIDE in settings
  RefusableFrames        \* frames whose submission may fail its early checks

ASSUME MaxFrame \in Nat \ {0}
ASSUME MaxFlushes \in Nat
ASSUME RequestOverrides \subseteq OverrideKinds
ASSUME RefusableFrames \subseteq 1..MaxFrame

VARIABLES
  pending_requests,       \* EmulatedRequestProcessor::pending_requests_
  override_settings,      \* override_settings_ (deferred settings queue)
  last_settings,          \* last_settings_
  last_override_settings, \* last_override_settings_
  processor_pc,           \* where RequestProcessorLoop is
  client_pc,              \* where the submitting client is
  next_frame,             \* the frame number the client submits next
  slot_notified,          \* request_condition_ notified while the client waits
  flush_pc,               \* where the flushing thread is
  flushes,                \* Flush calls so far
  admitted,               \* frames ProcessPipelineRequests accepted
  timed_out,               \* frames it refused with TIMED_OUT
  override_frame          \* per frame: what ApplyOverrideSettings returned

vars == <<current_request, sensing, sensor_pc, got_vsync, msgs, crashed, running,
          pending_requests, override_settings, last_settings,
          last_override_settings, processor_pc, client_pc, next_frame,
          slot_notified, flush_pc, flushes, admitted, timed_out,
          override_frame>>

\* CreateSensorBuffer: the sensor buffer is dropped (nullptr) when
\* LockSensorBuffer fails or the acquire fence cannot be imported.
CreateSensorBuffer(locked, fence_imported) == locked /\ fence_imported

\* CreateSensorBuffers for the request's output buffer: a buffer that
\* request_stream_buffers could not supply clears the acquired ones, and
\* only buffers CreateSensorBuffer keeps are pushed; either way the vector
\* is returned, empty or not.
SensorBuffersOf(acquired, locked, fence_imported) ==
  IF acquired /\ CreateSensorBuffer(locked, fence_imported) THEN "ok" ELSE "empty"

\* Output buffers CreateSensorBuffers can hand over.
SubmitBuffers == {SensorBuffersOf(a, l, i) : a, l, i \in BOOLEAN}

\* Settings of a request: null ("reuse the last valid settings") except for
\* the first request, which carries full settings. The override entry is
\* present with a value of RequestOverrides, or absent in every request
\* (RequestOverrides = {"absent"}) on a device without the key.
RequestSettings(f) ==
  LET full == [ovr : RequestOverrides, zoom : {f}]
  IN IF f = 1 THEN full ELSE {Null} \cup full

PendingRequest == [frame : Frames, settings : {Null} \cup Settings(Frames),
                   buffers : SubmitBuffers]

NotProcessed == -1

(* Types of the variables. pending_requests_ never holds more than         *)
(* kPipelineDepth + 1 requests: the wait at line 92 admits a request only  *)
(* while size() <= kPipelineDepth, and only the client pushes.             *)
TypeOK ==
  /\ SensorTypeOK
  /\ pending_requests \in Seq(PendingRequest)
  /\ Len(pending_requests) <= kPipelineDepth + 1
  /\ override_settings \in Seq([frame : Frames,
                                settings : {Null} \cup Settings(Frames)])
  /\ last_settings \in {Null} \cup Settings(Frames)
  /\ last_override_settings \in {Null} \cup Settings(Frames)
  /\ processor_pc \in {"lock", "vsync", "wait_vsync"}
  /\ client_pc \in {"idle", "wait_slot"}
  /\ next_frame \in 1..(MaxFrame + 1)
  /\ slot_notified \in BOOLEAN
  /\ flush_pc \in {"idle", "wait_vsync"}
  /\ flushes \in 0..MaxFlushes
  /\ admitted \in SUBSET Frames
  /\ timed_out \in SUBSET Frames
  /\ override_frame \in [Frames -> {NotProcessed} \cup 0..MaxFrame]

Init ==
  /\ SensorInit
  /\ pending_requests = <<>>
  /\ override_settings = <<>>
  /\ last_settings = Null
  /\ last_override_settings = Null
  /\ processor_pc = "lock"
  /\ client_pc = "idle"
  /\ next_frame = 1
  /\ slot_notified = FALSE
  /\ flush_pc = "idle"
  /\ flushes = 0
  /\ admitted = {}
  /\ timed_out = {}
  /\ override_frame = [f \in Frames |-> NotProcessed]

\* process_mutex_ is free unless Flush holds it across its vsync wait.
ProcessMutexFree == flush_pc = "idle"

----------------------------------------------------------------------------
(* Client: ProcessPipelineRequests(frame_number, one request).            *)

\* The request is accepted: its override entry and the pending request are
\* queued (UpdateRequestForDynamicStreams succeeds in this model).
AdmitRequest(f) ==
  \E s \in RequestSettings(f), b \in SubmitBuffers :
    /\ pending_requests' = Append(pending_requests,
                                  [frame |-> f, settings |-> s, buffers |-> b])
    /\ override_settings' = override_settings \o OverrideEntryFor(f, s)
    /\ admitted' = admitted \cup {f}
    /\ next_frame' = f + 1
    /\ client_pc' = "idle"

\* An error return after the wait, with nothing queued for the frame:
\* UpdateRequestForDynamicStreams fails, or the request has no output
\* buffers (CreateSensorBuffers returns nullptr, NO_MEMORY).
RefuseRequest ==
  /\ next_frame \in RefusableFrames
  /\ next_frame' = next_frame + 1
  /\ client_pc' = "idle"
  /\ UNCHANGED <<pending_requests, override_settings, admitted>>

\* `while (pending_requests_.size() > kPipelineDepth) wait_for(...)`.
PipelineFull == Len(pending_requests) > kPipelineDepth

AdmitOrWait ==
  \/ /\ PipelineFull
     /\ client_pc' = "wait_slot"
     /\ UNCHANGED <<pending_requests, override_settings, admitted, next_frame>>
  \/ /\ ~PipelineFull
     /\ AdmitRequest(next_frame)
  \/ /\ ~PipelineFull
     /\ RefuseRequest

ClientUnchanged ==
  UNCHANGED <<current_request, sensing, sensor_pc, got_vsync, msgs, crashed, running,
              last_settings, last_override_settings, processor_pc,
              flush_pc, flushes, override_frame>>

ProcessPipelineRequests ==
  /\ ~crashed
  /\ client_pc = "idle"
  /\ next_frame <= MaxFrame
  /\ ProcessMutexFree
  /\ AdmitOrWait
  /\ UNCHANGED <<slot_notified, timed_out>>
  /\ ClientUnchanged

\* wait_for returns no_timeout after notify_one; the loop re-checks.
WakeOnSlot ==
  /\ ~crashed
  /\ client_pc = "wait_slot"
  /\ slot_notified
  /\ ProcessMutexFree
  /\ slot_notified' = FALSE
  /\ AdmitOrWait
  /\ UNCHANGED timed_out
  /\ ClientUnchanged

\* Fault variant of TimeoutOnSlot: the slot wait has no timeout
\* (request_condition_.wait instead of wait_for), so it never times out.
TimeoutOnSlotUntimedWait == FALSE

\* Fault variant of TimeoutOnSlot: a timed-out wait leaves the loop (break
\* instead of return TIMED_OUT) and the request is queued anyway.
TimeoutOnSlotEnqueues ==
  /\ ~crashed
  /\ client_pc = "wait_slot"
  /\ ~slot_notified
  /\ ProcessMutexFree
  /\ AdmitRequest(next_frame)
  /\ UNCHANGED <<slot_notified, timed_out>>
  /\ ClientUnchanged

\* wait_for returns cv_status::timeout: ProcessPipelineRequests returns
\* TIMED_OUT and the frame is never queued.
TimeoutOnSlot ==
  /\ ~crashed
  /\ client_pc = "wait_slot"
  /\ ~slot_notified
  /\ ProcessMutexFree
  /\ timed_out' = timed_out \cup {next_frame}
  /\ next_frame' = next_frame + 1
  /\ client_pc' = "idle"
  /\ UNCHANGED <<pending_requests, override_settings, admitted, slot_notified>>
  /\ ClientUnchanged

----------------------------------------------------------------------------
(* Request thread: RequestProcessorLoop.                                   *)

\* AcquireBuffers keeps the buffers whose acquire fence signals in time;
\* a request is synthesised only if at least one output buffer remains.
AcquireBuffers(req, fence_ok) == req.buffers = "ok" /\ fence_ok

\* InitializeLogicalSettings succeeds iff it is given settings (a null
\* last_settings_ before any request carried settings fails it).
InitializeLogicalSettings(settings) == settings # Null

\* The locked block for the head of pending_requests_: acquire buffers,
\* apply the override queue to the request's settings (or to
\* last_settings_ when they are null), latch the request into the sensor,
\* or notify ERROR_RESULT; then pop it and notify request_condition_.
\* End of the locked block: pending_requests_.pop() and notify_one().
PopPendingRequest ==
  /\ pending_requests' = Tail(pending_requests)
  /\ slot_notified' = (client_pc = "wait_slot")
  /\ processor_pc' = "vsync"
  /\ UNCHANGED <<sensing, sensor_pc, got_vsync, client_pc, next_frame,
                 flush_pc, flushes, admitted, timed_out, crashed, running>>

ProcessPendingRequest ==
  /\ ~crashed
  /\ processor_pc = "lock"
  /\ ProcessMutexFree
  /\ pending_requests # <<>>
  /\ \E fence_ok \in BOOLEAN :
     LET req      == Head(pending_requests)
         f        == req.frame
         settings == IF req.settings # Null THEN req.settings ELSE last_settings
         applied  == ApplyOverrideSettings(f, override_settings,
                                           last_override_settings, settings)
     IN
     \/ /\ ~AcquireBuffers(req, fence_ok)
        /\ Emit(f, <<"errResult">>)
        /\ UNCHANGED <<current_request, override_settings, last_settings,
                       last_override_settings, override_frame>>
        /\ PopPendingRequest
     \/ /\ AcquireBuffers(req, fence_ok)
        /\ applied.null_deref
        /\ crashed' = TRUE
        /\ UNCHANGED <<current_request, sensing, sensor_pc, got_vsync, msgs,
                       running, pending_requests, override_settings, last_settings,
                       last_override_settings, processor_pc, client_pc,
                       next_frame, slot_notified, flush_pc, flushes, admitted,
                       timed_out, override_frame>>
     \/ /\ AcquireBuffers(req, fence_ok)
        /\ ~applied.null_deref
        /\ override_settings' = applied.queue
        /\ last_override_settings' = applied.last_override
        /\ last_settings' = applied.settings
        /\ IF InitializeLogicalSettings(applied.settings)
           THEN /\ SetCurrentRequest(f)
                /\ override_frame' = [override_frame EXCEPT ![f] = applied.result]
                /\ UNCHANGED msgs
           ELSE /\ Emit(f, <<"errResult">>)
                /\ UNCHANGED <<current_request, override_frame>>
        /\ PopPendingRequest

\* The locked block with nothing pending.
ProcessorIdle ==
  /\ ~crashed
  /\ processor_pc = "lock"
  /\ ProcessMutexFree
  /\ pending_requests = <<>>
  /\ processor_pc' = "vsync"
  /\ UNCHANGED <<current_request, sensing, sensor_pc, got_vsync, msgs, crashed, running,
                 pending_requests, override_settings, last_settings,
                 last_override_settings, client_pc, next_frame, slot_notified,
                 flush_pc, flushes, admitted, timed_out, override_frame>>

\* sensor_->WaitForVSync(...): reset got_vsync_ and wait ...
ProcessorWaitVSync ==
  /\ ~crashed
  /\ processor_pc = "vsync"
  /\ WaitForVSyncBegin
  /\ processor_pc' = "wait_vsync"
  /\ UNCHANGED <<current_request, sensing, sensor_pc, msgs, crashed, running,
                 pending_requests, override_settings, last_settings,
                 last_override_settings, client_pc, next_frame, slot_notified,
                 flush_pc, flushes, admitted, timed_out, override_frame>>

\* Fault variant of ProcessorVSynced: the loop does not wait for the vsync.
ProcessorVSyncedNoWait ==
  /\ ~crashed
  /\ processor_pc = "wait_vsync"
  /\ processor_pc' = "lock"
  /\ UNCHANGED <<current_request, sensing, sensor_pc, got_vsync, msgs, crashed, running,
                 pending_requests, override_settings, last_settings,
                 last_override_settings, client_pc, next_frame, slot_notified,
                 flush_pc, flushes, admitted, timed_out, override_frame>>

\* ... until a vsync has been signalled; then loop.
ProcessorVSynced ==
  /\ ~crashed
  /\ processor_pc = "wait_vsync"
  /\ got_vsync
  /\ processor_pc' = "lock"
  /\ UNCHANGED <<current_request, sensing, sensor_pc, got_vsync, msgs, crashed, running,
                 pending_requests, override_settings, last_settings,
                 last_override_settings, client_pc, next_frame, slot_notified,
                 flush_pc, flushes, admitted, timed_out, override_frame>>

----------------------------------------------------------------------------
(* Flush: EmulatedRequestProcessor::Flush, which calls EmulatedSensor::Flush*)
(* with process_mutex_ held.                                               *)

\* Take process_mutex_, enter sensor_->Flush(): WaitForVSyncLocked.
FlushBegin ==
  /\ ~crashed
  /\ flush_pc = "idle"
  /\ flushes < MaxFlushes
  /\ WaitForVSyncBegin
  /\ flush_pc' = "wait_vsync"
  /\ UNCHANGED <<current_request, sensing, sensor_pc, msgs, crashed, running,
                 pending_requests, override_settings, last_settings,
                 last_override_settings, processor_pc, client_pc, next_frame,
                 slot_notified, flushes, admitted, timed_out, override_frame>>

\* Fault variant of NotifyFailedRequests: requests are popped silently.
NotifyFailedRequestsSilent(m) == m

\* NotifyFailedRequest for each pending request, front to back: an
\* ERROR_REQUEST appended to the callback history m.
NotifyFailedRequests(m) ==
  m \o [i \in DOMAIN pending_requests |->
          [frame |-> pending_requests[i].frame, kind |-> "errRequest"]]

\* After the vsync: the sensor returns any latched frame, then every pending
\* request is failed and popped (without notifying request_condition_).
FlushEnd ==
  /\ ~crashed
  /\ flush_pc = "wait_vsync"
  /\ got_vsync
  /\ current_request' = FlushedCurrentRequest
  /\ msgs' = NotifyFailedRequests(FlushCurrentRequestMsgs(msgs))
  /\ pending_requests' = <<>>
  /\ flush_pc' = "idle"
  /\ flushes' = flushes + 1
  /\ UNCHANGED <<sensing, sensor_pc, got_vsync, crashed, running, override_settings,
                 last_settings, last_override_settings, processor_pc,
                 client_pc, next_frame, slot_notified, admitted, timed_out,
                 override_frame>>

----------------------------------------------------------------------------
SensorStep ==
  /\ SensorThread
  /\ UNCHANGED <<running, pending_requests, override_settings, last_settings,
                 last_override_settings, processor_pc, client_pc, next_frame,
                 slot_notified, flush_pc, flushes, admitted, timed_out,
                 override_frame>>

\* The session starts the sensor (EmulatedSensor::StartUp) after it has
\* created the request processor, whose constructor starts the request
\* thread: requests may be queued and latched before the sensor runs.
SessionStartUp ==
  /\ StartUp
  /\ UNCHANGED <<pending_requests, override_settings, last_settings,
                 last_override_settings, processor_pc, client_pc, next_frame,
                 slot_notified, flush_pc, flushes, admitted, timed_out,
                 override_frame>>

Client == ProcessPipelineRequests \/ WakeOnSlot \/ TimeoutOnSlot

RequestThread ==
  ProcessPendingRequest \/ ProcessorIdle \/ ProcessorWaitVSync \/ ProcessorVSynced

FlushThread == FlushBegin \/ FlushEnd

Next == SessionStartUp \/ Client \/ RequestThread \/ SensorStep \/ FlushThread

\* The request and sensor threads loop for the life of the session, a
\* started Flush runs to completion, and the session's set-up calls
\* StartUp. The client is not assumed to submit again, but a client
\* blocked in wait_for is woken by notify_one or by the timeout, whichever
\* comes first.
Fairness ==
  /\ WF_vars(SessionStartUp)
  /\ WF_vars(WakeOnSlot \/ TimeoutOnSlot)
  /\ WF_vars(RequestThread)
  /\ WF_vars(SensorStep)
  /\ WF_vars(FlushEnd)

Spec == Init /\ [][Next]_vars /\ Fairness

----------------------------------------------------------------------------
(* Properties.                                                             *)

\* Where a frame can be held: queued, latched in the sensor mailbox with its
\* buffers, or being worked on by the sensor with its result not yet sent.
Holders(f) ==
  Len(SelectSeq(pending_requests, LAMBDA r : r.frame = f))
  + (IF current_request # Null /\ current_request.frame = f
        /\ current_request.buffers = "ok" THEN 1 ELSE 0)
  + (IF sensing # Null /\ sensing.frame = f /\ sensing.result = "pending"
        THEN 1 ELSE 0)

(* No frame is lost or duplicated: every accepted frame is, at any time,    *)
(* either held in exactly one place (pending queue, sensor mailbox, sensor *)
(* thread) and not yet finished, or finished and held nowhere. This is     *)
(* what SetCurrentRequest overwriting an unconsumed mailbox, a result      *)
(* returned twice, or Flush failing a frame the sensor still owns breaks.  *)
NoLostFrame ==
  \A f \in Frames :
    Holders(f) + (IF Terminated(f) THEN 1 ELSE 0)
      = (IF f \in admitted THEN 1 ELSE 0)

\* The callback sequences the result processor may see for one frame.
ValidCallbackSequences ==
  {<<>>, <<"errRequest">>, <<"errResult">>, <<"shutter">>,
   <<"shutter", "partial">>, <<"shutter", "partial", "final">>,
   <<"shutter", "final">>}

(* Per frame, the callbacks are well formed: the shutter notification      *)
(* comes first, the partial result precedes the final one, a frame gets at *)
(* most one final result, and an error notification is the only callback  *)
(* of its frame.                                                          *)
CallbacksWellFormed == \A f \in Frames : FrameMsgs(f) \in ValidCallbackSequences

(* The process never performs undefined behaviour: no null                *)
(* last_override_settings_ dereference in ApplyOverrideSettings and no    *)
(* at(0) on an output vector emptied by EmulatedSensor::Flush.            *)
NoCrash == ~crashed

(* When EmulatedSensor::Flush wakes from its vsync wait, the sensor        *)
(* mailbox is empty: the request thread cannot latch a request while Flush *)
(* holds process_mutex_, and the vsync it waited for swapped out whatever  *)
(* was latched before. Its "return the pending frame" branch never runs.   *)
FlushFindsMailboxEmpty ==
  (flush_pc = "wait_vsync" /\ got_vsync) => current_request = Null

(* The override frame number ApplyOverrideSettings returns is 0 ("no       *)
(* override") or the frame of a queued zoom override at least kZoomSpeedup *)
(* frames ahead of the frame being processed: "skip until the speed-up is  *)
(* at least 2 frames" (the comment above the check in the code).           *)
OverrideNeverBehind ==
  \A f \in Frames :
    override_frame[f] \in {NotProcessed, 0} \/ override_frame[f] >= f + kZoomSpeedup

(* Frames are completed in frame-number order: the terminal callbacks      *)
(* (final result, ERROR_REQUEST, ERROR_RESULT) reach the result processor  *)
(* in increasing frame order, error results included (the ordering the     *)
(* failure-handling rule asks of a short-circuited request).               *)
CompletionsInFrameOrder ==
  \A i, j \in DOMAIN msgs :
    (i < j /\ msgs[i].kind \in TerminalKinds /\ msgs[j].kind \in TerminalKinds)
      => msgs[i].frame < msgs[j].frame

(* ProcessPipelineRequests returns TIMED_OUT only when pending_requests_   *)
(* is still over kPipelineDepth, i.e. the wait for a slot really failed;   *)
(* a slot freed while the client waits (by the request thread or by Flush) *)
(* wakes it up.                                                            *)
TimeoutOnlyWhenFull ==
  [][\A f \in Frames : (f \notin timed_out /\ f \in timed_out') => PipelineFull]_vars

\* The frames the pipeline has finished, read off the callbacks.
Completed == {f \in Frames : Terminated(f)}

Lifecycle == INSTANCE FrameLifecycle WITH completed <- Completed

(* The request processor and sensor together implement FrameLifecycle:     *)
(* ProcessPipelineRequests accepts each frame once, the first final result *)
(* or error completes only an accepted frame (Flush may complete several   *)
(* at once), no completion is ever taken back, and every accepted frame is *)
(* eventually completed under the fairness of the request and sensor       *)
(* threads and of a started Flush.                                         *)
ImplementsFrameLifecycle == Lifecycle!Spec

(* EmulatedRequestProcessor::Flush returns: once it holds process_mutex_  *)
(* and waits in EmulatedSensor::Flush for a vsync, it eventually fails the *)
(* pending requests and releases the mutex, although the request thread's  *)
(* own WaitForVSyncLocked may reset got_vsync_ under it and WaitForVSync-  *)
(* Locked only leaves its loop on a vsync (a timeout just waits again). It *)
(* needs the sensor thread to be started and to signal vsync on every      *)
(* iteration, even one with nothing latched.                               *)
FlushReturns == (flush_pc = "wait_vsync") ~> (flush_pc = "idle")

(* ProcessPipelineRequests returns: a client blocked waiting for a slot in *)
(* pending_requests_ eventually returns, OK or TIMED_OUT. Flush empties    *)
(* the queue without notify_one, so a waiter that misses the request       *)
(* thread's notify relies on the wait_for timeout to leave the loop.       *)
SubmitReturns == (client_pc = "wait_slot") ~> (client_pc = "idle")

\* Frames accepted by ProcessPipelineRequests and not yet finished.
InFlight == admitted \ Completed

(* The specification's admission bound: no more frames are in flight than *)
(* the pipeline depth. ProcessPipelineRequests only bounds the queue       *)
(* (size() > kPipelineDepth), so a queue of kPipelineDepth + 1 requests,   *)
(* one latched in the mailbox and one in synthesis can all be in flight.   *)
InFlightWithinDepth == Cardinality(InFlight) <= kPipelineDepth
=============================================================================
