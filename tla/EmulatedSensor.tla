---------------------------- MODULE EmulatedSensor ----------------------------
(***************************************************************************)
(* The capture scheduler of the emulated camera: the EmulatedSensor        *)
(* thread (threadLoop), the one-slot mailbox it shares with the request    *)
(* processor (current_settings_/current_result_/current_output_buffers_,  *)
(* written by SetCurrentRequest under control_mutex_), the vsync           *)
(* rendezvous (got_vsync_ and the vsync_ condition) and EmulatedSensor::   *)
(* Flush.                                                                  *)
(*                                                                         *)
(* A latched request is abstracted to its frame number and whether its    *)
(* output buffer vector still holds buffers.                               *)
(* Image synthesis, timestamps and result metadata are left out: the       *)
(* sensor thread's observable output is the sequence of callbacks it makes *)
(* for each frame (shutter, partial result, final result, error).          *)
(***************************************************************************)
EXTENDS Integers, Sequences, HalTypes, SensorCharacteristics

CONSTANTS
  Frames,          \* frame numbers a run may use
  PartialResults,  \* partial_result->partial_result != 0 (partial results on)
  kPipelineDepth,  \* EmulatedSensor::kPipelineDepth
  LogicalCameraId, \* the logical_camera_id StartUp is given
  LogicalChars     \* its logical_chars: camera id -> characteristics, or Null

ASSUME PartialResults \in BOOLEAN
ASSUME kPipelineDepth \in Nat

VARIABLES
  current_request, \* the latched request SetCurrentRequest left for the sensor
  sensing,         \* the request threadLoop swapped in and is working on
  sensor_pc,       \* where the sensor thread is in threadLoop
  got_vsync,       \* EmulatedSensor::got_vsync_
  msgs,            \* callbacks made so far, in the order they were made
  crashed,         \* the process hit undefined behaviour (null/at() on empty)
  running          \* isRunning(): StartUp has started the sensor thread

sensor_vars == <<current_request, sensing, sensor_pc, got_vsync>>

\* Callbacks the pipeline delivers for a frame.
MessageKinds == {"shutter", "partial", "final", "errRequest", "errResult"}

\* The callbacks after which the framework considers a frame finished.
TerminalKinds == {"final", "errRequest", "errResult"}

Message == [frame : Frames, kind : MessageKinds]

\* The callbacks frame f received, in order.
FrameMsgs(f) ==
  LET mine == SelectSeq(msgs, LAMBDA m : m.frame = f)
  IN [i \in DOMAIN mine |-> mine[i].kind]

Terminated(f) == \E i \in DOMAIN msgs : msgs[i].frame = f /\ msgs[i].kind \in TerminalKinds

\* Output buffers of a latched request: acquired buffers, or the vector left
\* empty by EmulatedSensor::Flush (current_output_buffers_->clear()).
LatchedBuffers == {"ok", "cleared"}

SensorTypeOK ==
  /\ current_request \in {Null} \cup [frame : Frames, buffers : LatchedBuffers]
  /\ sensing \in {Null} \cup [frame : Frames, buffers : LatchedBuffers,
                              result : {"pending", "moved"}]
  /\ sensor_pc \in {"swap", "capture", "return", "sleep"}
  /\ got_vsync \in BOOLEAN
  /\ msgs \in Seq(Message)
  /\ crashed \in BOOLEAN
  /\ running \in BOOLEAN

SensorInit ==
  /\ current_request = Null
  /\ sensing = Null
  /\ sensor_pc = "swap"
  /\ got_vsync = FALSE
  /\ msgs = <<>>
  /\ crashed = FALSE
  /\ running = FALSE

\* The callbacks cs, in order, for frame f.
Callbacks(f, cs) == [i \in DOMAIN cs |-> [frame |-> f, kind |-> cs[i]]]

Emit(f, cs) == msgs' = msgs \o Callbacks(f, cs)

----------------------------------------------------------------------------
(* Operations other threads call on the sensor.                           *)

\* StartUp rejects a null characteristics map, a map without the logical
\* camera, and a map with unsupported characteristics for any camera;
\* otherwise it runs the thread (thread creation is taken to succeed).
StartUpAccepts ==
  /\ LogicalChars # Null
  /\ LogicalCameraId \in DOMAIN LogicalChars
  /\ \A id \in DOMAIN LogicalChars :
       AreCharacteristicsSupported(LogicalChars[id], kPipelineDepth)

\* StartUp on a stopped sensor (on a running one it returns OK at once).
\* A rejected call leaves the thread stopped, so the call may be repeated.
StartUp ==
  /\ ~running
  /\ running' = StartUpAccepts
  /\ UNCHANGED <<current_request, sensing, sensor_pc, got_vsync, msgs, crashed>>

\* SetCurrentRequest: overwrite the mailbox under control_mutex_.
SetCurrentRequest(frame) ==
  current_request' = [frame |-> frame, buffers |-> "ok"]

\* Fault variant of WaitForVSyncBegin: got_vsync_ is not reset, so a vsync
\* signalled before the wait satisfies it.
WaitForVSyncBeginStale == UNCHANGED got_vsync

\* Entry of WaitForVSyncLocked: got_vsync_ = false, then wait on vsync_.
\* The wait returns once got_vsync_ is seen true (a timeout just loops).
WaitForVSyncBegin == got_vsync' = FALSE

\* The mailbox after EmulatedSensor::Flush returns any latched frame: the
\* output vector is marked failed and cleared; settings and result stay.
FlushedCurrentRequest ==
  IF current_request # Null /\ current_request.buffers = "ok"
  THEN [current_request EXCEPT !.buffers = "cleared"]
  ELSE current_request

\* The callbacks of EmulatedSensor::Flush: ERROR_RESULT for a latched frame
\* whose output vector is not empty, applied to the history m.
FlushCurrentRequestMsgs(m) ==
  IF current_request # Null /\ current_request.buffers = "ok"
  THEN m \o Callbacks(current_request.frame, <<"errResult">>)
  ELSE m

----------------------------------------------------------------------------
(* The sensor thread, threadLoop.                                          *)

\* Fault variant of SwapCurrentRequest: vsync is only signalled for an
\* iteration that found a request latched.
SwapCurrentRequestSignalsOnlyWithRequest ==
  /\ ~crashed
  /\ sensor_pc = "swap"
  /\ got_vsync' = (got_vsync \/ current_request # Null)
  /\ current_request' = Null
  /\ IF current_request = Null
     THEN /\ sensing' = Null
          /\ UNCHANGED sensor_pc
     ELSE /\ sensing' = [frame |-> current_request.frame,
                         buffers |-> current_request.buffers,
                         result |-> "pending"]
          /\ sensor_pc' = "capture"
  /\ UNCHANGED <<msgs, crashed>>

\* Stage 1: swap the mailbox into locals and signal vsync, under
\* control_mutex_. With nothing latched the iteration has nothing to do.
SwapCurrentRequest ==
  /\ ~crashed
  /\ sensor_pc = "swap"
  /\ got_vsync' = TRUE
  /\ current_request' = Null
  /\ IF current_request = Null
     THEN /\ sensing' = Null
          /\ UNCHANGED sensor_pc
     ELSE /\ sensing' = [frame |-> current_request.frame,
                         buffers |-> current_request.buffers,
                         result |-> "pending"]
          /\ sensor_pc' = "capture"
  /\ UNCHANGED <<msgs, crashed>>

\* Stage 2: next_buffers->at(0)->callback, then the shutter notification
\* and the synthesis of every buffer. at(0) on the vector Flush emptied
\* aborts the process.
CaptureFrame ==
  /\ ~crashed
  /\ sensor_pc = "capture"
  /\ IF sensing.buffers = "cleared"
     THEN /\ crashed' = TRUE
          /\ UNCHANGED <<msgs, sensor_pc>>
     ELSE /\ Emit(sensing.frame, <<"shutter">>)
          /\ sensor_pc' = "return"
          /\ UNCHANGED crashed
  /\ UNCHANGED <<current_request, sensing, got_vsync>>

\* ReturnResults: partial result (when supported) then the final result;
\* a result already moved out makes the call a no-op.
ResultCallbacks == IF PartialResults THEN <<"partial", "final">> ELSE <<"final">>

ReturnResultsMsgs ==
  IF sensing.result = "pending"
  THEN msgs \o Callbacks(sensing.frame, ResultCallbacks)
  ELSE msgs

\* Fault variant of ReturnResults: the result is passed by copy, not moved.
ReturnResultsKeepsResult ==
  /\ msgs' = ReturnResultsMsgs
  /\ UNCHANGED sensing

\* The result is passed with std::move, so the caller's copy becomes null.
ReturnResults ==
  /\ msgs' = ReturnResultsMsgs
  /\ sensing' = [sensing EXCEPT !.result = "moved"]

\* Under a tight deadline (work done + kReturnResultThreshod past the frame
\* end) ReturnResults runs before the vertical-blanking sleep.
ReturnResultsEarly ==
  /\ ~crashed
  /\ sensor_pc = "return"
  /\ \/ ReturnResults
     \/ UNCHANGED <<msgs, sensing>>
  /\ sensor_pc' = "sleep"
  /\ UNCHANGED <<current_request, got_vsync, crashed>>

\* Sleep to the frame end, then ReturnResults again; the iteration ends and
\* its locals are released.
SleepAndReturnResults ==
  /\ ~crashed
  /\ sensor_pc = "sleep"
  /\ msgs' = ReturnResultsMsgs
  /\ sensing' = Null
  /\ sensor_pc' = "swap"
  /\ UNCHANGED <<current_request, got_vsync, crashed>>

\* threadLoop only runs once StartUp has started the thread.
SensorThread ==
  /\ running
  /\ \/ SwapCurrentRequest
     \/ CaptureFrame
     \/ ReturnResultsEarly
     \/ SleepAndReturnResults
=============================================================================
