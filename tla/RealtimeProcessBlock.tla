------------------------- MODULE RealtimeProcessBlock -------------------------
(***************************************************************************)
(* RealtimeProcessBlock (src/common/hal/utils/realtime_process_block.cc):  *)
(* the process block that forwards a session's requests to the HWL and the *)
(* HWL's results and messages to the session's result processor.           *)
(*                                                                         *)
(* The result processor is abstracted to the set of frames it is waiting   *)
(* for (AddPendingRequests adds a frame, a final result or an error        *)
(* notification resolves it). The HWL is abstracted to the set of frames   *)
(* it was given and still owes an answer for; it answers each of them once *)
(* with a result, as part of a batch, or with an error message (module     *)
(* EmulatedRequestProcessor shows the emulated HWL does so).               *)
(***************************************************************************)
EXTENDS Naturals, FiniteSets

CONSTANTS
  MaxFrame,               \* frames 1..MaxFrame are requested
  SessionConfiguresFirst, \* ProcessRequests is only called once configured
  AddPendingCanFail,      \* ResultProcessor::AddPendingRequests may fail
  SubmitCanFail,          \* CreateHwlPipelineRequest / SubmitRequests may fail
  ConvertCanFail          \* ConvertToCaptureResult may return nullptr

ASSUME MaxFrame \in Nat \ {0}
ASSUME {SessionConfiguresFirst, AddPendingCanFail, SubmitCanFail, ConvertCanFail}
         \subseteq BOOLEAN

Frames == 1..MaxFrame

VARIABLES
  is_configured,     \* is_configured_
  result_processor,  \* result_processor_ != nullptr
  next_frame,        \* frame number of the session's next ProcessRequests
  rp_pending,        \* frames the result processor waits for
  rp_resolved,       \* frames the result processor got a result or error for
  hwl_pending,       \* frames submitted to the HWL and not yet answered
  rpb_pc,            \* "idle", or "submit" between the two locked blocks
  submitting         \* the frame ProcessRequests is submitting (0 if idle)

rpb_vars == <<is_configured, result_processor, next_frame, rp_pending,
              rp_resolved, hwl_pending, rpb_pc, submitting>>

RpbTypeOK ==
  /\ is_configured \in BOOLEAN
  /\ result_processor \in BOOLEAN
  /\ next_frame \in 1..(MaxFrame + 1)
  /\ rp_pending \in SUBSET Frames
  /\ rp_resolved \in SUBSET Frames
  /\ hwl_pending \in SUBSET Frames
  /\ rpb_pc \in {"idle", "submit"}
  /\ submitting \in {0} \cup Frames

RpbInit ==
  /\ is_configured = FALSE
  /\ result_processor = FALSE
  /\ next_frame = 1
  /\ rp_pending = {}
  /\ rp_resolved = {}
  /\ hwl_pending = {}
  /\ rpb_pc = "idle"
  /\ submitting = 0

\* Outcomes of a call that can fail only where the run allows it.
Outcomes(can_fail) == IF can_fail THEN BOOLEAN ELSE {TRUE}

----------------------------------------------------------------------------
(* Session-side calls.                                                     *)

\* SetResultProcessor with a non-null processor: ALREADY_EXISTS once set.
SetResultProcessor ==
  /\ ~result_processor
  /\ result_processor' = TRUE
  /\ UNCHANGED <<is_configured, next_frame, rp_pending, rp_resolved, hwl_pending,
                 rpb_pc, submitting>>

\* ConfigureStreams: ALREADY_EXISTS once configured; a failing
\* ConfigurePipeline returns without a state change.
ConfigureStreams ==
  /\ ~is_configured
  /\ is_configured' = TRUE
  /\ UNCHANGED <<result_processor, next_frame, rp_pending, rp_resolved, hwl_pending,
                 rpb_pc, submitting>>

\* Fault variant of ProcessRequestsAddPending: a failed AddPendingRequests
\* is logged but does not return, and the request is submitted anyway.
ProcessRequestsAddPendingNoReturn ==
  LET f == next_frame IN
  /\ rpb_pc = "idle"
  /\ f <= MaxFrame
  /\ SessionConfiguresFirst => is_configured
  /\ next_frame' = f + 1
  /\ IF ~result_processor
     THEN UNCHANGED <<rp_pending, rpb_pc, submitting>>
     ELSE /\ \E added \in Outcomes(AddPendingCanFail) :
               rp_pending' = IF added THEN rp_pending \cup {f} ELSE rp_pending
          /\ rpb_pc' = "submit"
          /\ submitting' = f
  /\ UNCHANGED <<is_configured, result_processor, rp_resolved, hwl_pending>>

\* ProcessRequests, first block, under result_processor_lock_: NO_INIT
\* without a result processor; otherwise AddPendingRequests, whose failure
\* returns. The entry it adds stays whatever happens next.
ProcessRequestsAddPending ==
  LET f == next_frame IN
  /\ rpb_pc = "idle"
  /\ f <= MaxFrame
  /\ SessionConfiguresFirst => is_configured
  /\ next_frame' = f + 1
  /\ IF ~result_processor
     THEN UNCHANGED <<rp_pending, rpb_pc, submitting>>
     ELSE \E added \in Outcomes(AddPendingCanFail) :
            IF added
            THEN /\ rp_pending' = rp_pending \cup {f}
                 /\ rpb_pc' = "submit"
                 /\ submitting' = f
            ELSE UNCHANGED <<rp_pending, rpb_pc, submitting>>
  /\ UNCHANGED <<is_configured, result_processor, rp_resolved, hwl_pending>>

\* ProcessRequests, second block, under configure_shared_mutex_: NO_INIT if
\* not configured, then CreateHwlPipelineRequest and SubmitRequests.
ProcessRequestsSubmit ==
  /\ rpb_pc = "submit"
  /\ \E submitted \in Outcomes(SubmitCanFail) :
       hwl_pending' = IF is_configured /\ submitted
                      THEN hwl_pending \cup {submitting} ELSE hwl_pending
  /\ rpb_pc' = "idle"
  /\ submitting' = 0
  /\ UNCHANGED <<is_configured, result_processor, next_frame, rp_pending,
                 rp_resolved>>

----------------------------------------------------------------------------
(* HWL callbacks, under result_processor_lock_.                            *)

\* The result processor resolves the frames S.
Resolve(S) ==
  /\ rp_pending' = rp_pending \ S
  /\ rp_resolved' = rp_resolved \cup (S \cap rp_pending)

\* The HWL answers the frames S; the callback forwards them to the result
\* processor if there is one and every conversion succeeds.
Answer(S, forwarded) ==
  /\ hwl_pending' = hwl_pending \ S
  /\ IF result_processor /\ forwarded
     THEN Resolve(S)
     ELSE UNCHANGED <<rp_pending, rp_resolved>>
  /\ UNCHANGED <<is_configured, result_processor, next_frame, rpb_pc, submitting>>

\* NotifyHwlPipelineResult: a result for one frame; a failed
\* ConvertToCaptureResult drops it.
NotifyHwlPipelineResult ==
  \E f \in hwl_pending, converted \in Outcomes(ConvertCanFail) :
    Answer({f}, converted)

\* NotifyHwlPipelineBatchResult: results for several frames; the first
\* failed conversion returns and drops the whole batch.
NotifyHwlPipelineBatchResult ==
  \E S \in SUBSET hwl_pending, converted \in Outcomes(ConvertCanFail) :
    /\ Cardinality(S) >= 2
    /\ Answer(S, converted)

\* NotifyHwlPipelineMessage: an ERROR_REQUEST for one frame, passed to
\* result_processor_->Notify.
NotifyHwlPipelineMessage ==
  \E f \in hwl_pending : Answer({f}, TRUE)

\* Flush: OK without a call while not configured; otherwise the HWL's
\* Flush, which fails frames it still owes with ERROR_REQUEST messages
\* delivered through NotifyHwlPipelineMessage before it returns.
Flush ==
  /\ is_configured
  /\ \E S \in SUBSET hwl_pending :
       /\ S # {}
       /\ Answer(S, TRUE)

RpbNext ==
  \/ SetResultProcessor
  \/ ConfigureStreams
  \/ ProcessRequestsAddPending
  \/ ProcessRequestsSubmit
  \/ NotifyHwlPipelineResult
  \/ NotifyHwlPipelineBatchResult
  \/ NotifyHwlPipelineMessage
  \/ Flush

\* Only safety is checked of the block, so no fairness is assumed.
RpbSpec == RpbInit /\ [][RpbNext]_rpb_vars

----------------------------------------------------------------------------
(* Properties.                                                             *)

\* The frame ProcessRequests has added and not yet submitted.
InSubmission == IF rpb_pc = "submit" THEN {submitting} ELSE {}

(* Every frame the result processor is waiting for is owed by the HWL or  *)
(* is being submitted: ProcessRequests never leaves a pending entry for a  *)
(* request the HWL did not take, and no callback drops an answer the       *)
(* result processor needs. A frame outside both would be waited for        *)
(* forever.                                                                *)
NoOrphanPending == rp_pending \subseteq hwl_pending \cup InSubmission

(* Every frame the HWL owes an answer for is one the result processor is   *)
(* waiting for, so no result or error reaches it for a frame it does not   *)
(* know. ProcessRequests adds the pending entry under result_processor_lock_ *)
(* and submits under configure_shared_mutex_; between the two the HWL's    *)
(* callbacks and ConfigureStreams run. This needs AddPendingRequests before *)
(* SubmitRequests and the return when AddPendingRequests fails, whatever    *)
(* submissions, conversions and configuration do.                           *)
AnswersFindPending == hwl_pending \subseteq rp_pending
====
