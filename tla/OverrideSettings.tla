--------------------------- MODULE OverrideSettings ---------------------------
(***************************************************************************)
(* The deferred-settings ("settings override") queue of the emulated       *)
(* request processor, EmulatedRequestProcessor::ApplyOverrideSettings and  *)
(* ApplyOverrideZoom.                                                      *)
(*                                                                         *)
(* Request settings are abstracted to what the override walk tells apart:  *)
(* whether the metadata pointer is null (Null), the value of the           *)
(* ANDROID_CONTROL_SETTINGS_OVERRIDE entry ("absent", "off", "zoom") and   *)
(* the zoom group of keys ANDROID_CONTROL_ZOOM_RATIO, SCALER_CROP_REGION,  *)
(* AE/AWB/AF_REGIONS, represented by the frame number of the request they  *)
(* were taken from.                                                        *)
(***************************************************************************)
EXTENDS Integers, Sequences, HalTypes

CONSTANTS
  kZoomSpeedup,       \* EmulatedRequestProcessor::kZoomSpeedup
  FrameNumberModulus  \* 2^w, w the width of the uint32_t frame numbers

ASSUME kZoomSpeedup \in Nat \ {0}
ASSUME FrameNumberModulus \in Nat /\ FrameNumberModulus > kZoomSpeedup

\* Values of ANDROID_CONTROL_SETTINGS_OVERRIDE as far as the walk tells them
\* apart: the entry is missing, OFF, or ZOOM.
OverrideKinds == {"absent", "off", "zoom"}

\* Settings metadata of a request, given its frame number and zoom source.
Settings(Frames) == [ovr : OverrideKinds, zoom : Frames]

\* Unsigned 32-bit subtraction `override_frame_number - frame_number`.
UnsignedDiff(a, b) == (a - b) % FrameNumberModulus

\* ApplyOverrideZoom applied to the six zoom tags: the request settings take
\* the override entry and the zoom group of the override settings.
ApplyOverrideZoom(override_setting, request_settings) ==
  [request_settings EXCEPT !.ovr = override_setting.ovr,
                           !.zoom = override_setting.zoom]

(***************************************************************************)
(* One call of ApplyOverrideSettings(frame_number, request_settings).      *)
(* Returns the new override_settings_ queue, last_override_settings_, the  *)
(* (mutated) request settings, the override frame number it returns, and  *)
(* whether it dereferenced a null override setting (a repeating entry met  *)
(* while last_override_settings_ is still null).                          *)
(***************************************************************************)
RECURSIVE ApplyOverrideSettings(_, _, _, _)
ApplyOverrideSettings(frame_number, queue, last_override, request_settings) ==
  IF queue = <<>> \/ request_settings = Null
  THEN [queue |-> queue, last_override |-> last_override,
        settings |-> request_settings, result |-> 0, null_deref |-> FALSE]
  ELSE
    LET entry            == Head(queue)
        repeatingOverride == entry.settings = Null
        override_setting == IF repeatingOverride THEN last_override
                                                 ELSE entry.settings
    IN
    IF override_setting = Null
    THEN [queue |-> queue, last_override |-> last_override,
          settings |-> request_settings, result |-> 0, null_deref |-> TRUE]
    ELSE
      LET overriding == override_setting.ovr = "zoom"
          settings2  == IF overriding
                        THEN ApplyOverrideZoom(override_setting, request_settings)
                        ELSE request_settings
          last2      == IF repeatingOverride THEN last_override
                                             ELSE override_setting
      IN
      IF UnsignedDiff(entry.frame, frame_number) >= kZoomSpeedup
      THEN [queue |-> Tail(queue), last_override |-> last2,
            settings |-> settings2,
            result |-> IF overriding THEN entry.frame ELSE 0,
            null_deref |-> FALSE]
      ELSE ApplyOverrideSettings(frame_number, Tail(queue), last2, settings2)

\* The override_settings_ entry ProcessPipelineRequests queues for a request
\* (a sequence of zero or one entry): the settings when the override entry
\* is present, a "repeat previous" entry when the settings are null.
OverrideEntryFor(frame_number, settings) ==
  IF settings = Null
  THEN <<[frame |-> frame_number, settings |-> Null]>>
  ELSE IF settings.ovr # "absent"
       THEN <<[frame |-> frame_number, settings |-> settings]>>
       ELSE <<>>
=============================================================================
