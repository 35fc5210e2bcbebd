--------------------- MODULE StreamConfigurationMapCheck ---------------------
(***************************************************************************)
(* The StreamConfigurationMap constructor run once on a camera's static    *)
(* metadata, for the default or the maximum-resolution mode, and compared  *)
(* with reference definitions of what the metadata tags mean.              *)
(***************************************************************************)
EXTENDS StreamConfigurationMap

CONSTANTS
  Formats,   \* pixel formats the metadata lists
  Metadata   \* the static metadata the camera may have

VARIABLES
  chars,          \* the HalCameraMetadata the constructor is given
  max_resolution, \* the maxResolution argument
  constructed,    \* the constructor has run
  config_map      \* the object it built

scm_vars == <<chars, max_resolution, constructed, config_map>>

Sizes == {<<w, h>> : w \in 0..8, h \in 0..8}

ScmTypeOK ==
  /\ DOMAIN chars \subseteq STRING
  /\ max_resolution \in BOOLEAN
  /\ constructed \in BOOLEAN
  /\ config_map.stream_output_size_map \subseteq Formats \X Sizes
  /\ config_map.stream_output_formats \subseteq Formats
  /\ config_map.stream_input_output_map \subseteq Int \X Int

ScmInit ==
  /\ chars \in Metadata
  /\ max_resolution \in BOOLEAN
  /\ constructed = FALSE
  /\ config_map = EmptyMap

\* EmulatedCameraDeviceHwlImpl::Initialize constructs each map once.
Construct ==
  /\ ~constructed
  /\ constructed' = TRUE
  /\ config_map' = StreamConfigurationMapOf(chars, max_resolution)
  /\ UNCHANGED <<chars, max_resolution>>

ScmSpec == ScmInit /\ [][Construct]_scm_vars

----------------------------------------------------------------------------
(* Reference definitions: the metadata tag names the Android metadata      *)
(* definitions give each mode, and what the entries mean.                  *)

ModeTag(tag, maxRes) ==
  IF maxRes THEN tag \o "_MAXIMUM_RESOLUTION" ELSE tag

\* Output <<format, size>> pairs of a stream configurations entry.
RefOutputs(entry) ==
  {Key(entry, i) : i \in {i \in ToSet(TupleStarts(entry)) :
                            At(entry, i + kStreamIsInputOffset) = 0}}

RefOutputSizes(c, maxRes) ==
  UNION {RefOutputs(EntryOf(c, ModeTag(t, maxRes))) :
           t \in {"SCALER_AVAILABLE_STREAM_CONFIGURATIONS",
                  "DEPTH_AVAILABLE_DEPTH_STREAM_CONFIGURATIONS",
                  "DEPTH_AVAILABLE_DYNAMIC_DEPTH_STREAM_CONFIGURATIONS"}}

\* The stall duration of each <<format, size>> the stall tags of the mode
\* list (no pair is listed twice).
RefStallDurations(c, maxRes) ==
  LET entries == {EntryOf(c, ModeTag(t, maxRes)) :
                    t \in {"SCALER_AVAILABLE_STALL_DURATIONS",
                           "DEPTH_AVAILABLE_DEPTH_STALL_DURATIONS"}}
      listed == UNION {{<<e, i>> : i \in ToSet(TupleStarts(e))} : e \in entries}
  IN [k \in {Key(p[1], p[2]) : p \in listed} |->
        LET p == CHOOSE p \in listed : Key(p[1], p[2]) = k
        IN At(p[1], p[2] + kStreamStallDurationOffset)]

\* The input/output formats map: <<input, n, output_1, ..., output_n>>
\* groups; the first malformed group ends the list.
RECURSIVE RefInputOutputPairs(_)
RefInputOutputPairs(s) ==
  IF Len(s) < 2 \/ s[2] <= 0 \/ s[2] > Len(s) - 2 THEN {}
  ELSE {<<s[1], s[2 + k]>> : k \in 1..s[2]}
         \cup RefInputOutputPairs(SubSeq(s, s[2] + 3, Len(s)))

----------------------------------------------------------------------------
(* Properties.                                                             *)

(* The input/output formats map built by the constructor's index loop      *)
(* (lines 196-214) holds exactly the pairs of the well-formed groups of    *)
(* the mode's tag, and every input format of such a group is listed:      *)
(* the count check and the index arithmetic neither drop a group, read a   *)
(* count as a format, nor go on after a malformed group.                   *)
InputOutputMapMatchesReference ==
  constructed =>
    LET pairs == RefInputOutputPairs(
                   EntryOf(chars, ModeTag("SCALER_AVAILABLE_INPUT_OUTPUT_FORMATS_MAP",
                                          max_resolution)).data)
    IN /\ config_map.stream_input_output_map = pairs
       /\ config_map.stream_input_formats = {p[1] : p \in pairs}

(* Each mode's maps are read from that mode's own tags: the output sizes  *)
(* from its stream configuration tags (scaler, depth and dynamic depth,    *)
(* the _MAXIMUM_RESOLUTION variants for the maximum-resolution map), the   *)
(* stall durations from its stall duration tags as 64-bit values.          *)
(* IsStreamCombinationSupported accepts a stream size only if the map of   *)
(* the stream's mode lists it.                                             *)
MapsFromModeTags ==
  constructed =>
    /\ config_map.stream_output_size_map = RefOutputSizes(chars, max_resolution)
    /\ "stream_stall_map" \notin config_map.misread
    /\ config_map.stream_stall_map = RefStallDurations(chars, max_resolution)
=============================================================================
