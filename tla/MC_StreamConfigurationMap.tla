----------------------- MODULE MC_StreamConfigurationMap -----------------------
(***************************************************************************)
(* Metadata for the StreamConfigurationMap check. Formats are the HAL      *)
(* values RAW16 (32), BLOB (33) and YCBCR_420_888 (35). The scaler, depth  *)
(* and duration tags are fixed per mode; the dynamic depth and stall tags  *)
(* may be absent; the input/output formats map ranges over every sequence  *)
(* of up to five values, well formed or not.                               *)
(***************************************************************************)
EXTENDS StreamConfigurationMapCheck

MCFormats == {32, 33, 35}

I32(d) == [type |-> "i32", data |-> d]
I64(d) == [type |-> "i64", data |-> d]

\* Tuples are <<format, width, height, is_input / duration>>.
FixedTags ==
  ("SCALER_AVAILABLE_STREAM_CONFIGURATIONS" :>
      I32(<<35, 2, 2, 0, 33, 2, 2, 0, 35, 1, 1, 1>>)) @@
  ("SCALER_AVAILABLE_STREAM_CONFIGURATIONS_MAXIMUM_RESOLUTION" :>
      I32(<<32, 4, 4, 0>>)) @@
  ("SCALER_AVAILABLE_MIN_FRAME_DURATIONS" :>
      I64(<<35, 2, 2, 10, 33, 2, 2, 20>>)) @@
  ("SCALER_AVAILABLE_MIN_FRAME_DURATIONS_MAXIMUM_RESOLUTION" :>
      I64(<<32, 4, 4, 40>>))

OptionalTags ==
  ("DEPTH_AVAILABLE_DYNAMIC_DEPTH_STREAM_CONFIGURATIONS" :>
      I32(<<33, 1, 1, 0>>)) @@
  ("DEPTH_AVAILABLE_DYNAMIC_DEPTH_STREAM_CONFIGURATIONS_MAXIMUM_RESOLUTION" :>
      I32(<<33, 4, 4, 0>>)) @@
  ("SCALER_AVAILABLE_STALL_DURATIONS" :> I64(<<33, 2, 2, 5>>))

IOValues == {0, 1, 2, 33, 35}

IOEntries == UNION {[1..n -> IOValues] : n \in 0..5}

MCMetadata ==
  {FixedTags @@ [t \in present |-> OptionalTags[t]]
             @@ ("SCALER_AVAILABLE_INPUT_OUTPUT_FORMATS_MAP" :> I32(io))
             @@ ("SCALER_AVAILABLE_INPUT_OUTPUT_FORMATS_MAP_MAXIMUM_RESOLUTION" :> I32(io)) :
     present \in SUBSET DOMAIN OptionalTags, io \in IOEntries}
=============================================================================
