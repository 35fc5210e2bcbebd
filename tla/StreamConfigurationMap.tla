------------------------ MODULE StreamConfigurationMap ------------------------
(***************************************************************************)
(* StreamConfigurationMap (src/devices/EmulatedCamera/hwl/utils/           *)
(* StreamConfigurationMap.cpp): the constructor reads the stream           *)
(* configuration, duration, input/output and multi-resolution tags of a    *)
(* camera's static metadata, for the default or the maximum-resolution     *)
(* sensor mode, into the maps IsStreamCombinationSupported consults.       *)
(*                                                                         *)
(* Metadata is a function from the tags present to entries                 *)
(* [type |-> "i32" or "i64", data |-> flat sequence]; entry.data.i32[i] is *)
(* data[i + 1]. A size is <<width, height>>; the size maps are relations   *)
(* of <<format, size>> pairs, the duration maps functions from them.       *)
(***************************************************************************)
EXTENDS Integers, Sequences, SequencesExt, FiniteSets, TLC

CONSTANTS
  kStreamConfigurationSize, \* layout of one tuple (StreamConfigurationMap.h)
  kStreamFormatOffset,
  kStreamWidthOffset,
  kStreamHeightOffset,
  kStreamIsInputOffset,
  kStreamMinDurationOffset,
  kStreamStallDurationOffset

\* The tags the file-scope constants name. kScalerStallDurationsMaxRes is
\* initialised with the stream configurations tag, as in the source.
kScalerStreamConfigurations == "SCALER_AVAILABLE_STREAM_CONFIGURATIONS"
kScalerStreamConfigurationsMaxRes == "SCALER_AVAILABLE_STREAM_CONFIGURATIONS_MAXIMUM_RESOLUTION"
kDepthStreamConfigurations == "DEPTH_AVAILABLE_DEPTH_STREAM_CONFIGURATIONS"
kDepthStreamConfigurationsMaxRes == "DEPTH_AVAILABLE_DEPTH_STREAM_CONFIGURATIONS_MAXIMUM_RESOLUTION"
kDynamicDepthStreamConfigurations == "DEPTH_AVAILABLE_DYNAMIC_DEPTH_STREAM_CONFIGURATIONS"
kDynamicDepthStreamConfigurationsMaxRes == "DEPTH_AVAILABLE_DYNAMIC_DEPTH_STREAM_CONFIGURATIONS_MAXIMUM_RESOLUTION"
kScalerMinFrameDurations == "SCALER_AVAILABLE_MIN_FRAME_DURATIONS"
kScalerMinFrameDurationsMaxRes == "SCALER_AVAILABLE_MIN_FRAME_DURATIONS_MAXIMUM_RESOLUTION"
kDepthMinFrameDurations == "DEPTH_AVAILABLE_DEPTH_MIN_FRAME_DURATIONS"
kDepthMinFrameDurationsMaxRes == "DEPTH_AVAILABLE_DEPTH_MIN_FRAME_DURATIONS_MAXIMUM_RESOLUTION"
kScalerStallDurations == "SCALER_AVAILABLE_STALL_DURATIONS"
kScalerStallDurationsMaxRes == "SCALER_AVAILABLE_STREAM_CONFIGURATIONS_MAXIMUM_RESOLUTION"
kScalerInputOutputFormatsMap == "SCALER_AVAILABLE_INPUT_OUTPUT_FORMATS_MAP"
kScalerInputOutputFormatsMapMaxRes == "SCALER_AVAILABLE_INPUT_OUTPUT_FORMATS_MAP_MAXIMUM_RESOLUTION"
kDepthStallDurations == "DEPTH_AVAILABLE_DEPTH_STALL_DURATIONS"
kDepthStallDurationsMaxRes == "DEPTH_AVAILABLE_DEPTH_STALL_DURATIONS_MAXIMUM_RESOLUTION"
kMultiResolutionStreamConfigurations == "SCALER_PHYSICAL_CAMERA_MULTI_RESOLUTION_STREAM_CONFIGURATIONS"
kJpegRStreamConfigurations == "JPEGR_AVAILABLE_JPEG_R_STREAM_CONFIGURATIONS"

\* HalCameraMetadata::Get: OK with the entry when the tag is present.
Has(chars, tag) == tag \in DOMAIN chars
EmptyEntry == [type |-> "i32", data |-> <<>>]
EntryOf(chars, tag) == IF Has(chars, tag) THEN chars[tag] ELSE EmptyEntry

\* entry.data.i32[i] / entry.data.i64[i] of an entry of that type.
At(entry, i) == entry.data[i + 1]

\* The start index of every tuple: i = 0, kStreamConfigurationSize, ...
TupleStarts(entry) ==
  [k \in 1..(Len(entry.data) \div kStreamConfigurationSize) |->
     (k - 1) * kStreamConfigurationSize]

Key(entry, i) ==
  <<At(entry, i + kStreamFormatOffset),
    <<At(entry, i + kStreamWidthOffset), At(entry, i + kStreamHeightOffset)>>>>

EmptyMap ==
  [stream_output_formats |-> {}, stream_output_size_map |-> {},
   dynamic_physical_stream_output_formats |-> {},
   dynamic_physical_stream_output_size_map |-> {},
   stream_min_duration_map |-> <<>>, stream_stall_map |-> <<>>,
   misread |-> {},
   stream_input_output_map |-> {}, stream_input_formats |-> {},
   jpegr_stream_output_size_map |-> {}]

\* Fault variant of AppendAvailableStreamConfigurations: the format is read
\* at the direction's offset.
AppendAvailableStreamConfigurationsMisaligned(m, entry) ==
  LET outs == {i \in ToSet(TupleStarts(entry)) :
                 At(entry, i + kStreamIsInputOffset) = 0}
  IN [m EXCEPT
        !.stream_output_formats =
            @ \cup {At(entry, i + kStreamIsInputOffset) : i \in outs},
        !.stream_output_size_map = @ \cup {Key(entry, i) : i \in outs}]

AppendAvailableStreamConfigurations(m, entry) ==
  LET outs == {i \in ToSet(TupleStarts(entry)) :
                 At(entry, i + kStreamIsInputOffset) = 0}
  IN [m EXCEPT
        !.stream_output_formats =
            @ \cup {At(entry, i + kStreamFormatOffset) : i \in outs},
        !.stream_output_size_map = @ \cup {Key(entry, i) : i \in outs}]

\* Input and output tuples are both taken as outputs.
AppendAvailableDynamicPhysicalStreamConfigurations(m, entry) ==
  LET all == ToSet(TupleStarts(entry))
  IN [m EXCEPT
        !.dynamic_physical_stream_output_formats =
            @ \cup {At(entry, i + kStreamFormatOffset) : i \in all},
        !.dynamic_physical_stream_output_size_map =
            @ \cup {Key(entry, i) : i \in all}]

\* map[key] = duration for each tuple in order: a later tuple overwrites.
\* An i32 entry read through data.i64 reinterprets pairs of values and
\* reads past its end (undefined behaviour): the map is then recorded in
\* "misread" instead of being given values.
AppendDurations(m, field, entry, offset) ==
  IF Len(entry.data) = 0 THEN m
  ELSE IF entry.type # "i64" THEN [m EXCEPT !.misread = @ \cup {field}]
  ELSE [m EXCEPT ![field] =
          FoldLeft(LAMBDA acc, i : (Key(entry, i) :> At(entry, i + offset)) @@ acc,
                   @, TupleStarts(entry))]

AppendAvailableStreamMinDurations(m, entry) ==
  AppendDurations(m, "stream_min_duration_map", entry, kStreamMinDurationOffset)

AppendAvailableStreamStallDurations(m, entry) ==
  AppendDurations(m, "stream_stall_map", entry, kStreamStallDurationOffset)

\* The input/output formats map loop from index i: <<input, count,
\* outputs...>> groups; a count <= 0 or one running past the entry breaks
\* the loop. With one value left, the count is read one past the entry;
\* whatever is read there, the count check breaks.
\* Fault variant of ParseInputOutputFormats: a group that ends exactly at
\* the end of the entry is taken as running past it.
RECURSIVE ParseInputOutputFormatsOffByOne(_, _, _)
ParseInputOutputFormatsOffByOne(m, entry, i) ==
  IF i >= Len(entry.data) \/ i + 1 >= Len(entry.data) THEN m
  ELSE
    LET input_format == At(entry, i)
        output_format_count == At(entry, i + 1)
        j == i + 2
    IN IF output_format_count <= 0 \/ output_format_count + j >= Len(entry.data)
       THEN m
       ELSE ParseInputOutputFormatsOffByOne(
              [m EXCEPT
                 !.stream_input_output_map =
                     @ \cup {<<input_format, At(entry, k)>> :
                               k \in j..(j + output_format_count - 1)},
                 !.stream_input_formats = @ \cup {input_format}],
              entry, j + output_format_count)

RECURSIVE ParseInputOutputFormats(_, _, _)
ParseInputOutputFormats(m, entry, i) ==
  IF i >= Len(entry.data) \/ i + 1 >= Len(entry.data) THEN m
  ELSE
    LET input_format == At(entry, i)
        output_format_count == At(entry, i + 1)
        j == i + 2
    IN IF output_format_count <= 0 \/ output_format_count + j > Len(entry.data)
       THEN m
       ELSE ParseInputOutputFormats(
              [m EXCEPT
                 !.stream_input_output_map =
                     @ \cup {<<input_format, At(entry, k)>> :
                               k \in j..(j + output_format_count - 1)},
                 !.stream_input_formats = @ \cup {input_format}],
              entry, j + output_format_count)

AppendAvailableJpegRStreamConfigurations(m, entry) ==
  LET outs == {i \in ToSet(TupleStarts(entry)) :
                 At(entry, i + kStreamIsInputOffset) = 0}
  IN [m EXCEPT !.jpegr_stream_output_size_map =
                 @ \cup {Key(entry, i) : i \in outs}]

\* StreamConfigurationMap::StreamConfigurationMap(chars, maxResolution).
StreamConfigurationMapOf(chars, maxResolution) ==
  LET Mode(maxTag, tag) == IF maxResolution THEN maxTag ELSE tag
      \* a tag read only when present
      IfHas(m, c, tag, Parse(_, _)) ==
        IF Has(c, tag) THEN Parse(m, c[tag]) ELSE m
      m1 == AppendAvailableStreamConfigurations(EmptyMap,
              EntryOf(chars, Mode(kScalerStreamConfigurationsMaxRes,
                                  kScalerStreamConfigurations)))
      m2 == IfHas(m1, chars, Mode(kDepthStreamConfigurationsMaxRes,
                                  kDepthStreamConfigurations),
                  AppendAvailableStreamConfigurations)
      m3 == IfHas(m2, chars, Mode(kDynamicDepthStreamConfigurations,
                                  kDynamicDepthStreamConfigurationsMaxRes),
                  AppendAvailableStreamConfigurations)
      m4 == AppendAvailableStreamMinDurations(m3,
              EntryOf(chars, Mode(kScalerMinFrameDurationsMaxRes,
                                  kScalerMinFrameDurations)))
      m5 == IfHas(m4, chars, Mode(kDepthMinFrameDurationsMaxRes,
                                  kDepthMinFrameDurations),
                  AppendAvailableStreamMinDurations)
      m6 == AppendAvailableStreamStallDurations(m5,
              EntryOf(chars, Mode(kScalerStallDurationsMaxRes,
                                  kScalerStallDurations)))
      m7 == IfHas(m6, chars, Mode(kDepthStallDurationsMaxRes,
                                  kDepthStallDurations),
                  AppendAvailableStreamStallDurations)
      ioTag == Mode(kScalerInputOutputFormatsMapMaxRes,
                    kScalerInputOutputFormatsMap)
      m8 == IF Has(chars, ioTag)
            THEN ParseInputOutputFormats(m7, chars[ioTag], 0) ELSE m7
      m9 == IfHas(m8, chars, kMultiResolutionStreamConfigurations,
                  AppendAvailableDynamicPhysicalStreamConfigurations)
  IN IfHas(m9, chars, kJpegRStreamConfigurations,
           AppendAvailableJpegRStreamConfigurations)
=============================================================================
