--------------------------- MODULE StreamCombination ---------------------------
(***************************************************************************)
(* EmulatedSensor::IsStreamCombinationSupported and SplitStreamCombination *)
(* (src/devices/EmulatedCamera/hwl/EmulatedSensor.cpp 325-634) as          *)
(* operators over a StreamConfiguration given as a sequence of streams.    *)
(*                                                                         *)
(* A stream is a record with the fields of google_camera_hal::Stream the   *)
(* check reads; a size is <<width, height>>. Sensor characteristics are a  *)
(* function from camera id to a record of the fields the check reads.      *)
(* Configuration maps are the records StreamConfigurationMapOf builds.     *)
(***************************************************************************)
EXTENDS Integers, Sequences, FiniteSets, StreamConfigurationMap

\* HAL pixel formats.
HAL_PIXEL_FORMAT_RAW16 == 32
HAL_PIXEL_FORMAT_BLOB == 33
HAL_PIXEL_FORMAT_IMPLEMENTATION_DEFINED == 34
HAL_PIXEL_FORMAT_YCBCR_420_888 == 35
HAL_PIXEL_FORMAT_YCBCR_P010 == 54

\* ANDROID_SCALER_AVAILABLE_STREAM_USE_CASES values.
USE_CASE_DEFAULT == 0
USE_CASE_STILL_CAPTURE == 2
USE_CASE_CROPPED_RAW == 6

----------------------------------------------------------------------------
(* StreamConfigurationMap getters (StreamConfigurationMap.h).              *)

GetValidOutputFormatsForInput(map, format) ==
  {p[2] : p \in {q \in map.stream_input_output_map : q[1] = format}}

\* JPEG_R BLOB streams take their sizes from the JPEG_R configurations.
GetOutputSizes(map, format, data_space) ==
  LET sizes == IF format = HAL_PIXEL_FORMAT_BLOB /\ data_space = "JPEG_R"
               THEN map.jpegr_stream_output_size_map
               ELSE map.stream_output_size_map
  IN {p[2] : p \in {q \in sizes : q[1] = format}}

GetDynamicPhysicalStreamOutputSizes(map, format) ==
  {p[2] : p \in {q \in map.dynamic_physical_stream_output_size_map : q[1] = format}}

----------------------------------------------------------------------------

IsInput(stream) == stream.stream_type = "kInput"

\* Fault variant of SplitStreamCombination: a stream intended for both
\* modes goes to the default mode's configuration only.
SplitStreamCombinationElseIf(streams) ==
  [input |-> SelectSeq(streams, IsInput),
   default_mode |-> SelectSeq(streams, LAMBDA s : ~IsInput(s)
                                 /\ s.intended_for_default_resolution_mode),
   max_resolution_mode |-> SelectSeq(streams, LAMBDA s : ~IsInput(s)
                                 /\ ~s.intended_for_default_resolution_mode
                                 /\ s.intended_for_max_resolution_mode)]

\* Inputs go to the input configuration only; an output goes to the
\* configuration of every mode it is intended for.
SplitStreamCombination(streams) ==
  [input |-> SelectSeq(streams, IsInput),
   default_mode |-> SelectSeq(streams, LAMBDA s : ~IsInput(s)
                                 /\ s.intended_for_default_resolution_mode),
   max_resolution_mode |-> SelectSeq(streams, LAMBDA s : ~IsInput(s)
                                 /\ s.intended_for_max_resolution_mode)]

\* The sensor a stream's characteristics are taken from.
SensorOf(logical_id, stream) ==
  IF stream.is_physical_camera_stream THEN stream.physical_camera_id ELSE logical_id

\* The input stream branch of the per-stream loop.
InputStreamSupported(logical_id, stream, config_map, sensor_chars) ==
  /\ sensor_chars[logical_id].max_input_streams # 0
  /\ GetValidOutputFormatsForInput(config_map, stream.format) # {}

\* A non-standard dynamic range profile needs a 10-bit capable sensor, a
\* 10-bit format, and for P010 an HLG or unknown data space.
DynamicProfileSupported(logical_id, stream, sensor_chars) ==
  stream.dynamic_profile # "STANDARD" =>
    /\ sensor_chars[SensorOf(logical_id, stream)].is_10bit_dynamic_range_capable
    /\ stream.format \in {HAL_PIXEL_FORMAT_IMPLEMENTATION_DEFINED,
                          HAL_PIXEL_FORMAT_YCBCR_P010}
    /\ stream.format = HAL_PIXEL_FORMAT_YCBCR_P010 =>
         stream.data_space \in {"BT2020_ITU_HLG", "BT2020_HLG", "UNKNOWN"}

\* The format switch: BLOB data spaces, RAW16 at the sensor's size.
FormatSupported(logical_id, stream, sensor_chars, is_max_res) ==
  /\ stream.format = HAL_PIXEL_FORMAT_BLOB =>
       stream.data_space \in {"JFIF", "JPEG_R", "UNKNOWN"}
  /\ stream.format = HAL_PIXEL_FORMAT_RAW16 =>
       LET sensor_char == sensor_chars[SensorOf(logical_id, stream)]
       IN stream.size = IF is_max_res THEN sensor_char.full_res_size
                                      ELSE sensor_char.size

\* The sizes the stream's format may have: the dynamic physical sizes,
\* the physical camera's, or the logical camera's map.
OutputSizesFor(stream, config_map, physical_map) ==
  IF stream.is_physical_camera_stream /\ stream.group_id # -1
  THEN GetDynamicPhysicalStreamOutputSizes(
         physical_map[stream.physical_camera_id], stream.format)
  ELSE IF stream.is_physical_camera_stream
  THEN GetOutputSizes(physical_map[stream.physical_camera_id],
                      stream.format, stream.data_space)
  ELSE GetOutputSizes(config_map, stream.format, stream.data_space)

\* The output stream branch of the per-stream loop.
OutputStreamSupported(logical_id, stream, config_map, physical_map, sensor_chars, is_max_res) ==
  /\ stream.is_physical_camera_stream =>
       stream.physical_camera_id \in DOMAIN physical_map
  /\ stream.is_physical_camera_stream /\ stream.group_id # -1 =>
       stream.format \in physical_map[stream.physical_camera_id]
                           .dynamic_physical_stream_output_formats
  /\ DynamicProfileSupported(logical_id, stream, sensor_chars)
  /\ FormatSupported(logical_id, stream, sensor_chars, is_max_res)
  /\ stream.size \in OutputSizesFor(stream, config_map, physical_map)

\* The use case checks every stream goes through.
UseCaseSupported(logical_id, stream, sensor_chars) ==
  LET chars == sensor_chars[logical_id] IN
  IF ~chars.support_stream_use_case THEN stream.use_case = USE_CASE_DEFAULT
  ELSE IF stream.use_case > chars.end_valid_stream_use_case THEN FALSE
  ELSE IF stream.use_case = USE_CASE_DEFAULT THEN TRUE
  ELSE IF stream.use_case = USE_CASE_STILL_CAPTURE
  THEN stream.format \in {HAL_PIXEL_FORMAT_YCBCR_420_888, HAL_PIXEL_FORMAT_BLOB}
  ELSE IF (stream.format = HAL_PIXEL_FORMAT_RAW16)
            # (stream.use_case = USE_CASE_CROPPED_RAW)
  THEN FALSE
  ELSE stream.format \in {HAL_PIXEL_FORMAT_YCBCR_420_888,
                          HAL_PIXEL_FORMAT_IMPLEMENTATION_DEFINED,
                          HAL_PIXEL_FORMAT_RAW16}

StreamSupported(logical_id, stream, config_map, physical_map, sensor_chars, is_max_res) ==
  /\ stream.rotation = "kRotation0"
  /\ IF IsInput(stream)
     THEN InputStreamSupported(logical_id, stream, config_map, sensor_chars)
     ELSE OutputStreamSupported(logical_id, stream, config_map, physical_map,
                                sensor_chars, is_max_res)
  /\ UseCaseSupported(logical_id, stream, sensor_chars)

\* Fault variant of CountedFor: a logical stream is counted for no camera.
CountedForLogicalUncounted(stream, physical_map) ==
  IF stream.is_physical_camera_stream THEN {stream.physical_camera_id} ELSE {}

\* The camera ids a stream is counted against: its physical camera, or
\* every camera of physical_map.
CountedFor(stream, physical_map) ==
  IF stream.is_physical_camera_stream THEN {stream.physical_camera_id}
  ELSE DOMAIN physical_map

StreamKind(stream) ==
  CASE stream.format = HAL_PIXEL_FORMAT_BLOB -> "stalling"
    [] stream.format = HAL_PIXEL_FORMAT_RAW16 -> "raw"
    [] OTHER -> "processed"

\* raw_stream_count / stalling_stream_count / processed_stream_count.
StreamCount(streams, kind, id, physical_map) ==
  Cardinality({i \in DOMAIN streams :
                 /\ ~IsInput(streams[i])
                 /\ StreamKind(streams[i]) = kind
                 /\ id \in CountedFor(streams[i], physical_map)})

\* The count limits checked after the loop.
StreamCountsSupported(logical_id, streams, physical_map, sensor_chars, is_max_res) ==
  /\ \A id \in DOMAIN physical_map :
       /\ StreamCount(streams, "raw", id, physical_map)
            <= sensor_chars[id].max_raw_streams + (IF is_max_res THEN 1 ELSE 0)
       /\ StreamCount(streams, "stalling", id, physical_map)
            <= sensor_chars[id].max_stalling_streams
       /\ StreamCount(streams, "processed", id, physical_map)
            <= sensor_chars[id].max_processed_streams
  /\ Len(SelectSeq(streams, IsInput)) <= sensor_chars[logical_id].max_input_streams

\* IsStreamCombinationSupported for one configuration of one mode.
ConfigSupported(logical_id, streams, config_map, physical_map, sensor_chars, is_max_res) ==
  /\ \A i \in DOMAIN streams :
       StreamSupported(logical_id, streams[i], config_map, physical_map,
                       sensor_chars, is_max_res)
  /\ StreamCountsSupported(logical_id, streams, physical_map, sensor_chars,
                           is_max_res)

\* The public IsStreamCombinationSupported: both modes' outputs, and the
\* inputs in either mode.
IsStreamCombinationSupported(logical_id, streams, default_config_map, max_resolution_config_map, physical_map, physical_map_max_resolution, sensor_chars) ==
  LET split == SplitStreamCombination(streams) IN
  /\ ConfigSupported(logical_id, split.default_mode, default_config_map,
                     physical_map, sensor_chars, FALSE)
  /\ ConfigSupported(logical_id, split.max_resolution_mode,
                     max_resolution_config_map, physical_map_max_resolution,
                     sensor_chars, TRUE)
  /\ \/ ConfigSupported(logical_id, split.input, default_config_map,
                        physical_map, sensor_chars, FALSE)
     \/ ConfigSupported(logical_id, split.input, max_resolution_config_map,
                        physical_map_max_resolution, sensor_chars, TRUE)
=============================================================================
