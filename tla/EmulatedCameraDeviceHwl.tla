------------------------ MODULE EmulatedCameraDeviceHwl ------------------------
(***************************************************************************)
(* EmulatedCameraDeviceHwlImpl (src/devices/EmulatedCamera/hwl/           *)
(* EmulatedCameraDeviceHWLImpl.cpp) composed with the stream configuration *)
(* maps and EmulatedSensor's stream combination check.                     *)
(*                                                                         *)
(* Initialize has run: it built the default and maximum-resolution         *)
(* StreamConfigurationMap of the logical camera and of every physical      *)
(* camera from their static metadata, and read every camera's sensor       *)
(* characteristics. The framework then asks IsStreamCombinationSupported   *)
(* about one stream configuration.                                         *)
(***************************************************************************)
EXTENDS StreamCombination

CONSTANTS
  LogicalId,        \* camera_id_
  StaticMetadata,   \* static_metadata_
  PhysicalDevices,  \* physical_device_map_: physical id -> static metadata
  SensorChars,      \* what GetSensorCharacteristics extracts, per camera id
  StreamConfigs     \* the stream configurations the framework may ask about

PhysicalIds == DOMAIN PhysicalDevices

ASSUME DOMAIN SensorChars = {LogicalId} \cup PhysicalIds

----------------------------------------------------------------------------
(* The maps Initialize builds.                                             *)

stream_configuration_map_ == StreamConfigurationMapOf(StaticMetadata, FALSE)

stream_configuration_map_max_resolution_ ==
  StreamConfigurationMapOf(StaticMetadata, TRUE)

physical_stream_configuration_map_ ==
  [id \in PhysicalIds |-> StreamConfigurationMapOf(PhysicalDevices[id], FALSE)]

physical_stream_configuration_map_max_resolution_ ==
  [id \in PhysicalIds |-> StreamConfigurationMapOf(PhysicalDevices[id], TRUE)]

sensor_chars_ == SensorChars

----------------------------------------------------------------------------

VARIABLES
  stream_config,  \* the configuration the framework asks about
  queried,        \* IsStreamCombinationSupported has returned
  supported       \* what it returned

hwl_vars == <<stream_config, queried, supported>>

HwlInit ==
  /\ stream_config \in StreamConfigs
  /\ queried = FALSE
  /\ supported = FALSE

\* IsStreamCombinationSupported: EmulatedSensor's check with the maps and
\* sensor characteristics of this camera.
QueryStreamCombination ==
  /\ ~queried
  /\ queried' = TRUE
  /\ supported' = IsStreamCombinationSupported(
                    LogicalId, stream_config, stream_configuration_map_,
                    stream_configuration_map_max_resolution_,
                    physical_stream_configuration_map_,
                    physical_stream_configuration_map_max_resolution_,
                    sensor_chars_)
  /\ UNCHANGED stream_config

HwlNext == QueryStreamCombination

HwlSpec == HwlInit /\ [][HwlNext]_hwl_vars

----------------------------------------------------------------------------
(* Reference definitions: what a camera can produce, from the metadata and *)
(* sensor characteristics directly.                                        *)

Modes == {"default", "maximum_resolution"}

IntendedFor(stream, mode) ==
  IF mode = "default" THEN stream.intended_for_default_resolution_mode
  ELSE stream.intended_for_max_resolution_mode

\* The output streams of the configuration that a mode streams.
OutputsIn(streams, mode) ==
  {i \in DOMAIN streams : ~IsInput(streams[i]) /\ IntendedFor(streams[i], mode)}

\* The cameras whose sensor produces a stream: its physical camera, the
\* physical cameras of a logical camera, or the camera itself.
Producers(stream) ==
  IF stream.is_physical_camera_stream THEN {stream.physical_camera_id}
  ELSE IF PhysicalIds = {} THEN {LogicalId} ELSE PhysicalIds

StreamLimit(id, kind, mode) ==
  CASE kind = "raw" -> sensor_chars_[id].max_raw_streams
                         + (IF mode = "maximum_resolution" THEN 1 ELSE 0)
    [] kind = "stalling" -> sensor_chars_[id].max_stalling_streams
    [] kind = "processed" -> sensor_chars_[id].max_processed_streams

\* <<format, size>> of the output tuples of a stream configurations tag.
ListedOutputs(metadata, tag) ==
  LET entry == EntryOf(metadata, tag)
  IN {Key(entry, i) : i \in {i \in ToSet(TupleStarts(entry)) :
                               At(entry, i + kStreamIsInputOffset) = 0}}

\* What the stream's camera lists for the mode: the multi-resolution
\* configurations for a dynamic physical stream, else the mode's scaler
\* stream configurations tag.
Advertised(stream, mode) ==
  LET metadata == IF stream.is_physical_camera_stream
                  THEN PhysicalDevices[stream.physical_camera_id]
                  ELSE StaticMetadata
      entry == EntryOf(metadata, kMultiResolutionStreamConfigurations)
  IN IF stream.is_physical_camera_stream /\ stream.group_id # -1
     THEN {Key(entry, i) : i \in ToSet(TupleStarts(entry))}
     ELSE ListedOutputs(metadata,
            IF mode = "default" THEN "SCALER_AVAILABLE_STREAM_CONFIGURATIONS"
            ELSE "SCALER_AVAILABLE_STREAM_CONFIGURATIONS_MAXIMUM_RESOLUTION")

----------------------------------------------------------------------------
(* Properties.                                                             *)

(* An accepted configuration asks no sensor for more RAW, stalling (BLOB)  *)
(* or processed outputs in a mode than its characteristics allow (one more *)
(* RAW in the maximum-resolution mode, for remosaic reprocessing): the     *)
(* per-camera counters of the check attribute every output stream to the   *)
(* sensors that produce it.                                                *)
StreamCountsWithinSensorLimits ==
  queried /\ supported =>
    \A mode \in Modes, kind \in {"raw", "stalling", "processed"} :
      \A id \in UNION {Producers(stream_config[i]) : i \in OutputsIn(stream_config, mode)} :
        Cardinality({i \in OutputsIn(stream_config, mode) :
                       /\ StreamKind(stream_config[i]) = kind
                       /\ id \in Producers(stream_config[i])})
          <= StreamLimit(id, kind, mode)

(* An accepted configuration only has output streams whose format and size *)
(* the producing camera lists for every mode the stream is intended for:  *)
(* the split hands each output to the check of each of its modes, and each *)
(* mode's check consults that mode's map.                                  *)
AcceptedSizesAdvertised ==
  queried /\ supported =>
    \A mode \in Modes : \A i \in OutputsIn(stream_config, mode) :
      LET s == stream_config[i] IN
      /\ s.is_physical_camera_stream => s.physical_camera_id \in PhysicalIds
      /\ <<s.format, s.size>> \in Advertised(s, mode)
=============================================================================
