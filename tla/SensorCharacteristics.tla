------------------------- MODULE SensorCharacteristics -------------------------
(***************************************************************************)
(* EmulatedSensor::AreCharacteristicsSupported (src/devices/EmulatedCamera/*)
(* hwl/EmulatedSensor.cpp 210-324) and the sensor limits it compares with  *)
(* (EmulatedSensor.cpp 76-135), over a record with the fields of           *)
(* SensorCharacteristics the check reads.                                  *)
(*                                                                         *)
(* Durations are counted in ticks of NsPerTick nanoseconds, the largest    *)
(* unit that divides every duration constant of the sensor, so that 30 s   *)
(* fits a TLC integer. dynamic_range_profiles is the set of keys of the    *)
(* profile map; the color filter arrangement is a name.                    *)
(***************************************************************************)
EXTENDS Integers, Sequences

NsPerTick == 20

\* kSupportedExposureTimeRange: 1 us - 30 s (1000 and 30000000000 ns).
kSupportedExposureTimeRange == <<50, 1500000000>>

\* kSupportedFrameDurationRange: ~1/30 s - 30 s (33331760 and 30000000000 ns).
kSupportedFrameDurationRange == <<1666588, 1500000000>>

kSupportedSensitivityRange == <<100, 1600>>
kDefaultSensitivity == 100
kSupportedColorFilterArrangement == "RGGB"

kMaxRAWStreams == 1
kMaxProcessedStreams == 3
kMaxStallingStreams == 2
kMaxInputStreams == 1
kMaxLensShadingMapSize == <<64, 64>>

\* A [min, max] range is supported when min < max and it lies inside the
\* supported one.
RangeWithin(range, supported) ==
  /\ range[1] < range[2]
  /\ range[1] >= supported[1]
  /\ range[2] <= supported[2]

\* Only HLG10 is supported by a 10-bit capable sensor.
DynamicRangeSupported(c) ==
  c.is_10bit_dynamic_range_capable => c.dynamic_range_profiles = {"HLG10"}

\* frame_duration_range[0] / height == 0, in integer nanoseconds.
ZeroRowReadoutTime(c) == (c.frame_duration_range[1] * NsPerTick) \div c.height = 0

\* The per-kind stream limits a sensor may advertise.
StreamLimitsSupported(c) ==
  /\ c.max_raw_streams <= kMaxRAWStreams
  /\ c.max_processed_streams <= kMaxProcessedStreams
  /\ c.max_stalling_streams <= kMaxStallingStreams
  /\ c.max_input_streams <= kMaxInputStreams

\* Fault variant of AreCharacteristicsSupported: the pipeline depth must
\* exceed kPipelineDepth instead of reaching it.
AreCharacteristicsSupportedDepthOffByOne(c, pipeline_depth) ==
  /\ c.width # 0 /\ c.height # 0
  /\ c.full_res_width # 0 /\ c.full_res_height # 0
  /\ DynamicRangeSupported(c)
  /\ RangeWithin(c.exposure_time_range, kSupportedExposureTimeRange)
  /\ RangeWithin(c.frame_duration_range, kSupportedFrameDurationRange)
  /\ RangeWithin(c.sensitivity_range, kSupportedSensitivityRange)
  /\ c.sensitivity_range[1] <= kDefaultSensitivity
  /\ kDefaultSensitivity <= c.sensitivity_range[2]
  /\ c.color_arangement = kSupportedColorFilterArrangement
  /\ \A i \in DOMAIN c.black_level_pattern : c.black_level_pattern[i] < c.max_raw_value
  /\ ~ZeroRowReadoutTime(c)
  /\ StreamLimitsSupported(c)
  /\ c.lens_shading_map_size[1] <= kMaxLensShadingMapSize[1]
  /\ c.lens_shading_map_size[2] <= kMaxLensShadingMapSize[2]
  /\ c.max_pipeline_depth > pipeline_depth

\* The checks in the order of the code; the first that fails returns
\* false; pipeline_depth is EmulatedSensor::kPipelineDepth. The default
\* sensitivity must lie in the sensitivity range.
AreCharacteristicsSupported(c, pipeline_depth) ==
  /\ c.width # 0 /\ c.height # 0
  /\ c.full_res_width # 0 /\ c.full_res_height # 0
  /\ DynamicRangeSupported(c)
  /\ RangeWithin(c.exposure_time_range, kSupportedExposureTimeRange)
  /\ RangeWithin(c.frame_duration_range, kSupportedFrameDurationRange)
  /\ RangeWithin(c.sensitivity_range, kSupportedSensitivityRange)
  /\ c.sensitivity_range[1] <= kDefaultSensitivity
  /\ kDefaultSensitivity <= c.sensitivity_range[2]
  /\ c.color_arangement = kSupportedColorFilterArrangement
  /\ \A i \in DOMAIN c.black_level_pattern : c.black_level_pattern[i] < c.max_raw_value
  /\ ~ZeroRowReadoutTime(c)
  /\ StreamLimitsSupported(c)
  /\ c.lens_shading_map_size[1] <= kMaxLensShadingMapSize[1]
  /\ c.lens_shading_map_size[2] <= kMaxLensShadingMapSize[2]
  /\ c.max_pipeline_depth >= pipeline_depth
=============================================================================
