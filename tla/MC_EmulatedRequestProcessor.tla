--------------------- MODULE MC_EmulatedRequestProcessor ----------------------
(***************************************************************************)
(* Model-checking instance of EmulatedRequestProcessor: three frames, a    *)
(* pipeline depth of one (kPipelineDepth = 3 in EmulatedSensor.cpp, scaled *)
(* down so that the "queue full" wait happens with three frames), one      *)
(* Flush, and frame numbers reduced modulo 2^30 (TLC integers are 32-bit   *)
(* signed; the wrap of the unsigned subtraction is what matters).          *)
(***************************************************************************)
EXTENDS EmulatedRequestProcessor

MCMaxFrame == 3
MCFrames == 1..MCMaxFrame
MCFrameNumberModulus == 1073741824

(* The characteristics StartUp is given: one camera with the emulated      *)
(* sensor's defaults (durations in 20 ns ticks: exposure 1 us - 300 ms,    *)
(* frame duration 33331760 ns - 30 s) and a maximum pipeline depth equal   *)
(* to kPipelineDepth, the boundary the depth check admits.                 *)
MCSensorChars ==
  [width |-> 2, height |-> 2, full_res_width |-> 4, full_res_height |-> 4,
   is_10bit_dynamic_range_capable |-> TRUE, dynamic_range_profiles |-> {"HLG10"},
   exposure_time_range |-> <<50, 15000000>>,
   frame_duration_range |-> <<1666588, 1500000000>>,
   sensitivity_range |-> <<100, 1600>>, color_arangement |-> "RGGB",
   black_level_pattern |-> <<1000, 1000, 1000, 1000>>, max_raw_value |-> 4000,
   max_raw_streams |-> 1, max_processed_streams |-> 3,
   max_stalling_streams |-> 2, max_input_streams |-> 1,
   lens_shading_map_size |-> <<64, 64>>, max_pipeline_depth |-> 1]

MCLogicalChars == [id \in {0} |-> MCSensorChars]
====
