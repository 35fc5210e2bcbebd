---------------------- MODULE MC_EmulatedCameraDeviceHwl ----------------------
(***************************************************************************)
(* A logical camera 0 over physical cameras 1 and 2 (or, for the single   *)
(* camera run, camera 0 alone), each with a 2x2 sensor of 4x4 full         *)
(* resolution, and every configuration of up to three of the candidate     *)
(* streams below. Formats: RAW16 32, BLOB 33, IMPLEMENTATION_DEFINED 34,   *)
(* YCBCR_420_888 35, YCBCR_P010 54.                                        *)
(***************************************************************************)
EXTENDS EmulatedCameraDeviceHwl

I32(d) == [type |-> "i32", data |-> d]
I64(d) == [type |-> "i64", data |-> d]

\* Tuples are <<format, width, height, is_input / duration>>.
CameraMetadata(extra) ==
  ("SCALER_AVAILABLE_STREAM_CONFIGURATIONS" :>
      I32(<<35, 2, 2, 0, 33, 2, 2, 0, 32, 2, 2, 0, 54, 2, 2, 0, 35, 2, 2, 1>>)) @@
  ("SCALER_AVAILABLE_STREAM_CONFIGURATIONS_MAXIMUM_RESOLUTION" :>
      I32(<<32, 4, 4, 0, 35, 4, 4, 0>>)) @@
  ("SCALER_AVAILABLE_MIN_FRAME_DURATIONS" :> I64(<<35, 2, 2, 10>>)) @@
  ("SCALER_AVAILABLE_MIN_FRAME_DURATIONS_MAXIMUM_RESOLUTION" :> I64(<<32, 4, 4, 40>>)) @@
  ("SCALER_AVAILABLE_INPUT_OUTPUT_FORMATS_MAP" :> I32(<<35, 1, 33>>)) @@
  extra

MCStaticMetadata == CameraMetadata(<<>>)

\* Physical cameras also list YUV 2x2 as a multi-resolution configuration.
PhysicalMetadata ==
  CameraMetadata("SCALER_PHYSICAL_CAMERA_MULTI_RESOLUTION_STREAM_CONFIGURATIONS" :>
                   I32(<<35, 2, 2, 0>>))

NoPhysicalDevices == <<>>

LogicalDevices == (1 :> PhysicalMetadata) @@ (2 :> PhysicalMetadata)

Chars(ten_bit) ==
  [max_raw_streams |-> 1, max_stalling_streams |-> 1,
   max_processed_streams |-> 2, max_input_streams |-> 1,
   is_10bit_dynamic_range_capable |-> ten_bit,
   support_stream_use_case |-> TRUE, end_valid_stream_use_case |-> 6,
   size |-> <<2, 2>>, full_res_size |-> <<4, 4>>]

LogicalSensorChars == (0 :> Chars(TRUE)) @@ (1 :> Chars(TRUE)) @@ (2 :> Chars(FALSE))

SingleSensorChars == 0 :> Chars(TRUE)

Stream(type, format, size, data_space, physical_id, group_id, profile,
       use_case, rotation, default_mode, max_mode) ==
  [stream_type |-> type, format |-> format, size |-> size,
   data_space |-> data_space,
   is_physical_camera_stream |-> physical_id # -1,
   physical_camera_id |-> physical_id, group_id |-> group_id,
   dynamic_profile |-> profile, use_case |-> use_case, rotation |-> rotation,
   intended_for_default_resolution_mode |-> default_mode,
   intended_for_max_resolution_mode |-> max_mode]

Out(format, size, data_space, physical_id) ==
  Stream("kOutput", format, size, data_space, physical_id, -1, "STANDARD",
         0, "kRotation0", TRUE, FALSE)

Candidates ==
  { Out(35, <<2, 2>>, "UNKNOWN", -1),
    Out(33, <<2, 2>>, "JFIF", -1),
    Out(32, <<2, 2>>, "UNKNOWN", -1),
    Stream("kOutput", 32, <<4, 4>>, "UNKNOWN", -1, -1, "STANDARD", 0, "kRotation0", FALSE, TRUE),
    Stream("kOutput", 35, <<2, 2>>, "UNKNOWN", -1, -1, "STANDARD", 0, "kRotation0", TRUE, TRUE),
    Out(35, <<2, 2>>, "UNKNOWN", 1),
    Out(33, <<2, 2>>, "JFIF", 2),
    Stream("kOutput", 35, <<2, 2>>, "UNKNOWN", 1, 0, "STANDARD", 0, "kRotation0", TRUE, FALSE),
    Stream("kOutput", 54, <<2, 2>>, "BT2020_HLG", -1, -1, "HLG10", 0, "kRotation0", TRUE, FALSE),
    Stream("kOutput", 54, <<2, 2>>, "BT2020_HLG", 2, -1, "HLG10", 0, "kRotation0", TRUE, FALSE),
    Stream("kOutput", 35, <<2, 2>>, "UNKNOWN", -1, -1, "STANDARD", 2, "kRotation0", TRUE, FALSE),
    Stream("kOutput", 32, <<2, 2>>, "UNKNOWN", -1, -1, "STANDARD", 6, "kRotation0", TRUE, FALSE),
    Stream("kOutput", 35, <<2, 2>>, "UNKNOWN", -1, -1, "STANDARD", 0, "kRotation90", TRUE, FALSE),
    Out(35, <<2, 2>>, "UNKNOWN", 3),
    Out(33, <<2, 2>>, "DEPTH", -1),
    Stream("kOutput", 33, <<2, 2>>, "JFIF", 1, 0, "STANDARD", 0, "kRotation0", TRUE, FALSE),
    Stream("kInput", 33, <<2, 2>>, "UNKNOWN", -1, -1, "STANDARD", 0, "kRotation0", FALSE, FALSE),
    Stream("kInput", 35, <<2, 2>>, "UNKNOWN", -1, -1, "STANDARD", 0, "kRotation0", FALSE, FALSE) }

\* Every configuration of up to MaxStreams candidate streams.
MaxStreams == 3

MCStreamConfigs == UNION {[1..n -> Candidates] : n \in 1..MaxStreams}
=============================================================================
