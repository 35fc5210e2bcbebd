------------------------------- MODULE HalTypes -------------------------------
(***************************************************************************)
(* Declarations shared by the modules of the emulated camera HAL.          *)
(***************************************************************************)
CONSTANT
  Null   \* a null pointer (std::unique_ptr, const HalCameraMetadata*, ...)
====
