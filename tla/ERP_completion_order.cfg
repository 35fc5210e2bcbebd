CONSTANTS
  Null = Null
  MaxFrame <- MCMaxFrame
  Frames <- MCFrames
  kPipelineDepth = 1
  MaxFlushes = 1
  RequestOverrides = {"off", "zoom"}
  RefusableFrames = {2}
  PartialResults = TRUE
  LogicalCameraId = 0
  LogicalChars <- MCLogicalChars
  kZoomSpeedup = 2
  FrameNumberModulus <- MCFrameNumberModulus

SPECIFICATION Spec

INVARIANT
  CompletionsInFrameOrder
