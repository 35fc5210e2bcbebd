CONSTANTS
  kStreamConfigurationSize = 4
  kStreamFormatOffset = 0
  kStreamWidthOffset = 1
  kStreamHeightOffset = 2
  kStreamIsInputOffset = 3
  kStreamMinDurationOffset = 3
  kStreamStallDurationOffset = 3
  LogicalId = 0
  StaticMetadata <- MCStaticMetadata
  PhysicalDevices <- NoPhysicalDevices
  SensorChars <- SingleSensorChars
  StreamConfigs <- MCStreamConfigs
SPECIFICATION HwlSpec
INVARIANTS
  StreamCountsWithinSensorLimits
CHECK_DEADLOCK FALSE
