CONSTANTS
  kStreamConfigurationSize = 4
  kStreamFormatOffset = 0
  kStreamWidthOffset = 1
  kStreamHeightOffset = 2
  kStreamIsInputOffset = 3
  kStreamMinDurationOffset = 3
  kStreamStallDurationOffset = 3
  LogicalId = 0
  StaticMetadata <- MCStaticMetadata
  PhysicalDevices <- LogicalDevices
  SensorChars <- LogicalSensorChars
  StreamConfigs <- MCStreamConfigs
SPECIFICATION HwlSpec
INVARIANTS
  StreamCountsWithinSensorLimits
  AcceptedSizesAdvertised
CHECK_DEADLOCK FALSE
