CONSTANTS
  kStreamConfigurationSize = 4
  kStreamFormatOffset = 0
  kStreamWidthOffset = 1
  kStreamHeightOffset = 2
  kStreamIsInputOffset = 3
  kStreamMinDurationOffset = 3
  kStreamStallDurationOffset = 3
  Formats <- MCFormats
  Metadata <- MCMetadata

SPECIFICATION ScmSpec

INVARIANTS
  ScmTypeOK
  InputOutputMapMatchesReference

\* The constructor runs once; the check stops after it.
CHECK_DEADLOCK FALSE
