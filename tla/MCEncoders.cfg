CONSTANTS
  Goroutines <- MCGoroutines
  Types <- MCTypes
  Elements <- MCElements
  Nilable <- MCNilable
  Dynamic <- MCDynamic
  Unsupported <- MCUnsupported
  Marshalled <- MCMarshalled
  Depth = 1
SPECIFICATION FairSpec
PROPERTY EncodesReturn
CHECK_DEADLOCK FALSE
