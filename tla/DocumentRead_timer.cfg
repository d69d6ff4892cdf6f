CONSTANTS
  MaxReads = 2
  MaxVersion = 0
  MaxFaults = 0
SPECIFICATION PhoneSpec
PROPERTY UnknownEnds

CHECK_DEADLOCK FALSE
