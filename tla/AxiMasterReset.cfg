SPECIFICATION AxiSpec
CONSTANTS
  Sides = {"master"}
  Byte <- MCByte
  ControlByte <- MCByte
  Requests <- MCRequests
  DeviceInit <- MCDevice
  ResetOnlyQuiet = FALSE
  Payloads <- Writes3
  Offsets <- AllOffsets
  MaxOutstanding = 1
PROPERTIES ValidHeld
