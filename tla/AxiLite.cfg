SPECIFICATION AxiLiveSpec
CONSTANTS
  Sides <- MCSides
  Byte <- MCByte
  ControlByte <- MCByte
  Requests <- MCRequests
  DeviceInit <- MCDevice
  ResetOnlyQuiet = TRUE
  Payloads <- Writes3
  Offsets <- AllOffsets
  MaxOutstanding = 1
INVARIANTS TypeOK OneInFlight ControlTypeOK EveryAccessAnswered
PROPERTIES ValidHeld ImplementsPort Answered ImplementsRegs Served
