CONSTANTS
  W <- MCW
  PcMod <- MCPcMod
  PowerUp <- MCPowerUp
  GpioInputs <- MCGpioInputs
  InterruptLevels <- MCInterruptLevels
  Programs <- MCPrograms
SPECIFICATION Spec
INVARIANTS
  TypeOK
  StageTwoServed
  StrobeDiscipline
  OperationOwned
  InterlockComplete
PROPERTIES
  BusStable
  HandlerUndisturbed
  ReturnBytesIntact
  Progress
  StopIsNotFinal
