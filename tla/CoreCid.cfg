CONSTANTS
  W <- MCW
  PcMod <- MCPcMod
  PowerUp <- MCPowerUp
  GpioInputs <- MCGpioInputs
  InterruptLevels <- MCInterruptLevels
  Programs <- MCPrograms
SPECIFICATION Spec
INVARIANT CidInterlocked
