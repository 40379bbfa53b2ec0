CONSTANTS
  W <- MCW
  PcMod <- MCPcMod
  PowerUp <- MCPowerUp
  GpioInputs <- MCGpioInputs
  InterruptLevels <- MCInterruptLevels
  Programs <- MCPrograms
SPECIFICATION ScheduledSpec
PROPERTY ImplementsIsa
CHECK_DEADLOCK FALSE
