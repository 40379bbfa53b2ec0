CONSTANTS
  W <- MCW
  PcMod <- MCPcMod
  BootPc <- MCBootPc
  Banks <- MCBanks
  DataBanks <- MCDataBanks
  Leftovers <- MCLeftovers
  BreakpointAddresses <- MCBreakpointAddresses
  PortAddresses <- MCPortAddresses
  EditableCells <- MCEditableCells
  TypedBytes <- MCTypedBytes
  Programs <- MCPrograms
SPECIFICATION Spec
PROPERTY
  SwitchingIsInvisible
CHECK_DEADLOCK FALSE
