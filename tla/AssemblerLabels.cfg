CONSTANTS
  MaxLines = 3
  OffsetMod = 5
  Sources <- MCSources
SPECIFICATION Spec
INVARIANT
  LabelsReach
\* The assembler ends.
CHECK_DEADLOCK FALSE
