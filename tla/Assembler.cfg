CONSTANTS
  MaxLines = 4
  OffsetMod = 65536
  Sources <- MCSources
SPECIFICATION Spec
INVARIANTS
  TypeOK
  Assembles
  BlocksNest
  LinksResolve
PROPERTY
  Terminates
\* The assembler ends.
CHECK_DEADLOCK FALSE
