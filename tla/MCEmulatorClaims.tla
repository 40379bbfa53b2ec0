------------------------- MODULE MCEmulatorClaims -------------------------
(***************************************************************************)
(* Two short programs on which the claims of EmulatorClaims fail.          *)
(***************************************************************************)
EXTENDS EmulatorClaims

MCW == 3
MCPcMod == 4
MCBootPc == 0
MCBanks == {Zero}
MCDataBanks == {Zero}
MCLeftovers == {{}}
MCBreakpointAddresses == {}
MCPortAddresses == {}
MCEditableCells == {}
MCTypedBytes == {{}}

I(op, a, b) == [op |-> op, cond |-> FlagValues, a |-> a, b |-> b]

\* CTR sets bit 0 of the control register, then clears bit 1.
ControlProgram ==
  [n \in 0..2 |-> CASE n = 0 -> I("SET", {0}, {0})
                    [] n = 1 -> I("CTR", {0}, {0})
                    [] n = 2 -> I("CTR", {1}, {1})]

NadProgram ==
  [n \in 0..1 |-> IF n = 0 THEN I("SET", {0, 1}, {0}) ELSE I("NAD", {0}, {1})]

MCPrograms == {ControlProgram, NadProgram}
=============================================================================
