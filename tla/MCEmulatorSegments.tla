------------------------ MODULE MCEmulatorSegments ------------------------
(***************************************************************************)
(* Programs for checking Emulator with several segments of data memory,    *)
(* two of them within data_memory_size: each selects segments, 1 or one    *)
(* out of range, and accesses an address that may hold a peripheral.       *)
(***************************************************************************)
EXTENDS Emulator, Sequences

MCW == 3
MCPcMod == 6
MCBootPc == 0
MCBanks == SUBSET (0..2)
MCDataBanks == {{}, {0}}
MCLeftovers == {{}}
MCBreakpointAddresses == {3}
MCPortAddresses == {{0}}
MCEditableCells == {<<{0}, {0}>>}
MCTypedBytes == {{1, 2}}

Always == FlagValues

I(op, a, b) == [op |-> op, cond |-> Always, a |-> a, b |-> b]

\* r0 := 3, the address of the segment register; r1 := 1.
Prefix == << I("SET", {0}, {0, 1}), I("SET", {1}, {0}) >>

Body == {
  I("STM", {0}, {1}),
  I("STM", {0}, {0}),
  I("STM", {1}, {0}),
  I("LDM", {2}, {1}),
  I("LDM", {2}, {0}),
  I("STM", {0}, {2})
}

\* A condition without a mnemonic, which only the interpreter takes.
Both == [op |-> "MOV", cond |-> {"ZF_TRUE", "CF_FALSE"}, a |-> {1}, b |-> {0}]

Program(body) ==
  [n \in 0..Len(body) + 1 |-> IF n < 2 THEN Prefix[n + 1] ELSE body[n - 1]]

MCPrograms ==
  {Program(body) : body \in (Body \X Body \X Body) \cup {<<Both>>}}
=============================================================================
