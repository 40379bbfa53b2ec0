---------------------------- MODULE MCEmulator ----------------------------
(***************************************************************************)
(* Programs for checking Emulator with one segment of data memory: every   *)
(* program of three instructions of a set with each kind in it, under      *)
(* every interleaving of runs, steps, generated code, a breakpoint, a      *)
(* peripheral and resets.                                                  *)
(***************************************************************************)
EXTENDS Emulator, Sequences

MCW == 3
MCPcMod == 5
MCBootPc == 0
MCBanks == {Zero}
MCDataBanks == {Zero}
MCLeftovers == {{}, {0, 2}}
MCBreakpointAddresses == {1}
MCPortAddresses == {{1}}
MCEditableCells == {<<Zero, {1}>>}
MCTypedBytes == {{0, 2}}

Always == FlagValues
IfZero == FlagValues \ {"ZF_FALSE"}
IfNoCarry == FlagValues \ {"CF_TRUE"}

I(op, cond, a, b) == [op |-> op, cond |-> cond, a |-> a, b |-> b]

Body == {
  I("SET", Always, {0, 1}, {1}),
  I("LDM", Always, {0}, {1}),
  I("STM", IfZero, {1}, {0}),
  I("ADD", Always, {0}, {1}),
  I("CMP", Always, {0}, {1}),
  I("CTR", IfNoCarry, {0}, {1, 2}),
  I("CID", IfNoCarry, {}, {}),
  I("JPI", IfZero, {}, {}),
  I("JPR", IfNoCarry, {2}, {1})
}

Program(body) == [n \in 0..Len(body) - 1 |-> body[n + 1]]

MCPrograms == {Program(body) : body \in Body \X Body \X Body}
=============================================================================
