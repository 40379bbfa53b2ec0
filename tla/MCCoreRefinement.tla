-------------------------- MODULE MCCoreRefinement --------------------------
(***************************************************************************)
(* Programs for checking CoreRefinement: a prefix that gives the registers *)
(* an address in data memory and one in the I/O registers, then every body *)
(* of three instructions of a set with each kind of instruction in it, and *)
(* every body of four instructions of a smaller set. The program counter   *)
(* wraps, so every program is a loop.                                      *)
(***************************************************************************)
EXTENDS CoreRefinement, Sequences

MCW == 3
MCPcMod == 8
MCPowerUp == {{0}}
MCGpioInputs == {{0, 2}}
MCInterruptLevels == {FALSE}

Always == FlagValues
IfZero == {"ZF_TRUE", "CF_TRUE", "CF_FALSE"}
IfNoCarry == {"ZF_TRUE", "ZF_FALSE", "CF_FALSE"}

I(op, cond, a, b) == [op |-> op, cond |-> cond, a |-> a, b |-> b]

\* r0 := 5, an address of data memory; r1 := 3, the output port.
Prefix == << I("SET", Always, {0}, {0, 2}), I("SET", Always, {1}, {0, 1}) >>

Body == {
  Nop,
  I("LDM", Always, {2}, {0}),
  I("LDM", Always, {2}, {1}),
  I("STM", Always, {0}, {1}),
  I("STM", Always, {1}, {2}),
  I("SET", Always, {1}, {1}),
  I("ADD", Always, {2}, {0, 1}),
  I("CMP", Always, {0}, {2}),
  I("CMP", IfNoCarry, {2}, {1}),
  I("MOV", IfZero, {1}, {2}),
  I("SHR", IfNoCarry, {0}, {0}),
  I("CID", Always, {}, {}),
  I("JPI", IfZero, {}, {1}),
  I("JPR", IfNoCarry, {}, {0}),
  I("CTR", Always, {0}, {1, 2})
}

\* Accesses far enough apart for each other, with work that depends on them.
LongBody == {
  I("LDM", Always, {2}, {0}),
  I("STM", Always, {0}, {1}),
  I("STM", Always, {1}, {2}),
  I("NAD", Always, {1}, {2}),
  I("XOR", IfNoCarry, {2}, {0}),
  I("CMP", Always, {2}, {0})
}

Program(body) ==
  [n \in 0..Len(body) + 1 |-> IF n < 2 THEN Prefix[n + 1] ELSE body[n - 1]]

MCPrograms ==
  {Program(body) : body \in (Body \X Body \X Body)
                        \cup (LongBody \X LongBody \X LongBody \X LongBody)}
=============================================================================
