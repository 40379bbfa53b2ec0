------------------------------- MODULE MCCore -------------------------------
(***************************************************************************)
(* Programs for checking Core with interrupts: each turns interrupts on,   *)
(* then loops over any two instructions of a set with every kind of        *)
(* instruction in it. No instruction stores to the input port, which       *)
(* answers no store.                                                       *)
(***************************************************************************)
EXTENDS CoreClaims

MCW == 3
MCPcMod == 6
MCPowerUp == {{0, 2}}
MCGpioInputs == {{0}, {2}}
MCInterruptLevels == BOOLEAN

Always == FlagValues
IfNoCarry == {"ZF_TRUE", "ZF_FALSE", "CF_FALSE"}

I(op, cond, a, b) == [op |-> op, cond |-> cond, a |-> a, b |-> b]

\* r0 := 6, an address of data memory and the bits that stop the core with
\* interrupts on; then interrupts on.
Prefix == << I("SET", Always, {0}, {1, 2}), I("CTR", Always, {0}, {1}) >>

StoreThroughR1 == I("STM", IfNoCarry, {1}, {0})
PointR1AtPort == I("SET", Always, {1}, {1})

Body == {
  StoreThroughR1,
  PointR1AtPort,
  Nop,
  I("LDM", Always, {2}, {0}),
  I("STM", Always, {0}, {1}),
  I("LDM", IfNoCarry, {2}, {1}),
  I("SET", Always, {1}, {2}),
  I("CMP", IfNoCarry, {2}, {1}),
  I("EXT", Always, {2}, {0}),
  I("CID", Always, {}, {}),
  I("JPR", IfNoCarry, {}, {1}),
  I("CTR", Always, {0}, {1, 2})
}

Pairs == {<<x, y>> \in Body \X Body : {x, y} # {StoreThroughR1, PointR1AtPort}}

MCPrograms ==
  {[n \in 0..3 |-> IF n < 2 THEN Prefix[n + 1] ELSE pair[n - 1]] : pair \in Pairs}
=============================================================================
