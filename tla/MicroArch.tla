----------------------------- MODULE MicroArch -----------------------------
(***************************************************************************)
(* The data of the microarch instruction set, shared by the sequential     *)
(* machine, the pipelined core and the tools: bytes, register masks,       *)
(* instructions, conditions, the results of the arithmetic unit and the    *)
(* division of the data address space.                                     *)
(*                                                                         *)
(* A byte is the set of its one bits, so AND, OR and NOT are intersection, *)
(* union and complement, and a register mask is a byte whose bits are      *)
(* register numbers, as it is in the encoding.                             *)
(***************************************************************************)
EXTENDS Integers

CONSTANTS
  W,       \* bits of a byte, and registers of the bank: 8 in the code
  PcMod    \* instruction addresses: 2^16 in the code

ASSUME WidthAssumption == W \in 1..8
ASSUME PcModAssumption == PcMod \in Nat \ {0}

Bits == 0..W-1
Word == SUBSET Bits
Zero == {}
Address == 0..PcMod-1

\* A byte read as an unsigned number, and a number cut to a byte.
Val(w) ==
  LET bit(i, weight) == IF i \in w THEN weight ELSE 0
  IN  bit(0, 1) + bit(1, 2) + bit(2, 4) + bit(3, 8)
        + bit(4, 16) + bit(5, 32) + bit(6, 64) + bit(7, 128)

WordOf(n) == {i \in Bits : (n \div 2^i) % 2 = 1}

(***************************************************************************)
(* Instructions. The condition is the set of flag values that let the      *)
(* instruction execute: one bit of the encoding for each.                  *)
(***************************************************************************)
AluOps == {"NAD", "AND", "XOR", "SHR", "MOV", "EXT", "ADD", "CMP"}
MemOps == {"LDM", "STM"}
JumpOps == {"JPR", "JPI"}
Ops == AluOps \cup MemOps \cup JumpOps \cup {"NOP", "SET", "CID", "CTR"}

FlagValues == {"ZF_TRUE", "ZF_FALSE", "CF_TRUE", "CF_FALSE"}

Instruction == [op: Ops, cond: SUBSET FlagValues, a: Word, b: Word]

\* The all-zero encoding: no operation, and a condition that never holds.
Nop == [op |-> "NOP", cond |-> {}, a |-> Zero, b |-> Zero]

\* A condition holds when it admits the value of both flags.
Passes(cond, zf, cf) ==
  /\ (IF zf THEN "ZF_TRUE" ELSE "ZF_FALSE") \in cond
  /\ (IF cf THEN "CF_TRUE" ELSE "CF_FALSE") \in cond

(***************************************************************************)
(* The control register: the upper half holds the execution status (stop)  *)
(* bits and, below them, the interrupt flag.                               *)
(***************************************************************************)
StopBits == {i \in Bits : i > W \div 2}
InterruptBit == W \div 2

\* CID answers in the lower half of the bank: every page reads as zero.
CidRegs == {i \in Bits : i < W \div 2}

\* What a CTR with mask m and value v makes of the control register c.
CtrUpdate(c, v, m) == (c \ m) \cup (v \cap m)

(***************************************************************************)
(* Registers: reading a mask ORs its registers, writing stores to each.    *)
(***************************************************************************)
ReadMask(regs, mask) == {i \in Bits : \E r \in mask : i \in regs[r]}

WriteMask(regs, mask, v) == [r \in Bits |-> IF r \in mask THEN v ELSE regs[r]]

\* Concatenation of two bytes, cut to an instruction address.
JumpAddress(hi, lo) == (Val(hi) * 2^W + Val(lo)) % PcMod

\* The two bytes of an instruction address.
HighByte(pc) == WordOf(pc \div 2^W)
LowByte(pc) == WordOf(pc)

(***************************************************************************)
(* The arithmetic unit. CMP writes the difference and sets both flags.     *)
(***************************************************************************)
AluResult(op, x, y, imm) ==
  CASE op = "NAD" -> Bits \ (x \cap y)
    [] op = "AND" -> x \cap y
    [] op = "XOR" -> (x \ y) \cup (y \ x)
    [] op = "SHR" -> {i \in Bits : i + Val(imm) \in x}
    [] op = "MOV" -> y
    [] op = "ADD" -> WordOf(Val(x) + Val(y))
    [] op = "CMP" -> WordOf(Val(x) - Val(y))

CompareCarry(x, y) == Val(x) < Val(y)
CompareZero(x, y) == x = y

(***************************************************************************)
(* The data address space: two bytes for the interrupt return address,     *)
(* then the I/O registers, then data memory.                               *)
(***************************************************************************)
IO_MEMORY_SPACE_SIZE == 3

InterruptSpace(address) == Val(address) < 2
IoSpace(address) == Val(address) \in 2..(IO_MEMORY_SPACE_SIZE + 1)
IoIndex(address) == (Val(address) - 2) % 16
=============================================================================
