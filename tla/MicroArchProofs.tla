-------------------------- MODULE MicroArchProofs --------------------------
(***************************************************************************)
(* Lemmas on the data of the instruction set, for the proofs of the core   *)
(* and of the emulator.                                                    *)
(***************************************************************************)
EXTENDS MicroArch, TLAPS

\* A number cut to a byte is a byte (every 8-bit wire of the design).
LEMMA WordOfType == ASSUME NEW n PROVE WordOf(n) \in Word
  BY DEF WordOf, Word

\* The byte of zeros is a byte.
LEMMA ZeroType == Zero \in Word
  BY DEF Zero, Word

\* A byte is read as a natural number.
LEMMA ValType == ASSUME NEW w \in Word PROVE Val(w) \in Nat
  BY DEF Val

\* A jump target is an instruction address (id_stage_1.v).
LEMMA JumpAddressType ==
  ASSUME NEW hi \in Word, NEW lo \in Word PROVE JumpAddress(hi, lo) \in Address
<1>1. Val(hi) \in Nat /\ Val(lo) \in Nat
  BY ValType
<1>2. 2^W \in Int
  BY WidthAssumption
<1> QED
  BY <1>1, <1>2, PcModAssumption DEF JumpAddress, Address

\* A wired-OR read of the register bank is a byte.
LEMMA ReadMaskType ==
  ASSUME NEW regs, NEW mask PROVE ReadMask(regs, mask) \in Word
  BY DEF ReadMask, Word

\* A write to a mask of registers leaves a register bank.
LEMMA WriteMaskType ==
  ASSUME NEW regs \in [Bits -> Word], NEW mask, NEW v \in Word
  PROVE  WriteMask(regs, mask, v) \in [Bits -> Word]
  BY DEF WriteMask

\* Every operation of the arithmetic unit gives a byte (alu.v).
LEMMA AluResultType ==
  ASSUME NEW op \in AluOps \ {"EXT"}, NEW x \in Word, NEW y \in Word, NEW imm
  PROVE  AluResult(op, x, y, imm) \in Word
<1>1. /\ WordOf(Val(x) + Val(y)) \in Word
      /\ WordOf(Val(x) - Val(y)) \in Word
  BY WordOfType
<1>2. /\ Bits \ (x \cap y) \in Word
      /\ x \cap y \in Word
      /\ (x \ y) \cup (y \ x) \in Word
      /\ {i \in Bits : i + Val(imm) \in x} \in Word
  BY DEF Word
<1> QED
  BY <1>1, <1>2 DEF AluResult, AluOps

\* Both comparisons have an outcome (alu.v, InstCmp).
LEMMA CompareType ==
  ASSUME NEW x \in Word, NEW y \in Word
  PROVE  CompareZero(x, y) \in BOOLEAN /\ CompareCarry(x, y) \in BOOLEAN
  BY ValType DEF CompareZero, CompareCarry

\* The weights of the bits of a byte, as the provers need them: one by one.
LEMMA PowersOfTwo ==
  /\ 2^0 = 1 /\ 2^1 = 2 /\ 2^2 = 4 /\ 2^3 = 8 /\ 2^4 = 16
  /\ 2^5 = 32 /\ 2^6 = 64 /\ 2^7 = 128 /\ 2^8 = 256
  OBVIOUS

\* Two bytes that read as the same number are the same byte: an address has one
\* cell (mmu.v compares addresses, the model compares their numbers).
LEMMA ValInjective ==
  ASSUME NEW v \in Word, NEW w \in Word, Val(v) = Val(w) PROVE v = w
<1>1. \A i \in 0..7 : i \in v <=> i \in w
  <2>1. /\ 0 \in v <=> 0 \in w
        /\ 1 \in v <=> 1 \in w
        /\ 2 \in v <=> 2 \in w
        /\ 3 \in v <=> 3 \in w
        /\ 4 \in v <=> 4 \in w
        /\ 5 \in v <=> 5 \in w
        /\ 6 \in v <=> 6 \in w
        /\ 7 \in v <=> 7 \in w
    BY DEF Val
  <2> QED
    BY <2>1
<1>2. v \subseteq 0..7 /\ w \subseteq 0..7
  BY WidthAssumption DEF Word, Bits
<1> QED
  BY <1>1, <1>2

\* Reading back a number cut to a byte gives its remainder (every 8-bit wire of the
\* design).
LEMMA ValOfWordOf == ASSUME NEW n \in Nat PROVE Val(WordOf(n)) = n % 2^W
<1> DEFINE d(weight) == (n \div weight) % 2
           m(modulus) == n % modulus
           b(i, weight) == IF i < W THEN d(weight) ELSE 0
<1>1. Val(WordOf(n)) = b(0, 1) + 2 * b(1, 2) + 4 * b(2, 4) + 8 * b(3, 8)
                        + 16 * b(4, 16) + 32 * b(5, 32) + 64 * b(6, 64)
                        + 128 * b(7, 128)
  <2>1. /\ 0 \in WordOf(n) <=> 0 < W /\ d(1) = 1
        /\ 1 \in WordOf(n) <=> 1 < W /\ d(2) = 1
        /\ 2 \in WordOf(n) <=> 2 < W /\ d(4) = 1
        /\ 3 \in WordOf(n) <=> 3 < W /\ d(8) = 1
        /\ 4 \in WordOf(n) <=> 4 < W /\ d(16) = 1
        /\ 5 \in WordOf(n) <=> 5 < W /\ d(32) = 1
        /\ 6 \in WordOf(n) <=> 6 < W /\ d(64) = 1
        /\ 7 \in WordOf(n) <=> 7 < W /\ d(128) = 1
    BY PowersOfTwo, WidthAssumption DEF WordOf, Bits
  <2>2. \A weight \in {1, 2, 4, 8, 16, 32, 64, 128} : d(weight) \in {0, 1}
    OBVIOUS
  <2> HIDE DEF d
  <2> QED
    BY <2>1, <2>2 DEF Val
<1>2. /\ m(2) = d(1)
      /\ m(4) = m(2) + 2 * d(2)
      /\ m(8) = m(4) + 4 * d(4)
      /\ m(16) = m(8) + 8 * d(8)
      /\ m(32) = m(16) + 16 * d(16)
      /\ m(64) = m(32) + 32 * d(32)
      /\ m(128) = m(64) + 64 * d(64)
      /\ m(256) = m(128) + 128 * d(128)
  OBVIOUS
<1>3. \A weight \in {1, 2, 4, 8, 16, 32, 64, 128} : d(weight) \in {0, 1}
  OBVIOUS
<1>4. Val(WordOf(n)) = m(2^W)
  <2> HIDE DEF d, m
  <2>1. W \in {1, 2, 3, 4, 5, 6, 7, 8}
    BY WidthAssumption
  <2>2. CASE W = 1
    <3>1. 2^W = 2
      BY <2>2, PowersOfTwo
    <3> QED
      BY <1>1, <1>2, <1>3, <2>2, <3>1
  <2>3. CASE W = 2
    <3>1. 2^W = 4
      BY <2>3, PowersOfTwo
    <3> QED
      BY <1>1, <1>2, <1>3, <2>3, <3>1
  <2>4. CASE W = 3
    <3>1. 2^W = 8
      BY <2>4, PowersOfTwo
    <3> QED
      BY <1>1, <1>2, <1>3, <2>4, <3>1
  <2>5. CASE W = 4
    <3>1. 2^W = 16
      BY <2>5, PowersOfTwo
    <3> QED
      BY <1>1, <1>2, <1>3, <2>5, <3>1
  <2>6. CASE W = 5
    <3>1. 2^W = 32
      BY <2>6, PowersOfTwo
    <3> QED
      BY <1>1, <1>2, <1>3, <2>6, <3>1
  <2>7. CASE W = 6
    <3>1. 2^W = 64
      BY <2>7, PowersOfTwo
    <3> QED
      BY <1>1, <1>2, <1>3, <2>7, <3>1
  <2>8. CASE W = 7
    <3>1. 2^W = 128
      BY <2>8, PowersOfTwo
    <3> QED
      BY <1>1, <1>2, <1>3, <2>8, <3>1
  <2>9. CASE W = 8
    <3>1. 2^W = 256
      BY <2>9, PowersOfTwo
    <3> QED
      BY <1>1, <1>2, <1>3, <2>9, <3>1
  <2> QED
    BY <2>1, <2>2, <2>3, <2>4, <2>5, <2>6, <2>7, <2>8, <2>9
<1> QED
  BY <1>4

\* A byte has one of eight widths, and its two hundred and fifty-six values at most.
LEMMA ByteSize == 2^W \in {2, 4, 8, 16, 32, 64, 128, 256}
<1>1. W \in {1, 2, 3, 4, 5, 6, 7, 8}
  BY WidthAssumption
<1>2. CASE W = 1
  BY <1>2, PowersOfTwo
<1>3. CASE W = 2
  BY <1>3, PowersOfTwo
<1>4. CASE W = 3
  BY <1>4, PowersOfTwo
<1>5. CASE W = 4
  BY <1>5, PowersOfTwo
<1>6. CASE W = 5
  BY <1>6, PowersOfTwo
<1>7. CASE W = 6
  BY <1>7, PowersOfTwo
<1>8. CASE W = 7
  BY <1>8, PowersOfTwo
<1>9. CASE W = 8
  BY <1>9, PowersOfTwo
<1> QED
  BY <1>1, <1>2, <1>3, <1>4, <1>5, <1>6, <1>7, <1>8, <1>9

\* The two bytes of an instruction address read back as the address, when it fits in
\* two bytes (mmu.v: return_address is spread over spec_mem_interrupt).
LEMMA AddressBytes ==
  ASSUME NEW n \in Nat, n < 2^W * 2^W
  PROVE  Val(HighByte(n)) * 2^W + Val(LowByte(n)) = n
<1> DEFINE m == 2^W
<1>1. m \in {2, 4, 8, 16, 32, 64, 128, 256} /\ n < m * m
  BY ByteSize
<1>2. Val(LowByte(n)) = n % m
  BY ValOfWordOf DEF LowByte
<1>3. Val(HighByte(n)) = (n \div m) % m
  <2>1. n \div m \in Nat
    BY <1>1
  <2> QED
    BY <2>1, ValOfWordOf DEF HighByte
<1> HIDE DEF m
<1>4. ((n \div m) % m) * m + (n % m) = n
  <2>1. CASE m = 2
    <3>1. n < 4
      BY <1>1, <2>1
    <3>2. ((n \div 2) % 2) * 2 + (n % 2) = n
      BY <3>1
    <3> QED
      BY <2>1, <3>2
  <2>2. CASE m = 4
    <3>1. n < 16
      BY <1>1, <2>2
    <3>2. ((n \div 4) % 4) * 4 + (n % 4) = n
      BY <3>1
    <3> QED
      BY <2>2, <3>2
  <2>3. CASE m = 8
    <3>1. n < 64
      BY <1>1, <2>3
    <3>2. ((n \div 8) % 8) * 8 + (n % 8) = n
      BY <3>1
    <3> QED
      BY <2>3, <3>2
  <2>4. CASE m = 16
    <3>1. n < 256
      BY <1>1, <2>4
    <3>2. ((n \div 16) % 16) * 16 + (n % 16) = n
      BY <3>1
    <3> QED
      BY <2>4, <3>2
  <2>5. CASE m = 32
    <3>1. n < 1024
      BY <1>1, <2>5
    <3>2. ((n \div 32) % 32) * 32 + (n % 32) = n
      BY <3>1
    <3> QED
      BY <2>5, <3>2
  <2>6. CASE m = 64
    <3>1. n < 4096
      BY <1>1, <2>6
    <3>2. ((n \div 64) % 64) * 64 + (n % 64) = n
      BY <3>1
    <3> QED
      BY <2>6, <3>2
  <2>7. CASE m = 128
    <3>1. n < 16384
      BY <1>1, <2>7
    <3>2. ((n \div 128) % 128) * 128 + (n % 128) = n
      BY <3>1
    <3> QED
      BY <2>7, <3>2
  <2>8. CASE m = 256
    <3>1. n < 65536
      BY <1>1, <2>8
    <3>2. ((n \div 256) % 256) * 256 + (n % 256) = n
      BY <3>1
    <3> QED
      BY <2>8, <3>2
  <2> QED
    BY <1>1, <2>1, <2>2, <2>3, <2>4, <2>5, <2>6, <2>7, <2>8
<1> QED
  BY <1>2, <1>3, <1>4 DEF m

\* A byte of two bits or more can hold a 2.
LEMMA TwoFits == ASSUME W > 1 PROVE Val(WordOf(2)) = 2
<1>1. W \in {2, 3, 4, 5, 6, 7, 8}
  BY WidthAssumption
<1>2. \A k \in {2, 3, 4, 5, 6, 7, 8} : W = k => 2^W = 2^k
  OBVIOUS
<1>3. 2^W # 2
  BY <1>1, <1>2, PowersOfTwo
<1>4. 2 % 2^W = 2
  BY <1>3, ByteSize
<1> QED
  BY <1>4, ValOfWordOf

\* Only one byte reads as 2, and it is the number 2 cut to a byte (the first address
\* behind the return address is the input port, mmu.v).
LEMMA TwoIsWordOfTwo ==
  ASSUME NEW w \in Word, Val(w) = 2 PROVE w = WordOf(2)
<1>1. W # 1
  <2>1. SUFFICES ASSUME W = 1 PROVE FALSE
    OBVIOUS
  <2>2. \A i \in 1..7 : i \notin w
    BY <2>1 DEF Word, Bits
  <2>3. Val(w) \in {0, 1}
    BY <2>2 DEF Val
  <2> QED
    BY <2>3
<1>2. Val(WordOf(2)) = 2
  BY <1>1, TwoFits, WidthAssumption
<1> QED
  BY <1>2, WordOfType, ValInjective
=============================================================================
