--------------------------- MODULE ProgramProofs ---------------------------
(***************************************************************************)
(* What programs are from their source to the emulator, for every scenario:*)
(* program files are read as they were written, files hold bytes, what is  *)
(* loaded is instructions, and a program that comes from a source is what  *)
(* the source means.                                                       *)
(***************************************************************************)
EXTENDS ToolchainProofs

(***************************************************************************)
(* Program files: what is written is what is read.                         *)
(***************************************************************************)

\* The sixteen opcodes.
LEMMA OpcodeFacts ==
  ASSUME NEW op \in Ops
  PROVE  Opcode(op) \in 0..15 /\ opcodes[Opcode(op) + 1] = op
<1>1. DOMAIN opcodes = 1..16
  BY DEF opcodes
<1>2. \E n \in 1..16 : opcodes[n] = op
  <2>1. CASE op \in {"NOP", "SET", "LDM", "STM"}
    <3>1. opcodes[1] = "NOP" /\ opcodes[2] = "SET" /\ opcodes[3] = "LDM" /\ opcodes[4] = "STM"
      BY DEF opcodes
    <3> QED
      BY <2>1, <3>1
  <2>2. CASE op \in {"JPR", "JPI", "CID", "CTR"}
    <3>1. opcodes[5] = "JPR" /\ opcodes[6] = "JPI" /\ opcodes[7] = "CID" /\ opcodes[8] = "CTR"
      BY DEF opcodes
    <3> QED
      BY <2>2, <3>1
  <2>3. CASE op \in {"NAD", "AND", "XOR", "SHR"}
    <3>1. opcodes[9] = "NAD" /\ opcodes[10] = "AND" /\ opcodes[11] = "XOR" /\ opcodes[12] = "SHR"
      BY DEF opcodes
    <3> QED
      BY <2>3, <3>1
  <2>4. CASE op \in {"MOV", "EXT", "ADD", "CMP"}
    <3>1. opcodes[13] = "MOV" /\ opcodes[14] = "EXT" /\ opcodes[15] = "ADD" /\ opcodes[16] = "CMP"
      BY DEF opcodes
    <3> QED
      BY <2>4, <3>1
  <2> QED
    BY <2>1, <2>2, <2>3, <2>4 DEF Ops, AluOps, MemOps, JumpOps
<1>3. PICK n : n = CHOOSE k \in 1..16 : opcodes[k] = op
  OBVIOUS
<1>4. n \in 1..16 /\ opcodes[n] = op
  BY <1>2, <1>3
<1>5. Opcode(op) = n - 1
  BY <1>1, <1>3, Zenon DEF Opcode
<1> QED
  BY <1>4, <1>5

\* A byte is cut to itself.
LEMMA WordOfVal ==
  ASSUME NEW w \in Word
  PROVE  Val(w) \in 0..255 /\ WordOf(Val(w)) = w
<1>1. Val(w) \in Nat /\ WordOf(Val(w)) \in Word
  BY ValType, WordOfType
<1>2. PICK bit : bit = [i \in 0..7 |-> IF i \in w THEN 1 ELSE 0]
  OBVIOUS
<1>3. \A i \in 0..7 : bit[i] \in {0, 1} /\ (i >= W => bit[i] = 0)
  BY <1>2, WidthAssumption DEF Word, Bits
<1>4. Val(w) = bit[0] + 2 * bit[1] + 4 * bit[2] + 8 * bit[3] + 16 * bit[4] + 32 * bit[5]
               + 64 * bit[6] + 128 * bit[7]
  BY <1>2 DEF Val
<1>5. Val(w) <= 255
  BY <1>3, <1>4
<1>6. Val(w) < 2^W
  <2>1. W \in {1, 2, 3, 4, 5, 6, 7, 8}
    BY WidthAssumption
  <2>2. CASE W = 1
    BY <1>3, <1>4, <2>2, PowersOfTwo
  <2>3. CASE W = 2
    BY <1>3, <1>4, <2>3, PowersOfTwo
  <2>4. CASE W = 3
    BY <1>3, <1>4, <2>4, PowersOfTwo
  <2>5. CASE W = 4
    BY <1>3, <1>4, <2>5, PowersOfTwo
  <2>6. CASE W = 5
    BY <1>3, <1>4, <2>6, PowersOfTwo
  <2>7. CASE W = 6
    BY <1>3, <1>4, <2>7, PowersOfTwo
  <2>8. CASE W = 7
    BY <1>3, <1>4, <2>8, PowersOfTwo
  <2>9. CASE W = 8
    BY <1>3, <1>4, <2>9, PowersOfTwo
  <2> QED
    BY <2>1, <2>2, <2>3, <2>4, <2>5, <2>6, <2>7, <2>8, <2>9
<1>7. Val(WordOf(Val(w))) = Val(w)
  <2>1. 2^W \in Nat
    BY ByteSize
  <2>2. Val(w) % 2^W = Val(w)
    BY <1>1, <1>6, <2>1
  <2> QED
    BY <1>1, <2>2, ValOfWordOf
<1> QED
  BY <1>1, <1>5, <1>7, ValInjective

\* The condition's bits of a first byte.
LEMMA HeadBits ==
  ASSUME NEW head \in Nat, NEW c \in 0..15, NEW b1 \in 0..1, NEW b2 \in 0..1,
         NEW b3 \in 0..1, NEW b4 \in 0..1, head = 16 * c + 8 * b1 + 4 * b2 + 2 * b3 + b4
  PROVE  /\ (head \div 8) % 2 = b1 /\ (head \div 4) % 2 = b2
         /\ (head \div 2) % 2 = b3 /\ (head \div 1) % 2 = b4
         /\ head \in 0..255 /\ head \div 16 = c
<1>1. (head \div 8) % 2 = b1
  OBVIOUS
<1>2. (head \div 4) % 2 = b2
  BY SMTT(30)
<1>3. (head \div 2) % 2 = b3
  OBVIOUS
<1>4. (head \div 1) % 2 = b4
  <2>1. head \div 1 = head /\ head % 2 = b4
    OBVIOUS
  <2> QED
    BY <2>1
<1>5. head \in 0..255 /\ head \div 16 = c
  OBVIOUS
<1> QED
  BY <1>1, <1>2, <1>3, <1>4, <1>5

\* What the reader makes of an instruction.
ReadBack(i) ==
  IF i.op = "NOP" THEN [op |-> "NOP", cond |-> FlagValues, a |-> Zero, b |-> Zero] ELSE i

\* The first byte holds the opcode and the condition.
LEMMA HeadFacts ==
  ASSUME NEW i \in Instruction, NEW head, head = Encode(i)[1]
  PROVE  /\ head \in 0..255
         /\ opcodes[(head \div 16) + 1] = i.op
         /\ {flagBits[k] : k \in {k \in 1..4 : (head \div 2^(4 - k)) % 2 = 1}} = i.cond
<1>1. PICK c : c = Opcode(i.op)
  OBVIOUS
<1>2. c \in 0..15 /\ opcodes[c + 1] = i.op
  BY <1>1, OpcodeFacts DEF Instruction
<1>3. /\ flagBits[1] = "ZF_TRUE" /\ flagBits[2] = "ZF_FALSE"
      /\ flagBits[3] = "CF_TRUE" /\ flagBits[4] = "CF_FALSE"
  BY DEF flagBits
<1>4. PICK bit : bit = [k \in 1..4 |-> IF flagBits[k] \in i.cond THEN 1 ELSE 0]
  OBVIOUS
<1>5. head = 16 * c + 8 * bit[1] + 4 * bit[2] + 2 * bit[3] + bit[4]
  <2>1. /\ (IF flagBits[1] \in i.cond THEN 2^(4 - 1) ELSE 0) = 8 * bit[1]
        /\ (IF flagBits[2] \in i.cond THEN 2^(4 - 2) ELSE 0) = 4 * bit[2]
        /\ (IF flagBits[3] \in i.cond THEN 2^(4 - 3) ELSE 0) = 2 * bit[3]
        /\ (IF flagBits[4] \in i.cond THEN 2^(4 - 4) ELSE 0) = bit[4]
    BY <1>4, PowersOfTwo
  <2>2. Encode(i)[1] = 16 * Opcode(i.op) + (IF flagBits[1] \in i.cond THEN 2^(4 - 1) ELSE 0)
                         + (IF flagBits[2] \in i.cond THEN 2^(4 - 2) ELSE 0)
                         + (IF flagBits[3] \in i.cond THEN 2^(4 - 3) ELSE 0)
                         + (IF flagBits[4] \in i.cond THEN 2^(4 - 4) ELSE 0)
    BY DEF Encode
  <2> QED
    BY <1>1, <2>1, <2>2
<1>6. bit[1] \in 0..1 /\ bit[2] \in 0..1 /\ bit[3] \in 0..1 /\ bit[4] \in 0..1
  BY <1>4
<1>7. head \in Nat
  BY <1>2, <1>5, <1>6
<1>8. /\ (head \div 8) % 2 = bit[1] /\ (head \div 4) % 2 = bit[2]
      /\ (head \div 2) % 2 = bit[3] /\ (head \div 1) % 2 = bit[4]
      /\ head \in 0..255 /\ head \div 16 = c
  <2>1. PICK b1, b2, b3, b4 : b1 = bit[1] /\ b2 = bit[2] /\ b3 = bit[3] /\ b4 = bit[4]
    OBVIOUS
  <2>2. b1 \in 0..1 /\ b2 \in 0..1 /\ b3 \in 0..1 /\ b4 \in 0..1
    BY <1>6, <2>1
  <2>3. head = 16 * c + 8 * b1 + 4 * b2 + 2 * b3 + b4
    BY <1>5, <2>1
  <2>4. /\ (head \div 8) % 2 = b1 /\ (head \div 4) % 2 = b2
        /\ (head \div 2) % 2 = b3 /\ (head \div 1) % 2 = b4
        /\ head \in 0..255 /\ head \div 16 = c
    BY <1>2, <1>7, <2>2, <2>3, HeadBits
  <2> QED
    BY <2>1, <2>4
<1>9. \A k \in 1..4 : (head \div 2^(4 - k)) % 2 = bit[k]
  <2> SUFFICES ASSUME NEW k \in 1..4 PROVE (head \div 2^(4 - k)) % 2 = bit[k]
    OBVIOUS
  <2>1. CASE k = 1
    BY <1>8, <2>1, PowersOfTwo
  <2>2. CASE k = 2
    BY <1>8, <2>2, PowersOfTwo
  <2>3. CASE k = 3
    BY <1>8, <2>3, PowersOfTwo
  <2>4. CASE k = 4
    BY <1>8, <2>4, PowersOfTwo
  <2> QED
    BY <2>1, <2>2, <2>3, <2>4
<1>10. {flagBits[k] : k \in {k \in 1..4 : (head \div 2^(4 - k)) % 2 = 1}} = i.cond
  <2>1. {k \in 1..4 : (head \div 2^(4 - k)) % 2 = 1} = {k \in 1..4 : flagBits[k] \in i.cond}
    <3>1. \A k \in 1..4 : (head \div 2^(4 - k)) % 2 = 1 <=> flagBits[k] \in i.cond
      <4> SUFFICES ASSUME NEW k \in 1..4
                   PROVE  (head \div 2^(4 - k)) % 2 = 1 <=> flagBits[k] \in i.cond
        OBVIOUS
      <4>1. (head \div 2^(4 - k)) % 2 = bit[k]
        BY <1>9
      <4>2. bit[k] = 1 <=> flagBits[k] \in i.cond
        BY <1>4
      <4> QED
        BY <4>1, <4>2, Zenon
    <3> QED
      BY <3>1, Zenon
  <2>2. i.cond \subseteq {"ZF_TRUE", "ZF_FALSE", "CF_TRUE", "CF_FALSE"}
    BY DEF Instruction, FlagValues
  <2>3. {flagBits[k] : k \in {k \in 1..4 : flagBits[k] \in i.cond}} = i.cond
    BY <1>3, <2>2
  <2> QED
    BY <2>1, <2>3
<1> QED
  BY <1>2, <1>8, <1>10

\* The bytes of an instruction are its three.
LEMMA EncodeFacts ==
  ASSUME NEW i \in Instruction
  PROVE  /\ Encode(i) \in Seq(0..255) /\ Len(Encode(i)) = 3
         /\ WordOf(Encode(i)[2]) = i.a /\ WordOf(Encode(i)[3]) = i.b
<1>1. i.a \in Word /\ i.b \in Word
  BY DEF Instruction
<1>2. Val(i.a) \in 0..255 /\ Val(i.b) \in 0..255
  BY <1>1, WordOfVal
<1>3. PICK head : Encode(i) = <<head, Val(i.a), Val(i.b)>>
  BY DEF Encode
<1>4. head = Encode(i)[1] /\ Encode(i)[2] = Val(i.a) /\ Encode(i)[3] = Val(i.b)
  BY <1>3
<1>5. head \in 0..255
  BY <1>4, HeadFacts
<1> QED
  BY <1>1, <1>2, <1>3, <1>4, <1>5, WordOfVal

\* A program file holds what was put: every instruction is read back as it was, but
\* for the condition of a NOP (MicroWriter::bake, MicroReader::toProgram).
LEMMA ImageReadsBack ==
  ASSUME NEW S, NEW puts \in Seq(S),
         \A n \in DOMAIN puts :
           Put(puts[n]) \in Instruction /\ Put(puts[n]).op # "EXT"
  PROVE  /\ Bytes(puts) \in Seq(0..255) /\ Len(Bytes(puts)) = 3 * Len(puts)
         /\ Readable(Bytes(puts))
         /\ toProgram(Bytes(puts)) = [n \in DOMAIN puts |-> ReadBack(Put(puts[n]))]
<1>1. PICK m \in Nat : m = Len(puts) /\ DOMAIN puts = 1..m
  BY LenProperties
<1>2. PICK bytes : bytes = Bytes(puts)
  OBVIOUS
<1>3. bytes = [n \in 1..3 * m |-> Encode(Put(puts[((n - 1) \div 3) + 1]))[((n - 1) % 3) + 1]]
  BY <1>1, <1>2 DEF Bytes
<1>4. ASSUME NEW n \in 1..3 * m
      PROVE  bytes[n] \in 0..255
  <2>1. PICK k \in 1..m, j \in 1..3 : k = ((n - 1) \div 3) + 1 /\ j = ((n - 1) % 3) + 1
    <3>1. ((n - 1) \div 3) + 1 \in 1..m /\ ((n - 1) % 3) + 1 \in 1..3
      BY <1>1
    <3> QED
      BY <3>1
  <2>2. bytes[n] = Encode(Put(puts[k]))[j]
    BY <1>3, <2>1
  <2>3. Put(puts[k]) \in Instruction
    BY <1>1, <2>1
  <2>4. Encode(Put(puts[k])) \in Seq(0..255) /\ Len(Encode(Put(puts[k]))) = 3
    BY <2>3, EncodeFacts
  <2> QED
    BY <2>1, <2>2, <2>4, ElementOfSeq
<1>5. bytes \in Seq(0..255) /\ Len(bytes) = 3 * m
  BY <1>1, <1>3, <1>4
<1>6. ASSUME NEW n \in 1..m
      PROVE  /\ bytes[3 * n - 2] = Encode(Put(puts[n]))[1]
             /\ bytes[3 * n - 1] = Encode(Put(puts[n]))[2]
             /\ bytes[3 * n] = Encode(Put(puts[n]))[3]
  <2>1. /\ (((3 * n - 2) - 1) \div 3) + 1 = n /\ (((3 * n - 2) - 1) % 3) + 1 = 1
        /\ (((3 * n - 1) - 1) \div 3) + 1 = n /\ (((3 * n - 1) - 1) % 3) + 1 = 2
        /\ ((3 * n - 1) \div 3) + 1 = n /\ ((3 * n - 1) % 3) + 1 = 3
    OBVIOUS
  <2>2. 3 * n - 2 \in 1..3 * m /\ 3 * n - 1 \in 1..3 * m /\ 3 * n \in 1..3 * m
    BY <1>1
  <2>3. bytes[3 * n - 2] = Encode(Put(puts[n]))[1]
    BY <1>3, <2>1, <2>2, Zenon
  <2>4. bytes[3 * n - 1] = Encode(Put(puts[n]))[2]
    BY <1>3, <2>1, <2>2, Zenon
  <2>5. bytes[3 * n] = Encode(Put(puts[n]))[3]
    BY <1>3, <2>1, <2>2, Zenon
  <2> QED
    BY <2>3, <2>4, <2>5
<1>7. Len(bytes) % 3 = 0 /\ Len(bytes) \div 3 = m
  BY <1>1, <1>5
<1>8. ASSUME NEW n \in 1..m
      PROVE  OpcodeAt(bytes, n) = Put(puts[n]).op
  <2>1. PICK i \in Instruction : i = Put(puts[n])
    BY <1>1
  <2>2. bytes[3 * n - 2] = Encode(i)[1]
    BY <1>6, <2>1
  <2> QED
    BY <2>1, <2>2, HeadFacts DEF OpcodeAt
<1>9. Readable(bytes)
  BY <1>1, <1>7, <1>8 DEF Readable, Aligned
<1>10. ASSUME NEW n \in 1..m
       PROVE  toProgram(bytes)[n] = ReadBack(Put(puts[n]))
  <2>1. PICK i \in Instruction : i = Put(puts[n])
    BY <1>1
  <2>2. PICK head : head = bytes[3 * n - 2] /\ head = Encode(i)[1]
    BY <1>6, <2>1
  <2>3. WordOf(bytes[3 * n - 1]) = i.a /\ WordOf(bytes[3 * n]) = i.b
    BY <1>6, <2>1, EncodeFacts
  <2>4. OpcodeAt(bytes, n) = i.op
    BY <1>8, <2>1
  <2>5. {flagBits[k] : k \in {k \in 1..4 : (head \div 2^(4 - k)) % 2 = 1}} = i.cond
    BY <2>2, HeadFacts
  <2>6. i = [op |-> i.op, cond |-> i.cond, a |-> i.a, b |-> i.b]
    BY DEF Instruction
  <2>7. toProgram(bytes)[n] =
          IF OpcodeAt(bytes, n) = "NOP"
          THEN [op |-> OpcodeAt(bytes, n), cond |-> FlagValues, a |-> Zero, b |-> Zero]
          ELSE [op |-> OpcodeAt(bytes, n),
                cond |-> {flagBits[k] : k \in {k \in 1..4 : (bytes[3 * n - 2] \div 2^(4 - k)) % 2 = 1}},
                a |-> WordOf(bytes[3 * n - 1]), b |-> WordOf(bytes[3 * n])]
    BY <1>7, Zenon DEF toProgram
  <2>8. CASE i.op = "NOP"
    BY <2>1, <2>4, <2>7, <2>8 DEF ReadBack
  <2>9. CASE i.op # "NOP"
    <3>1. toProgram(bytes)[n] = [op |-> i.op, cond |-> i.cond, a |-> i.a, b |-> i.b]
      BY <2>2, <2>3, <2>4, <2>5, <2>7, <2>9, Zenon
    <3> QED
      BY <2>1, <2>6, <2>9, <3>1, Zenon DEF ReadBack
  <2> QED
    BY <2>8, <2>9
<1>11. toProgram(bytes) = [n \in 1..m |-> toProgram(bytes)[n]]
  BY <1>7, Zenon DEF toProgram
<1>12. toProgram(bytes) = [n \in 1..m |-> ReadBack(Put(puts[n]))]
  BY <1>10, <1>11, Zenon
<1> QED
  BY <1>1, <1>2, <1>5, <1>9, <1>12

(***************************************************************************)
(* Hex text: what is written is what is read.                              *)
(***************************************************************************)

\* What a file is made of.
Byte == 0..255

\* Two characters that are read as a byte.
Digits2(content, n) == IsHexDigit(content[n]) /\ IsHexDigit(content[n + 1])
ByteOf(content, n) == 16 * HexValue(content[n]) + HexValue(content[n + 1])

\* For each place, what is decoded from there on.
Decoded(content) ==
  CHOOSE from : from = [n \in 1..Len(content)+2 |->
    IF n >= Len(content) THEN <<>>
    ELSE IF Digits2(content, n) THEN <<ByteOf(content, n)>> \o from[n + 2]
    ELSE from[n + 1]]

\* That is what decodeHexString takes its result from.
LEMMA DecodedIsThat == \A content : decodeHexString(content) = Decoded(content)[1]
  BY Zenon DEF decodeHexString, Decoded, Digits2, ByteOf

\* Two hex digits are a byte.
LEMMA ByteOfDigits ==
  ASSUME NEW content, NEW n, Digits2(content, n)
  PROVE  ByteOf(content, n) \in Byte
<1>1. ASSUME NEW c, IsHexDigit(c) PROVE HexValue(c) \in 0..15
  <2>1. CASE c \in 48..57
    BY <2>1 DEF HexValue
  <2>2. CASE c \in 65..70
    BY <2>2 DEF HexValue
  <2>3. CASE c \in 97..102
    BY <2>3 DEF HexValue
  <2> QED
    BY <1>1, <2>1, <2>2, <2>3 DEF IsHexDigit
<1>2. HexValue(content[n]) \in 0..15 /\ HexValue(content[n + 1]) \in 0..15
  BY <1>1 DEF Digits2
<1> QED
  BY <1>2 DEF ByteOf, Byte

\* A byte's digits are read as the byte, and a new line is no digit.
LEMMA DigitFacts ==
  /\ \A byte \in Byte :
       /\ IsHexDigit(HexDigit(byte \div 16)) /\ IsHexDigit(HexDigit(byte % 16))
       /\ 16 * HexValue(HexDigit(byte \div 16)) + HexValue(HexDigit(byte % 16)) = byte
  /\ ~IsHexDigit(10)
<1>1. ASSUME NEW v \in 0..15 PROVE IsHexDigit(HexDigit(v)) /\ HexValue(HexDigit(v)) = v
  <2>1. CASE v < 10
    <3>1. HexDigit(v) = 48 + v
      BY <2>1 DEF HexDigit
    <3> QED
      BY <2>1, <3>1 DEF IsHexDigit, HexValue
  <2>2. CASE v >= 10
    <3>1. HexDigit(v) = 55 + v
      BY <2>2 DEF HexDigit
    <3> QED
      BY <2>2, <3>1 DEF IsHexDigit, HexValue
  <2> QED
    BY <2>1, <2>2
<1>2. ASSUME NEW byte \in Byte
      PROVE  /\ IsHexDigit(HexDigit(byte \div 16)) /\ IsHexDigit(HexDigit(byte % 16))
             /\ 16 * HexValue(HexDigit(byte \div 16)) + HexValue(HexDigit(byte % 16)) = byte
  <2>1. byte \div 16 \in 0..15 /\ byte % 16 \in 0..15
    BY DEF Byte
  <2>2. 16 * (byte \div 16) + (byte % 16) = byte
    BY DEF Byte
  <2> QED
    BY <1>1, <2>1, <2>2
<1>3. ~IsHexDigit(10)
  BY DEF IsHexDigit
<1> QED
  BY <1>2, <1>3

\* Decoding, character by character.
LEMMA DecodeStep ==
  ASSUME NEW content, NEW n \in Nat, n = Len(content)
  PROVE  \A p \in 1..n+2 :
           Decoded(content)[p] =
             IF p >= n THEN <<>>
             ELSE IF Digits2(content, p) THEN <<ByteOf(content, p)>> \o Decoded(content)[p + 2]
             ELSE Decoded(content)[p + 1]
<1>1. PICK V : V = Seq(Byte) \X Seq(Byte)
  OBVIOUS
<1> DEFINE next(p, behind) ==
      <<IF p >= n THEN <<>>
        ELSE IF Digits2(content, p) THEN <<ByteOf(content, p)>> \o behind[2]
        ELSE behind[1],
        behind[1]>>
<1>2. PICK step : step = [r \in 1..n+1 |-> [behind \in V |-> next(n + 2 - r, behind)]]
  OBVIOUS
<1>3. step \in [1..n+1 -> [V -> V]]
  <2>1. ASSUME NEW p, NEW behind \in V
        PROVE  next(p, behind) \in V
    <3>1. behind[1] \in Seq(Byte) /\ behind[2] \in Seq(Byte) /\ <<>> \in Seq(Byte)
      BY <1>1
    <3>2. Digits2(content, p) => <<ByteOf(content, p)>> \o behind[2] \in Seq(Byte)
      <4>1. ASSUME NEW b \in Byte PROVE <<b>> \o behind[2] \in Seq(Byte)
        <5>1. <<b>> \in Seq(Byte)
          OBVIOUS
        <5> QED
          BY <3>1, <5>1, ConcatProperties
      <4> QED
        BY <4>1, ByteOfDigits
    <3> QED
      BY <1>1, <3>1, <3>2
  <2> HIDE DEF next
  <2> QED
    BY <1>2, <2>1
<1>4. PICK f \in [0..n+1 -> V] :
             f[0] = <<<<>>, <<>>>> /\ \A r \in 1..n+1 : f[r] = step[r][f[r - 1]]
  <2>1. <<<<>>, <<>>>> \in V /\ n + 1 \in Nat
    <3>1. <<>> \in Seq(Byte)
      OBVIOUS
    <3>2. PICK e : e = <<>>
      OBVIOUS
    <3>3. e \in Seq(Byte)
      BY <3>1, <3>2
    <3>4. <<e, e>> \in Seq(Byte) \X Seq(Byte)
      BY <3>3
    <3>5. n + 1 \in Nat
      OBVIOUS
    <3> QED
      BY <1>1, <3>2, <3>4, <3>5, Zenon
  <2>2. Recursion(n + 1, V, <<<<>>, <<>>>>, step)
    BY <1>3, <2>1, RecursionExists
  <2> QED
    BY <2>2, Zenon DEF Recursion
<1>5. ASSUME NEW r \in 1..n+1
      PROVE  f[r] = next(n + 2 - r, f[r - 1]) /\ f[r - 1] \in V
  <2>1. r - 1 \in 0..n+1
    OBVIOUS
  <2>2. f[r - 1] \in V
    BY <1>4, <2>1
  <2> HIDE DEF next
  <2> QED
    BY <1>2, <1>4, <2>2
<1>6. PICK g : g = [p \in 1..n+2 |-> f[n + 2 - p][1]]
  OBVIOUS
<1>7. ASSUME NEW p \in 1..n+2
      PROVE  g[p] = IF p >= n THEN <<>>
                    ELSE IF Digits2(content, p) THEN <<ByteOf(content, p)>> \o g[p + 2]
                    ELSE g[p + 1]
  <2>1. CASE p = n + 2
    <3>1. n + 2 - p = 0
      BY <2>1
    <3>2. g[p] = f[0][1]
      BY <1>6, <3>1
    <3> QED
      BY <1>4, <2>1, <3>2
  <2>2. CASE p # n + 2
    <3>1. PICK r \in 1..n+1 : r = n + 2 - p /\ n + 2 - r = p
      <4>1. n + 2 - p \in 1..n+1 /\ n + 2 - (n + 2 - p) = p
        BY <2>2
      <4> QED
        BY <4>1
    <3>2. f[r] = next(p, f[r - 1])
      BY <1>5, <3>1
    <3>3. g[p] = f[r][1]
      BY <1>6, <3>1
    <3>4. g[p] = IF p >= n THEN <<>>
                 ELSE IF Digits2(content, p) THEN <<ByteOf(content, p)>> \o f[r - 1][2]
                 ELSE f[r - 1][1]
      BY <3>2, <3>3
    <3>5. g[p + 1] = f[r - 1][1]
      <4>1. p + 1 \in 1..n+2 /\ n + 2 - (p + 1) = r - 1
        BY <2>2, <3>1
      <4> QED
        BY <1>6, <4>1
    <3>6. p < n => g[p + 2] = f[r - 1][2]
      <4> SUFFICES ASSUME p < n PROVE g[p + 2] = f[r - 1][2]
        OBVIOUS
      <4>1. PICK k \in 1..n+1 : k = r - 1
        <5>1. r - 1 \in 1..n+1
          BY <3>1
        <5> QED
          BY <5>1
      <4>2. f[k] = next(n + 2 - k, f[k - 1])
        BY <1>5
      <4>3. f[k][2] = f[k - 1][1]
        BY <4>2
      <4>4. p + 2 \in 1..n+2 /\ n + 2 - (p + 2) = k - 1
        BY <3>1, <4>1
      <4> QED
        BY <1>6, <4>1, <4>3, <4>4
    <3>7. CASE p < n
      BY <3>4, <3>5, <3>6, <3>7, Zenon
    <3>8. CASE ~(p < n)
      <4>1. p >= n
        BY <3>8
      <4> QED
        BY <3>4, <4>1, Zenon
    <3> QED
      BY <3>7, <3>8
  <2> QED
    BY <2>1, <2>2
<1>8. g = [p \in 1..n+2 |-> IF p >= n THEN <<>>
                    ELSE IF Digits2(content, p) THEN <<ByteOf(content, p)>> \o g[p + 2]
                    ELSE g[p + 1]]
  BY <1>6, <1>7, Zenon
<1>9. Decoded(content) = [p \in 1..n+2 |-> IF p >= n THEN <<>>
        ELSE IF Digits2(content, p) THEN <<ByteOf(content, p)>> \o Decoded(content)[p + 2]
        ELSE Decoded(content)[p + 1]]
  BY <1>8, Zenon DEF Decoded
<1> QED
  BY <1>9, Zenon

\* What is left of bytes behind the first p.
RestOf(bytes, p, rest) ==
  /\ rest \in Seq(Byte) /\ Len(rest) = Len(bytes) - p
  /\ \A x \in 1..Len(bytes)-p : rest[x] = bytes[p + x]

\* One byte more is left before it.
LEMMA RestGrows ==
  ASSUME NEW bytes \in Seq(Byte), NEW p \in 0..Len(bytes)-1, NEW q, q = p + 1, NEW rest,
         RestOf(bytes, q, rest), NEW b, b = bytes[q]
  PROVE  RestOf(bytes, p, <<b>> \o rest)
<1>1. PICK n \in Nat : n = Len(bytes) /\ p \in 0..n-1 /\ q \in 1..n /\ DOMAIN bytes = 1..n
  BY LenProperties
<1>2. b \in Byte
  BY <1>1, ElementOfSeq
<1>3. rest \in Seq(Byte) /\ Len(rest) = n - q /\ \A x \in 1..n-q : rest[x] = bytes[q + x]
  BY <1>1 DEF RestOf
<1>4. <<b>> \in Seq(Byte) /\ Len(<<b>>) = 1 /\ <<b>>[1] = b
  BY <1>2
<1>5. PICK all : all = <<b>> \o rest
  OBVIOUS
<1>6. all \in Seq(Byte) /\ Len(all) = 1 + (n - q)
  BY <1>3, <1>4, <1>5, ConcatProperties
<1>7. \A x \in 1..1+(n-q) : all[x] = IF x <= 1 THEN <<b>>[x] ELSE rest[x - 1]
  BY <1>3, <1>4, <1>5, ConcatProperties
<1>8. ASSUME NEW x \in 1..n-p PROVE all[x] = bytes[p + x]
  <2>1. x \in 1..1+(n-q)
    BY <1>1
  <2>2. CASE x = 1
    BY <1>1, <1>4, <1>7, <2>1, <2>2
  <2>3. CASE x # 1
    <3>1. x - 1 \in 1..n-q /\ q + (x - 1) = p + x /\ ~(x <= 1)
      BY <1>1, <2>3
    <3> QED
      BY <1>3, <1>7, <2>1, <3>1
  <2> QED
    BY <2>2, <2>3
<1> QED
  BY <1>1, <1>5, <1>6, <1>8 DEF RestOf

\* The characters of hex text, a line for three bytes.
LEMMA HexTextFacts ==
  ASSUME NEW bytes \in Seq(Byte), NEW m \in Nat, Len(bytes) = 3 * m
  PROVE  /\ Len(HexText(bytes)) = 7 * m
         /\ \A j \in 0..m-1 :
              /\ HexText(bytes)[7 * j + 1] = HexDigit(bytes[3 * j + 1] \div 16)
              /\ HexText(bytes)[7 * j + 2] = HexDigit(bytes[3 * j + 1] % 16)
              /\ HexText(bytes)[7 * j + 3] = HexDigit(bytes[3 * j + 2] \div 16)
              /\ HexText(bytes)[7 * j + 4] = HexDigit(bytes[3 * j + 2] % 16)
              /\ HexText(bytes)[7 * j + 5] = HexDigit(bytes[3 * j + 3] \div 16)
              /\ HexText(bytes)[7 * j + 6] = HexDigit(bytes[3 * j + 3] % 16)
              /\ HexText(bytes)[7 * j + 7] = 10
<1>1. Len(bytes) \div 3 = m
  OBVIOUS
<1> DEFINE character(n) ==
      IF (n - 1) % 7 = 6 THEN 10
      ELSE HexDigit(IF ((n - 1) % 7) % 2 = 0
                    THEN bytes[3 * ((n - 1) \div 7) + (((n - 1) % 7) \div 2) + 1] \div 16
                    ELSE bytes[3 * ((n - 1) \div 7) + (((n - 1) % 7) \div 2) + 1] % 16)
<1>2. HexText(bytes) = [n \in 1..7 * m |-> character(n)]
  BY <1>1, Zenon DEF HexText
<1>3. Len(HexText(bytes)) = 7 * m
  <2> HIDE DEF character
  <2> QED
    BY <1>2
<1>4. ASSUME NEW j \in 0..m-1, NEW k \in 0..6, NEW n, n = 7 * j + k + 1,
             NEW byte, byte = bytes[3 * j + (k \div 2) + 1]
      PROVE  HexText(bytes)[n] = IF k = 6 THEN 10
                                 ELSE HexDigit(IF k % 2 = 0 THEN byte \div 16 ELSE byte % 16)
  <2>1. n \in 1..7 * m /\ (n - 1) % 7 = k /\ (n - 1) \div 7 = j
    BY <1>4
  <2>2. character(n) = IF k = 6 THEN 10
                       ELSE HexDigit(IF k % 2 = 0 THEN byte \div 16 ELSE byte % 16)
    BY <1>4, <2>1, Zenon
  <2> HIDE DEF character
  <2> QED
    BY <1>2, <2>1, <2>2
<1>5. ASSUME NEW j \in 0..m-1
      PROVE  /\ HexText(bytes)[7 * j + 1] = HexDigit(bytes[3 * j + 1] \div 16)
             /\ HexText(bytes)[7 * j + 2] = HexDigit(bytes[3 * j + 1] % 16)
             /\ HexText(bytes)[7 * j + 3] = HexDigit(bytes[3 * j + 2] \div 16)
             /\ HexText(bytes)[7 * j + 4] = HexDigit(bytes[3 * j + 2] % 16)
             /\ HexText(bytes)[7 * j + 5] = HexDigit(bytes[3 * j + 3] \div 16)
             /\ HexText(bytes)[7 * j + 6] = HexDigit(bytes[3 * j + 3] % 16)
             /\ HexText(bytes)[7 * j + 7] = 10
  <2>1. /\ 7 * j + 1 = 7 * j + 0 + 1 /\ 7 * j + 2 = 7 * j + 1 + 1 /\ 7 * j + 3 = 7 * j + 2 + 1
        /\ 7 * j + 4 = 7 * j + 3 + 1 /\ 7 * j + 5 = 7 * j + 4 + 1 /\ 7 * j + 6 = 7 * j + 5 + 1
        /\ 7 * j + 7 = 7 * j + 6 + 1
    OBVIOUS
  <2>2. /\ 3 * j + 1 = 3 * j + (0 \div 2) + 1 /\ 3 * j + 1 = 3 * j + (1 \div 2) + 1
        /\ 3 * j + 2 = 3 * j + (2 \div 2) + 1 /\ 3 * j + 2 = 3 * j + (3 \div 2) + 1
        /\ 3 * j + 3 = 3 * j + (4 \div 2) + 1 /\ 3 * j + 3 = 3 * j + (5 \div 2) + 1
    OBVIOUS
  <2>3. /\ 0 % 2 = 0 /\ 1 % 2 = 1 /\ 2 % 2 = 0 /\ 3 % 2 = 1 /\ 4 % 2 = 0 /\ 5 % 2 = 1
    OBVIOUS
  <2>4. HexText(bytes)[7 * j + 1] = HexDigit(bytes[3 * j + 1] \div 16)
    BY <1>4, <2>1, <2>2, <2>3
  <2>5. HexText(bytes)[7 * j + 2] = HexDigit(bytes[3 * j + 1] % 16)
    BY <1>4, <2>1, <2>2, <2>3
  <2>6. HexText(bytes)[7 * j + 3] = HexDigit(bytes[3 * j + 2] \div 16)
    BY <1>4, <2>1, <2>2, <2>3
  <2>7. HexText(bytes)[7 * j + 4] = HexDigit(bytes[3 * j + 2] % 16)
    BY <1>4, <2>1, <2>2, <2>3
  <2>8. HexText(bytes)[7 * j + 5] = HexDigit(bytes[3 * j + 3] \div 16)
    BY <1>4, <2>1, <2>2, <2>3
  <2>9. HexText(bytes)[7 * j + 6] = HexDigit(bytes[3 * j + 3] % 16)
    BY <1>4, <2>1, <2>2, <2>3
  <2>10. HexText(bytes)[7 * j + 7] = 10
    BY <1>4, <2>1, <2>2, <2>3
  <2> QED
    BY <2>4, <2>5, <2>6, <2>7, <2>8, <2>9, <2>10
<1> QED
  BY <1>3, <1>5

\* Decoding a line of hex text adds its three bytes.
LEMMA DecodeLine ==
  ASSUME NEW bytes \in Seq(Byte), NEW m \in Nat, Len(bytes) = 3 * m, NEW j \in 0..m-1,
         NEW content, content = HexText(bytes),
         RestOf(bytes, 3 * j + 3, Decoded(content)[7 * j + 8])
  PROVE  RestOf(bytes, 3 * j, Decoded(content)[7 * j + 1])
<1>1. PICK n \in Nat : n = 7 * m /\ n = Len(content)
  BY HexTextFacts
<1>2. PICK p \in Nat, o \in Nat : p = 7 * j + 1 /\ o = 3 * j
  <2>1. 7 * j + 1 \in Nat /\ 3 * j \in Nat
    OBVIOUS
  <2> QED
    BY <2>1
<1>3. p + 6 <= n /\ o + 3 <= 3 * m /\ p >= 1
  BY <1>1, <1>2
<1>4. PICK g : g = Decoded(content)
  OBVIOUS
<1>5. \A q \in 1..n+2 : g[q] = IF q >= n THEN <<>>
                               ELSE IF Digits2(content, q) THEN <<ByteOf(content, q)>> \o g[q + 2]
                               ELSE g[q + 1]
  BY <1>1, <1>4, DecodeStep
<1>6. RestOf(bytes, o + 3, g[p + 7])
  <2>1. o + 3 = 3 * j + 3 /\ p + 7 = 7 * j + 8
    BY <1>2
  <2> QED
    BY <1>4, <2>1
<1>7. /\ content[p] = HexDigit(bytes[o + 1] \div 16) /\ content[p + 1] = HexDigit(bytes[o + 1] % 16)
      /\ content[p + 2] = HexDigit(bytes[o + 2] \div 16) /\ content[p + 3] = HexDigit(bytes[o + 2] % 16)
      /\ content[p + 4] = HexDigit(bytes[o + 3] \div 16) /\ content[p + 5] = HexDigit(bytes[o + 3] % 16)
      /\ content[p + 6] = 10
  <2>1. /\ p + 1 = 7 * j + 2 /\ p + 2 = 7 * j + 3 /\ p + 3 = 7 * j + 4
        /\ p + 4 = 7 * j + 5 /\ p + 5 = 7 * j + 6 /\ p + 6 = 7 * j + 7
    BY <1>2
  <2>2. /\ content[7 * j + 1] = HexDigit(bytes[3 * j + 1] \div 16)
        /\ content[7 * j + 2] = HexDigit(bytes[3 * j + 1] % 16)
        /\ content[7 * j + 3] = HexDigit(bytes[3 * j + 2] \div 16)
        /\ content[7 * j + 4] = HexDigit(bytes[3 * j + 2] % 16)
        /\ content[7 * j + 5] = HexDigit(bytes[3 * j + 3] \div 16)
        /\ content[7 * j + 6] = HexDigit(bytes[3 * j + 3] % 16)
        /\ content[7 * j + 7] = 10
    BY HexTextFacts, Zenon
  <2> QED
    BY <1>2, <2>1, <2>2, Zenon
<1>8. bytes[o + 1] \in Byte /\ bytes[o + 2] \in Byte /\ bytes[o + 3] \in Byte
  <2>1. o + 1 \in 1..Len(bytes) /\ o + 2 \in 1..Len(bytes) /\ o + 3 \in 1..Len(bytes)
    BY <1>2, <1>3
  <2> QED
    BY <2>1, ElementOfSeq
<1>9. /\ Digits2(content, p) /\ ByteOf(content, p) = bytes[o + 1]
      /\ Digits2(content, p + 2) /\ ByteOf(content, p + 2) = bytes[o + 2]
      /\ Digits2(content, p + 4) /\ ByteOf(content, p + 4) = bytes[o + 3]
      /\ ~Digits2(content, p + 6)
  <2>1. ASSUME NEW q, NEW b \in Byte, content[q] = HexDigit(b \div 16),
               content[q + 1] = HexDigit(b % 16)
        PROVE  Digits2(content, q) /\ ByteOf(content, q) = b
    BY <2>1, DigitFacts, Zenon DEF Digits2, ByteOf
  <2>2. /\ content[(p + 2) + 1] = HexDigit(bytes[o + 2] % 16)
        /\ content[(p + 4) + 1] = HexDigit(bytes[o + 3] % 16)
    <3>1. (p + 2) + 1 = p + 3 /\ (p + 4) + 1 = p + 5
      OBVIOUS
    <3> QED
      BY <1>7, <3>1, Zenon
  <2>3. ~Digits2(content, p + 6)
    BY <1>7, DigitFacts, Zenon DEF Digits2
  <2>4. Digits2(content, p) /\ ByteOf(content, p) = bytes[o + 1]
    BY <1>7, <1>8, <2>1, Zenon
  <2>5. Digits2(content, p + 2) /\ ByteOf(content, p + 2) = bytes[o + 2]
    BY <1>7, <1>8, <2>1, <2>2, Zenon
  <2>6. Digits2(content, p + 4) /\ ByteOf(content, p + 4) = bytes[o + 3]
    BY <1>7, <1>8, <2>1, <2>2, Zenon
  <2> QED
    BY <2>3, <2>4, <2>5, <2>6
<1>10. /\ g[p] = <<bytes[o + 1]>> \o g[p + 2]
       /\ g[p + 2] = <<bytes[o + 2]>> \o g[p + 4]
       /\ g[p + 4] = <<bytes[o + 3]>> \o g[p + 6]
  <2>1. /\ p \in 1..n+2 /\ ~(p >= n) /\ p + 2 \in 1..n+2 /\ ~(p + 2 >= n)
        /\ p + 4 \in 1..n+2 /\ ~(p + 4 >= n) /\ (p + 2) + 2 = p + 4 /\ (p + 4) + 2 = p + 6
    BY <1>3
  <2> QED
    BY <1>5, <1>9, <2>1, Zenon
<1>11. g[p + 6] = g[p + 7]
  <2>1. p + 6 \in 1..n+2 /\ p + 7 \in 1..n+2 /\ (p + 6) + 1 = p + 7
        /\ (p + 6 >= n => p + 7 >= n)
    BY <1>3
  <2> QED
    BY <1>5, <1>9, <2>1, Zenon
<1>12. RestOf(bytes, o + 2, g[p + 4])
  <2>1. o + 2 \in 0..Len(bytes)-1 /\ o + 3 = (o + 2) + 1
    BY <1>2, <1>3
  <2> QED
    BY <1>6, <1>10, <1>11, <2>1, RestGrows
<1>13. RestOf(bytes, o + 1, g[p + 2])
  <2>1. o + 1 \in 0..Len(bytes)-1 /\ o + 2 = (o + 1) + 1
    BY <1>2, <1>3
  <2> QED
    BY <1>10, <1>12, <2>1, RestGrows
<1>14. RestOf(bytes, o, g[p])
  <2>1. o \in 0..Len(bytes)-1
    BY <1>2, <1>3
  <2> QED
    BY <1>10, <1>13, <2>1, RestGrows
<1> QED
  BY <1>2, <1>4, <1>14

\* Hex text is decoded to the bytes that it was made of (controller.cpp: assemble, decodeHexString).
LEMMA HexReadsBack ==
  ASSUME NEW bytes \in Seq(Byte), NEW m \in Nat, Len(bytes) = 3 * m
  PROVE  decodeHexString(HexText(bytes)) = bytes
<1>1. PICK content : content = HexText(bytes)
  OBVIOUS
<1> DEFINE Fine(i) == RestOf(bytes, 3 * (m - i), Decoded(content)[7 * (m - i) + 1])
           T == {i \in 0..m : ~Fine(i)}
<1>2. Fine(0)
  <2>1. PICK n \in Nat : n = 7 * m /\ n = Len(content)
    BY <1>1, HexTextFacts
  <2>2. Decoded(content)[n + 1] = <<>>
    <3>1. n + 1 \in 1..n+2 /\ n + 1 >= n
      OBVIOUS
    <3> QED
      BY <2>1, <3>1, DecodeStep
  <2>3. RestOf(bytes, 3 * m, <<>>)
    BY DEF RestOf
  <2>4. 3 * (m - 0) = 3 * m /\ 7 * (m - 0) + 1 = n + 1
    BY <2>1
  <2> QED
    BY <2>2, <2>3, <2>4
<1>3. ASSUME NEW i \in 0..m-1, Fine(i)
      PROVE  Fine(i + 1)
  <2>1. PICK j \in 0..m-1 : j = m - (i + 1)
    <3>1. m - (i + 1) \in 0..m-1
      OBVIOUS
    <3> QED
      BY <3>1
  <2>2. 3 * (m - i) = 3 * j + 3 /\ 7 * (m - i) + 1 = 7 * j + 8
    BY <2>1
  <2>3. RestOf(bytes, 3 * j + 3, Decoded(content)[7 * j + 8])
    BY <1>3, <2>2
  <2> QED
    BY <1>1, <2>1, <2>3, DecodeLine
<1> HIDE DEF Fine
<1>4. T = {}
  <2> SUFFICES ASSUME T # {} PROVE FALSE
    OBVIOUS
  <2>1. PICK k \in T : \A y \in T : k <= y
    <3>1. T \in SUBSET Nat
      OBVIOUS
    <3> HIDE DEF T
    <3> QED
      BY <3>1, FirstPlace
  <2>2. k \in 0..m /\ ~Fine(k) /\ k # 0
    BY <1>2, <2>1
  <2>3. PICK i \in 0..m-1 : k = i + 1 /\ i \in 0..m /\ ~(k <= i)
    <3>1. k - 1 \in 0..m-1 /\ k = (k - 1) + 1 /\ k - 1 \in 0..m /\ ~(k <= k - 1)
      BY <2>2
    <3> QED
      BY <3>1
  <2>4. Fine(i)
    <3>1. i \notin T
      <4> HIDE DEF T
      <4> QED
        BY <2>1, <2>3
    <3> QED
      BY <2>3, <3>1
  <2> QED
    BY <1>3, <2>2, <2>3, <2>4
<1>5. RestOf(bytes, 0, Decoded(content)[1])
  <2>1. Fine(m)
    BY <1>4
  <2>2. 3 * (m - m) = 0 /\ 7 * (m - m) + 1 = 1
    OBVIOUS
  <2> QED
    BY <2>1, <2>2 DEF Fine
<1>6. PICK rest : rest = Decoded(content)[1]
  OBVIOUS
<1>7. /\ rest \in Seq(Byte) /\ Len(rest) = Len(bytes)
      /\ \A x \in 1..Len(bytes) : rest[x] = bytes[x]
  BY <1>5, <1>6 DEF RestOf
<1>8. rest = bytes
  BY <1>7, SeqEqual
<1> QED
  BY <1>1, <1>6, <1>8, DecodedIsThat

\* For every program of instructions that have an encoding, the file that is written
\* is read back as that program, as bytes and as hex text: each instruction with its
\* condition and operands, but for the condition of a NOP (MicroWriter::bake,
\* assemble, decodeHexString, MicroReader::toProgram).
THEOREM ProgramFilesReadBack ==
  ASSUME NEW S, NEW puts \in Seq(S),
         \A n \in DOMAIN puts : Put(puts[n]) \in Instruction /\ Put(puts[n]).op # "EXT"
  PROVE  /\ decodeHexString(HexText(Bytes(puts))) = Bytes(puts)
         /\ Readable(Bytes(puts))
         /\ toProgram(Bytes(puts)) = [n \in DOMAIN puts |-> ReadBack(Put(puts[n]))]
<1>1. PICK m \in Nat : m = Len(puts)
  BY LenProperties
<1>2. Bytes(puts) \in Seq(Byte) /\ Len(Bytes(puts)) = 3 * m
  BY <1>1, ImageReadsBack DEF Byte
<1>3. decodeHexString(HexText(Bytes(puts))) = Bytes(puts)
  BY <1>2, HexReadsBack
<1> QED
  BY <1>3, ImageReadsBack

(***************************************************************************)
(* The assembler within a process is the assembler by itself.              *)
(***************************************************************************)

\* The assembler with its proofs, on the state of a process.
AP == INSTANCE AssemblerProofs WITH Sources <- {}

\* Every instance counts the same.
LEMMA SameCardinality == \A S : A!Cardinality(S) = AP!Cardinality(S) /\ Cardinality(S) = AP!Cardinality(S)
  BY Zenon DEF Cardinality, A!Cardinality, AP!Cardinality


\* Each turn of the assembler is one of the instance that was proved about.
LEMMA SameTurns ==
  /\ A!SkipBreak => AP!SkipBreak
  /\ A!OpenBlock => AP!OpenBlock
  /\ A!BrokenHead => AP!BrokenHead
  /\ A!CloseBlock => AP!CloseBlock
  /\ A!DefineLabel => AP!DefineLabel
  /\ A!Finish => AP!Finish
<1> USE DEF A!Parsing, AP!Parsing, A!Empty, AP!Empty, A!Token, AP!Token, A!Parser, AP!Parser,
  A!AdvanceTo, AP!AdvanceTo, A!Is, AP!Is, A!writerVars, AP!writerVars
<1>1. A!SkipBreak => AP!SkipBreak
  BY Zenon DEF A!SkipBreak, AP!SkipBreak
<1>2. A!OpenBlock => AP!OpenBlock
  BY Zenon DEF A!OpenBlock, AP!OpenBlock, A!HasHead, AP!HasHead, A!conditions, AP!conditions,
    A!Block, AP!Block, A!First, AP!First, A!Count, AP!Count, A!Cardinality, AP!Cardinality,
    A!PushCondition, AP!PushCondition
<1>3. A!BrokenHead => AP!BrokenHead
  BY Zenon DEF A!BrokenHead, AP!BrokenHead, A!HasHead, AP!HasHead, A!Raise, AP!Raise
<1>4. A!CloseBlock => AP!CloseBlock
  BY Zenon DEF A!CloseBlock, AP!CloseBlock, A!PopCondition, AP!PopCondition
<1>5. A!DefineLabel => AP!DefineLabel
  BY Zenon DEF A!DefineLabel, AP!DefineLabel, A!Name, AP!Name, A!PutLabel, AP!PutLabel,
    A!INSTRUCTION_SIZE, AP!INSTRUCTION_SIZE
<1>6. A!Finish => AP!Finish
  BY Zenon DEF A!Finish, AP!Finish, A!Bake, AP!Bake, A!Target, AP!Target,
    A!INSTRUCTION_SIZE, AP!INSTRUCTION_SIZE
<1> QED
  BY <1>1, <1>2, <1>3, <1>4, <1>5, <1>6

\* And so is each turn on a statement.
LEMMA SameStatementTurns ==
  /\ A!BrokenStatement => AP!BrokenStatement
  /\ A!WriteOperation => AP!WriteOperation
  /\ A!WriteJump => AP!WriteJump
  /\ A!RejectStatement => AP!RejectStatement
<1> USE DEF A!Parsing, AP!Parsing, A!Empty, AP!Empty, A!Token, AP!Token, A!Parser, AP!Parser,
  A!AdvanceTo, AP!AdvanceTo, A!Is, AP!Is, A!writerVars, AP!writerVars,
  A!AtStatement, AP!AtStatement, A!WellHeaded, AP!WellHeaded, A!Headed, AP!Headed,
  A!Statement, AP!Statement, A!Leading, AP!Leading, A!Rest, AP!Rest, A!Until, AP!Until,
  A!First, AP!First, A!KnownStatement, AP!KnownStatement, A!conditions, AP!conditions,
  A!Operands, AP!Operands, A!Binary, AP!Binary, A!Immediate, AP!Immediate, A!ToLabel, AP!ToLabel
<1>1. A!BrokenStatement => AP!BrokenStatement
  BY Zenon DEF A!BrokenStatement, AP!BrokenStatement, A!Raise, AP!Raise
<1>2. A!WriteOperation => AP!WriteOperation
  BY Zenon DEF A!WriteOperation, AP!WriteOperation, A!Follows, AP!Follows, A!PutOp, AP!PutOp,
    A!StatementCondition, AP!StatementCondition, A!Top, AP!Top, A!Arguments, AP!Arguments
<1>3. A!WriteJump => AP!WriteJump
  BY Zenon DEF A!WriteJump, AP!WriteJump, A!PutLink, AP!PutLink, A!PutOp, AP!PutOp,
    A!StatementCondition, AP!StatementCondition, A!Top, AP!Top, A!Name, AP!Name
<1>4. A!RejectStatement => AP!RejectStatement
  BY Zenon DEF A!RejectStatement, AP!RejectStatement, A!Follows, AP!Follows
<1> QED
  BY <1>1, <1>2, <1>3, <1>4

\* So whatever the assembler does here was proved about.
LEMMA SameNext == A!Next => AP!Next
  BY SameTurns, SameStatementTurns DEF A!Next, AP!Next

\* What a source means is the same there: its statements,
LEMMA SameStatements == Source(tokens)!Statements = AP!Statements
  BY Zenon DEF Source!Places, AP!Places, Source!LineStart, AP!LineStart,
    Source!StatementAt, AP!StatementAt, Source!Line, AP!Line, Source!Is, AP!Is,
    Source!JumpToLabel, AP!JumpToLabel, Source!conditions, AP!conditions, Source!Operands,
    AP!Operands, Source!Binary, AP!Binary, Source!Immediate, AP!Immediate, Source!Statements, AP!Statements

\* what makes it well formed,
LEMMA SameWellFormed == Source(tokens)!WellFormed <=> AP!WellFormed
<1>1. Source(tokens)!LinesWellFormed <=> AP!LinesWellFormed
  BY Zenon DEF Source!LinesWellFormed, AP!LinesWellFormed, Source!Places, AP!Places,
    Source!LineStart, AP!LineStart, Source!Header, AP!Header, Source!StatementAt, AP!StatementAt,
    Source!Line, AP!Line, Source!Is, AP!Is, Source!JumpToLabel, AP!JumpToLabel,
    Source!conditions, AP!conditions, Source!Operands, AP!Operands, Source!Binary, AP!Binary,
    Source!Immediate, AP!Immediate
<1>2. Source(tokens)!LabelsWellFormed <=> AP!LabelsWellFormed
  BY Zenon, SameStatements DEF Source!LabelsWellFormed, AP!LabelsWellFormed, Source!Places, AP!Places,
    Source!LabelsAt, AP!LabelsAt, Source!Name, AP!Name, Source!JumpToLabel, AP!JumpToLabel,
    Source!Line, AP!Line
<1>3. Source(tokens)!Balanced(1, Len(tokens)) <=> AP!Balanced(1, Len(tokens))
  BY Zenon DEF Source!Balanced, AP!Balanced, Source!Count, AP!Count, Source!Is, AP!Is,
    Source!Cardinality, AP!Cardinality
<1> QED
  BY <1>1, <1>2, <1>3 DEF Source!WellFormed, AP!WellFormed

\* and its meaning.
LEMMA SameMeaning == Source(tokens)!Meaning = AP!Meaning
<1> USE DEF Source!Statements, AP!Statements, Source!Places, AP!Places, Source!LineStart, AP!LineStart,
  Source!StatementAt, AP!StatementAt, Source!Line, AP!Line, Source!Is, AP!Is,
  Source!JumpToLabel, AP!JumpToLabel, Source!conditions, AP!conditions, Source!Operands,
  AP!Operands, Source!Binary, AP!Binary, Source!Immediate, AP!Immediate,
  Source!StatementsBefore, AP!StatementsBefore, Source!Cardinality, AP!Cardinality
<1> QED
  BY Zenon DEF Source!Meaning, AP!Meaning, Source!MeantCondition, AP!MeantCondition,
    Source!Enclosing, AP!Enclosing, Source!Balanced, AP!Balanced, Source!Count, AP!Count,
    Source!MeantArguments, AP!MeantArguments, Source!LabelsAt, AP!LabelsAt,
    Source!Name, AP!Name, Source!Arguments, AP!Arguments

(***************************************************************************)
(* What reaches the assembler from the text.                               *)
(***************************************************************************)

\* The character that numbers may be grouped with.
separator == "'"

\* What register sets and numbers are made of.
RegisterWord(lexeme) == \A n \in 2..Len(lexeme) : lexeme[n] \in octal

\* A number has digits of its base behind its prefix, and separators.
NumberWord(lexeme) ==
  /\ Len(lexeme) \in Nat /\ NumberForm(lexeme).from - 1 <= Len(lexeme)
  /\ NumberForm(lexeme).from \in {1, 3} /\ NumberForm(lexeme).base \in {2, 8, 10, 16}
  /\ \A n \in NumberForm(lexeme).from..Len(lexeme) :
       lexeme[n] \in DigitsOf(NumberForm(lexeme).base) \cup {separator}

\* The register sets and the numbers of a source are that.
Worded(source) ==
  \A n \in DOMAIN source :
    /\ source[n].type = "REGSET" => RegisterWord(source[n].lexeme)
    /\ source[n].type = "INTEGER" => NumberWord(source[n].lexeme)

\* The forms of numbers, one by one.
LEMMA NumberForms ==
  ASSUME NEW l, Len(l) \in Nat
  PROVE  /\ Len(l) > 1 /\ l[2] = "x" => NumberForm(l) = [base |-> 16, from |-> 3]
         /\ Len(l) > 1 /\ l[2] = "o" => NumberForm(l) = [base |-> 8, from |-> 3]
         /\ Len(l) > 1 /\ l[2] = "b" => NumberForm(l) = [base |-> 2, from |-> 3]
         /\ ~(Len(l) > 1 /\ l[2] \in {"x", "o", "b"}) => NumberForm(l) = [base |-> 10, from |-> 1]
<1>1. CASE Len(l) > 1 /\ l[2] = "x"
  BY <1>1 DEF NumberForm
<1>2. CASE Len(l) > 1 /\ l[2] = "o"
  BY <1>2 DEF NumberForm
<1>3. CASE Len(l) > 1 /\ l[2] = "b"
  BY <1>3 DEF NumberForm
<1>4. CASE ~(Len(l) > 1 /\ l[2] \in {"x", "o", "b"})
  BY <1>4 DEF NumberForm
<1> QED
  BY <1>1, <1>2, <1>3, <1>4

\* The characters from one place up to another.
Spelt(l, b, e) == Len(l) = e - b /\ \A k \in 1..e-b : l[k] = At(b + k - 1)

\* The characters of a token.
LEMMA Characters ==
  ASSUME ScanInv, NEW b \in Nat, NEW e \in Nat, b <= e, e <= Len(text)
  PROVE  Spelt(SubSeq(text, b + 1, e), b, e)
<1> DEFINE l == SubSeq(text, b + 1, e)
<1>1. PICK n \in Nat : n = Len(text)
  BY LenProperties DEF ScanInv, IsText
<1>2. \A i \in b+1..e : text[i] \in STRING
  <2>1. \A i \in b+1..e : i \in 1..n
    BY <1>1
  <2> QED
    BY <1>1, <2>1, ElementOfSeq DEF ScanInv, IsText
<1>3. Len(l) = e - b
  <2>1. Len(l) = IF b + 1 <= e THEN e - (b + 1) + 1 ELSE 0
    BY <1>2, SubSeqProperties
  <2> QED
    BY <2>1
<1>4. ASSUME NEW k \in 1..e-b PROVE l[k] = At(b + k - 1)
  <2>1. l[k] = text[(b + 1) + k - 1]
    <3>1. \A i \in 1..((e - (b + 1)) + 1) : l[i] = text[(b + 1) + i - 1]
      BY <1>2, SubSeqProperties
    <3>2. k \in 1..((e - (b + 1)) + 1)
      OBVIOUS
    <3> QED
      BY <3>1, <3>2
  <2>2. (b + 1) + k - 1 = (b + k - 1) + 1 /\ b + k - 1 < n
    BY <1>1
  <2> QED
    BY <1>1, <2>1, <2>2 DEF At
<1> QED
  BY <1>3, <1>4 DEF Spelt

\* A register set's registers are octal digits.
LEMMA RegisterWords ==
  ASSUME ScanInv, NEW b \in Nat, NEW e \in Nat, b <= e, e <= Len(text),
         b < Len(text) => Lexeme("REGSET", b, e),
         NEW l, Spelt(l, b, e)
  PROVE  RegisterWord(l)
<1>1. Len(l) = e - b /\ \A k \in 1..e-b : l[k] = At(b + k - 1)
  BY DEF Spelt
<1>2. Len(text) \in Nat
  BY LenProperties DEF ScanInv, IsText
<1>3. ASSUME NEW n \in 2..Len(l) PROVE l[n] \in octal
  <2>1. b < Len(text) /\ n \in 1..e-b /\ b + n - 1 \in b+1..e-1
    BY <1>1, <1>2
  <2>2. All(b + 1, e, octal)
    BY <2>1, LexemeForms
  <2>3. At(b + n - 1) \in octal
    BY <2>1, <2>2 DEF All
  <2> QED
    BY <1>1, <2>1, <2>3
<1> QED
  BY <1>3 DEF RegisterWord

\* A number's characters are its prefix, digits of its base and separators.
LEMMA NumberWords ==
  ASSUME ScanInv, NEW b \in Nat, NEW e \in Nat, b <= e, e <= Len(text),
         b < Len(text) => Lexeme("INTEGER", b, e),
         NEW l, Spelt(l, b, e)
  PROVE  NumberWord(l)
<1>1. Len(l) = e - b /\ Len(l) \in Nat /\ \A k \in 1..e-b : l[k] = At(b + k - 1)
  BY DEF Spelt
<1>2. Len(text) \in Nat
  BY LenProperties DEF ScanInv, IsText
<1>3. CASE b >= Len(text)
  <2>1. Len(l) = 0 /\ NumberForm(l) = [base |-> 10, from |-> 1]
    BY <1>1, <1>2, <1>3, NumberForms
  <2> QED
    BY <2>1 DEF NumberWord
<1>4. CASE b < Len(text) /\ e > b /\ IsNumber(b, e, decimal)
  <2>1. \A k \in 1..e-b : l[k] \in decimal \cup {separator}
    <3> SUFFICES ASSUME NEW k \in 1..e-b PROVE l[k] \in decimal \cup {separator}
      OBVIOUS
    <3>1. b + k - 1 \in b..e-1
      OBVIOUS
    <3>2. At(b + k - 1) \in decimal \cup {separator}
      BY <1>4, <3>1, Zenon DEF IsNumber, All, separator
    <3> QED
      BY <1>1, <3>2
  <2>2. {"x", "o", "b"} \cap (decimal \cup {separator}) = {}
    BY DigitClasses DEF separator
  <2>3. ~(Len(l) > 1 /\ l[2] \in {"x", "o", "b"})
    <3>1. Len(l) > 1 => 2 \in 1..e-b
      BY <1>1
    <3> QED
      BY <2>1, <2>2, <3>1
  <2>4. NumberForm(l) = [base |-> 10, from |-> 1]
    BY <1>1, <2>3, NumberForms
  <2> QED
    BY <1>1, <2>1, <2>4 DEF NumberWord, decimal
<1>5. CASE b < Len(text) /\ e >= b + 2 /\ At(b + 1) \in DOMAIN radix
           /\ IsNumber(b + 2, e, radix[At(b + 1)])
  <2>1. Len(l) > 1 /\ l[2] = At(b + 1)
    <3>1. 2 \in 1..e-b /\ b + 2 - 1 = b + 1
      BY <1>5
    <3> QED
      BY <1>1, <1>5, <3>1
  <2>2. \A k \in 3..e-b : l[k] \in radix[l[2]] \cup {separator}
    <3> SUFFICES ASSUME NEW k \in 3..e-b PROVE l[k] \in radix[l[2]] \cup {separator}
      OBVIOUS
    <3>1. b + k - 1 \in b+2..e-1 /\ k \in 1..e-b
      OBVIOUS
    <3>2. At(b + k - 1) \in radix[l[2]] \cup {separator}
      BY <1>5, <2>1, <3>1, Zenon DEF IsNumber, All, separator
    <3> QED
      BY <1>1, <3>1, <3>2
  <2>3. l[2] \in {"x", "o", "b"}
    BY <1>5, <2>1, Classes
  <2>4. CASE l[2] = "x"
    <3>1. NumberForm(l) = [base |-> 16, from |-> 3] /\ radix[l[2]] = DigitsOf(16)
      BY <1>1, <2>1, <2>4, NumberForms DEF radix, hexadecimal
    <3> QED
      BY <1>1, <1>5, <2>2, <3>1 DEF NumberWord
  <2>5. CASE l[2] = "o"
    <3>1. NumberForm(l) = [base |-> 8, from |-> 3] /\ radix[l[2]] = DigitsOf(8)
      BY <1>1, <2>1, <2>5, NumberForms DEF radix, octal
    <3> QED
      BY <1>1, <1>5, <2>2, <3>1 DEF NumberWord
  <2>6. CASE l[2] = "b"
    <3>1. NumberForm(l) = [base |-> 2, from |-> 3] /\ radix[l[2]] = DigitsOf(2)
      BY <1>1, <2>1, <2>6, NumberForms DEF radix
    <3> QED
      BY <1>1, <1>5, <2>2, <3>1 DEF NumberWord
  <2> QED
    BY <2>3, <2>4, <2>5, <2>6
<1>6. b < Len(text) =>
        \/ e > b /\ IsNumber(b, e, decimal)
        \/ e >= b + 2 /\ At(b + 1) \in DOMAIN radix /\ IsNumber(b + 2, e, radix[At(b + 1)])
  BY LexemeForms, Zenon
<1> QED
  BY <1>2, <1>3, <1>4, <1>5, <1>6

\* A token keeps its type as it is read, and a number or a register set its characters.
LEMMA ReadKeeps ==
  ASSUME NEW token
  PROVE  /\ Read(token).type = token.type
         /\ token.type \in {"REGSET", "INTEGER"} =>
              Read(token).lexeme = SubSeq(text, token.begin + 1, token.end)
<1> DEFINE characters == SubSeq(text, token.begin + 1, token.end)
           dots == {n \in DOMAIN characters : characters[n] = "."}
<1> HIDE DEF characters, dots
<1>1. ASSUME token.type = "IDENTIFIER" PROVE Read(token).type = token.type
  <2>1. CASE dots # {}
    BY <1>1, <2>1, Zenon DEF Read, characters, dots
  <2>2. CASE dots = {}
    BY <1>1, <2>2, Zenon DEF Read, characters, dots
  <2> QED
    BY <2>1, <2>2
<1>2. ASSUME token.type = "LABEL" PROVE Read(token).type = token.type
  BY <1>2, Zenon DEF Read
<1>3. ASSUME token.type # "LABEL", token.type # "IDENTIFIER"
      PROVE  Read(token).type = token.type /\ Read(token).lexeme = characters
  BY <1>3, Zenon DEF Read, characters
<1>4. token.type \in {"REGSET", "INTEGER"} => token.type # "LABEL" /\ token.type # "IDENTIFIER"
  OBVIOUS
<1>5. Read(token).type = token.type
  BY <1>1, <1>2, <1>3, Zenon
<1>6. token.type \in {"REGSET", "INTEGER"} => Read(token).lexeme = characters
  BY <1>3, <1>4, Zenon
<1> QED
  BY <1>5, <1>6, Zenon DEF characters

\* What the tokenizer hands on is a source for the assembler.
LEMMA ReadsSource ==
  ASSUME ScanInv, GapInv, scan = "done",
         NEW source, source = [n \in DOMAIN sink |-> Read(sink[n])]
  PROVE  AP!IsSource(source) /\ Worded(source) /\ Len(source) = Len(sink)
<1>1. PICK m \in Nat : m = Len(sink) /\ DOMAIN sink = 1..m
  BY LenProperties DEF ScanInv
<1>2. \A n \in 1..m : sink[n] \in Tokens /\ source[n] = Read(sink[n])
  BY <1>1, ElementOfSeq DEF ScanInv
<1>3. source \in Seq({source[n] : n \in DOMAIN source}) /\ Len(source) = m /\ DOMAIN source = 1..m
  <2> DEFINE S == {source[n] : n \in DOMAIN source}
  <2>1. DOMAIN source = 1..m /\ source = [n \in 1..m |-> source[n]]
    BY <1>1
  <2>2. \A n \in 1..m : source[n] \in S
    BY <2>1
  <2> HIDE DEF S
  <2>3. source \in [1..m -> S]
    BY <2>1, <2>2
  <2>4. source \in Seq(S) /\ Len(source) = m
    BY <2>3, SeqDef, <2>1
  <2> QED
    BY <2>1, <2>4 DEF S
<1>4. \A n \in 1..m : source[n].type = sink[n].type
  BY <1>2, ReadKeeps
<1>5. \A n \in DOMAIN source : source[n].type \in AP!TokenTypes
  BY <1>2, <1>3, <1>4 DEF Tokens, ScannedTypes, AP!TokenTypes
<1>6. m > 0 /\ source[m].type = "BREAK"
  <2>1. sink # <<>> /\ sink[m] = Token("BREAK", Len(text), Len(text))
    BY <1>1 DEF GapInv
  <2>2. m > 0
    <3>1. Len(sink) # 0
      BY <2>1, EmptySeq DEF ScanInv
    <3> QED
      BY <1>1, <3>1
  <2>3. m \in 1..m /\ sink[m].type = "BREAK"
    BY <2>1, <2>2 DEF Token
  <2> QED
    BY <1>4, <2>2, <2>3
<1>7. source # <<>>
  BY <1>3, <1>6
<1>8. Worded(source)
  <2> SUFFICES ASSUME NEW n \in 1..m
               PROVE  /\ source[n].type = "REGSET" => RegisterWord(source[n].lexeme)
                      /\ source[n].type = "INTEGER" => NumberWord(source[n].lexeme)
    BY <1>3 DEF Worded
  <2>1. PICK t : t = sink[n]
    OBVIOUS
  <2>2. t \in Tokens /\ source[n].type = t.type
    BY <1>2, <1>4, <2>1
  <2>3. PICK b \in Nat : b = t.begin
    BY <2>2 DEF Tokens
  <2>4. PICK e \in Nat : e = t.end
    BY <2>2 DEF Tokens
  <2>5. b <= e /\ e <= Len(text)
    <3>1. t.begin <= t.end /\ t.end <= offset
      BY <1>1, <2>1 DEF ScanInv, Ordered
    <3>2. offset \in 0..Len(text) /\ Len(text) \in Nat
      BY LenProperties DEF ScanInv, IsText
    <3> QED
      BY <2>3, <2>4, <3>1, <3>2
  <2>6. b < Len(text) => Lexeme(t.type, b, e)
    BY <1>1, <2>1, <2>3, <2>4 DEF ScanInv, Words, IsWord
  <2>7. t.type \in {"REGSET", "INTEGER"} => source[n].lexeme = SubSeq(text, b + 1, e)
    BY <1>2, <2>1, <2>3, <2>4, ReadKeeps
  <2>8. Spelt(SubSeq(text, b + 1, e), b, e)
    BY <2>5, Characters
  <2>9. CASE t.type = "REGSET"
    BY <2>2, <2>5, <2>6, <2>7, <2>8, <2>9, RegisterWords
  <2>10. CASE t.type = "INTEGER"
    BY <2>2, <2>5, <2>6, <2>7, <2>8, <2>10, NumberWords
  <2> QED
    BY <2>2, <2>9, <2>10
<1> QED
  BY <1>1, <1>3, <1>5, <1>6, <1>7, <1>8 DEF AP!IsSource

(***************************************************************************)
(* What holds of the assembler within a process.                           *)
(***************************************************************************)

\* A program of known mnemonics and conditions.
Known(baked) ==
  /\ Len(baked) \in Nat
  /\ \A n \in 1..Len(baked) :
       baked[n].op \in DOMAIN AP!Operands /\ baked[n].cond \in AP!conditions

\* What holds of the assembler while a process is in it.
AsmInv ==
  /\ failed \in BOOLEAN
  /\ stage = "assembling" =>
       AP!AssemblyInv /\ Worded(tokens) /\ (phase = "done" => Known(result))

\* The assembler's lemmas, for the process's assembler.
LEMMA AssemblerHolds ==
  /\ AP!IsSource(tokens) /\ AP!Start => AP!AssemblyInv
  /\ AP!IsSource(tokens)' /\ AP!Start' => AP!AssemblyInv'
  /\ AP!AssemblyInv /\ [AP!Next]_(AP!vars) => AP!AssemblyInv'
<1>1. \A source \in {} : AP!IsSource(source)
  OBVIOUS
<1>2. AP!IsSource(tokens) /\ AP!Start => AP!AssemblyInv
  BY <1>1, OffsetAssumption, AP!AssemblyStart
<1>3. AP!AssemblyInv /\ [AP!Next]_(AP!vars) => AP!AssemblyInv'
  BY <1>1, OffsetAssumption, AP!AssemblyStep
<1>4. (AP!IsSource(tokens) /\ AP!Start => AP!AssemblyInv)'
  BY <1>2, PTL
<1> QED
  BY <1>2, <1>3, <1>4

\* What is baked is of known mnemonics (bake).
LEMMA BakedKnown == ASSUME AP!CodeInv PROVE Known(AP!Bake)
<1>1. PICK m \in Nat : m = Len(code) /\ DOMAIN code = 1..m
  BY LenProperties DEF AP!CodeInv
<1>2. PICK baked : baked = AP!Bake
  OBVIOUS
<1>3. Len(baked) = m
  BY <1>1, <1>2 DEF AP!Bake
<1>4. ASSUME NEW n \in 1..m
      PROVE  baked[n].op \in DOMAIN AP!Operands /\ baked[n].cond \in AP!conditions
  <2>1. code[n] \in AP!Instructions(tokens)
    BY <1>1, ElementOfSeq DEF AP!CodeInv
  <2>2. PICK i : i = code[n]
    OBVIOUS
  <2>3. i \in AP!Instructions(tokens)
    BY <2>1, <2>2
  <2>4. baked[n] = IF \E link \in links : link.at = n
                   THEN [i EXCEPT !.args = <<AP!Target((CHOOSE link \in links : link.at = n).label)>>]
                   ELSE i
    BY <1>1, <1>2, <2>2, Zenon DEF AP!Bake
  <2>5. /\ \A x : [i EXCEPT !.args = x].op = i.op /\ [i EXCEPT !.args = x].cond = i.cond
        /\ i.op \in DOMAIN AP!Operands /\ i.cond \in AP!conditions
    BY <2>3 DEF AP!Instructions
  <2> QED
    BY <2>4, <2>5
<1> QED
  BY <1>2, <1>3, <1>4 DEF Known

\* A turn of the assembler.
LEMMA AsmTurn == ASSUME AsmInv, Assemble PROVE AsmInv'
<1>1. stage = "assembling" /\ A!Next
  BY DEF Assemble
<1>2. AP!AssemblyInv /\ Worded(tokens) /\ AP!Next
  BY <1>1, SameNext DEF AsmInv
<1>3. AP!AssemblyInv'
  BY <1>2, AssemblerHolds
<1>4. failed' \in BOOLEAN
  BY <1>3 DEF AP!AssemblyInv, AP!CodeInv
<1>5. Worded(tokens)'
  <2>1. tokens' = tokens
    BY <1>2, AP!SourceKept, OffsetAssumption
  <2> QED
    BY <1>2, <2>1
<1>6. ASSUME phase' = "done" PROVE Known(result')
  <2>1. CASE AP!Finish
    <3>1. result' = <<>> \/ result' = AP!Bake
      BY <2>1 DEF AP!Finish
    <3>2. Known(<<>>)
      BY DEF Known
    <3>3. Known(AP!Bake)
      BY <1>2, BakedKnown DEF AP!AssemblyInv
    <3> QED
      BY <3>1, <3>2, <3>3
  <2>2. CASE AP!CloseBlock
    BY <1>6, <2>2 DEF AP!CloseBlock
  <2>3. CASE AP!BrokenHead \/ AP!BrokenStatement
    BY <1>6, <2>3 DEF AP!BrokenHead, AP!BrokenStatement, AP!Raise
  <2>4. CASE AP!SkipBreak \/ AP!OpenBlock \/ AP!DefineLabel
    BY <1>6, <2>4 DEF AP!SkipBreak, AP!OpenBlock, AP!DefineLabel, AP!Parsing
  <2>5. CASE AP!WriteOperation \/ AP!WriteJump \/ AP!RejectStatement
    BY <1>6, <2>5 DEF AP!WriteOperation, AP!WriteJump, AP!RejectStatement, AP!WellHeaded,
      AP!AtStatement, AP!Parsing
  <2> QED
    BY <1>2, <2>1, <2>2, <2>3, <2>4, <2>5 DEF AP!Next
<1> QED
  BY <1>3, <1>4, <1>5, <1>6 DEF AsmInv

\* The assembler is given the tokenizer's tokens (assemble).
LEMMA AsmBegins == ASSUME TextInv, GapInv, AsmInv, StartParsing PROVE AsmInv'
<1>1. failed' = failed /\ failed \in BOOLEAN
  BY DEF StartParsing, tokenizerVars, AsmInv
<1>2. CASE failed
  <2>1. stage' = "exited"
    BY <1>2 DEF StartParsing, GiveUp, Exit
  <2> QED
    BY <1>1, <2>1 DEF AsmInv
<1>3. CASE ~failed
  <2>1. /\ tokens' = [n \in DOMAIN sink |-> Read(sink[n])]
        /\ parsers' = <<[offset |-> 1, end |-> Len(sink) + 1]>>
        /\ defined' = {} /\ used' = {} /\ failed' = FALSE
        /\ phase' = "parsing" /\ result' = <<>>
        /\ stack' = <<"t">> /\ code' = <<>> /\ links' = {}
        /\ labels' = [name \in {} |-> 0]
    BY <1>1, <1>3 DEF StartParsing
  <2>2. PICK source : source = [n \in DOMAIN sink |-> Read(sink[n])]
    OBVIOUS
  <2>3. tokens' = source /\ AP!IsSource(source) /\ Worded(source) /\ Len(source) = Len(sink)
    <3>1. ScanInv /\ GapInv /\ scan = "done"
      BY DEF TextInv, StartParsing
    <3> QED
      BY <2>1, <2>2, <3>1, ReadsSource
  <2>5. AP!Start'
    BY <2>1, <2>3 DEF AP!Start, AP!WriterInit
  <2>6. AP!IsSource(tokens)' /\ Worded(tokens)'
    BY <2>3
  <2>7. AP!AssemblyInv'
    BY <2>5, <2>6, AssemblerHolds
  <2> QED
    BY <1>1, <2>1, <2>6, <2>7 DEF AsmInv
<1> QED
  BY <1>2, <1>3

\* Every other step leaves the assembler, or leaves it alone.
LEMMA AsmStep == TextInv /\ GapInv /\ AsmInv /\ [Next]_vars => AsmInv'
<1> SUFFICES ASSUME TextInv, GapInv, AsmInv, [Next]_vars PROVE AsmInv'
  OBVIOUS
<1> USE DEF AsmInv, Exit, GiveUp, tokenizerVars
<1>1. CASE Invoke \/ RefuseArguments \/ NoTask
  BY <1>1 DEF Invoke, RefuseArguments, NoTask
<1>2. CASE ReadArguments
  BY <1>2 DEF ReadArguments, processVars
<1>3. CASE StartAssembling
  BY <1>3 DEF StartAssembling
<1>4. CASE ReadText
  <2>1. stage' = "tokenizing"
    BY <1>4 DEF ReadText, processVars
  <2>2. failed' \in BOOLEAN
    <3>1. Tokenize
      BY <1>4 DEF ReadText
    <3>2. CASE \/ ScanBreak \/ ScanSymbol \/ Unreachable
               \/ ScanIdentifierOrLabel \/ ScanInteger \/ ScanRegisterSet
      BY <3>2, RootOutcomes DEF Emit, RaiseWith
    <3>3. CASE SkipWhitespace \/ EnterComment \/ EnterString \/ EndOfText
      BY <3>3 DEF SkipWhitespace, SkipTo, EnterComment, EnterString, EndOfText
    <3>4. CASE TurnInline \/ TurnComment
      BY <3>4 DEF TurnInline, TurnComment, SkipTo, LeaveComment
    <3>5. CASE TurnString
      BY <3>5 DEF TurnString, RaiseAt, RaiseWith
    <3> QED
      BY <3>1, <3>2, <3>3, <3>4, <3>5 DEF Tokenize
  <2> QED
    BY <2>1, <2>2
<1>5. CASE StartParsing
  BY <1>5, AsmBegins
<1>6. CASE Assemble
  BY <1>6, AsmTurn
<1>7. CASE Abort \/ WriteFile \/ MissingFile
  BY <1>7 DEF Abort, WriteFile, MissingFile
<1>8. CASE RunAssembled \/ RunLoaded
  BY <1>8 DEF RunAssembled, RunLoaded, Emulate
<1>9. CASE Disassemble \/ Quit
  BY <1>9 DEF Disassemble, Quit
<1>10. CASE UNCHANGED vars
  <2>1. UNCHANGED <<stage, failed, tokens, phase, result>> /\ UNCHANGED AP!vars
    BY <1>10 DEF vars, processVars, assemblerVars, AP!vars, AP!parserVars, AP!writerVars
  <2>2. ASSUME AP!AssemblyInv PROVE AP!AssemblyInv'
    BY <2>1, <2>2, AssemblerHolds
  <2> QED
    BY <2>1, <2>2
<1> QED
  BY <1>1, <1>2, <1>3, <1>4, <1>5, <1>6, <1>7, <1>8, <1>9, <1>10 DEF Next, Process

\* Nothing is assembled at the start.
LEMMA AsmInit == Init => AsmInv
  BY DEF Init, AsmInv

(***************************************************************************)
(* Files hold bytes and programs are of instructions.                      *)
(***************************************************************************)

\* Whatever is read as a number is cut to a byte.
LEMMA ValIsByte == ASSUME NEW x PROVE Val(x) \in Byte
<1>1. PICK bit : bit = [i \in 0..7 |-> IF i \in x THEN 1 ELSE 0]
  OBVIOUS
<1>2. \A i \in 0..7 : bit[i] \in {0, 1}
  BY <1>1
<1>3. Val(x) = bit[0] + 2 * bit[1] + 4 * bit[2] + 8 * bit[3] + 16 * bit[4] + 32 * bit[5]
               + 64 * bit[6] + 128 * bit[7]
  BY <1>1 DEF Val
<1> QED
  BY <1>2, <1>3 DEF Byte

\* A known mnemonic is put as an operation of the instruction set, never as the
\* extension point.
LEMMA PutOps ==
  ASSUME NEW m, m.op \in DOMAIN AP!Operands
  PROVE  Put(m).op \in Ops \ {"EXT"}
<1>1. DOMAIN AP!Operands = {"nop", "cid", "set", "ctr", "shr", "ldm", "stm", "jmp", "nad", "and",
                            "xor", "mov", "add", "cmp"}
  BY DEF AP!Operands
<1>2. Put(m).op = IF m.op # "jmp" THEN opcodeOf[m.op]
                  ELSE IF m.op = "jmp" /\ Len(m.args) = 1 THEN "JPI" ELSE "JPR"
  BY Zenon DEF Put
<1>3. CASE m.op = "jmp"
  BY <1>2, <1>3 DEF Ops, JumpOps
<1>4. CASE m.op # "jmp"
  <2>1. opcodeOf[m.op] \in Ops \ {"EXT"}
    <3>1. /\ opcodeOf.nop = "NOP" /\ opcodeOf.set = "SET" /\ opcodeOf.ldm = "LDM"
          /\ opcodeOf.stm = "STM" /\ opcodeOf.cid = "CID" /\ opcodeOf.ctr = "CTR"
          /\ opcodeOf.nad = "NAD" /\ opcodeOf.and = "AND" /\ opcodeOf.xor = "XOR"
          /\ opcodeOf.shr = "SHR" /\ opcodeOf.mov = "MOV" /\ opcodeOf.add = "ADD"
          /\ opcodeOf.cmp = "CMP"
      BY DEF opcodeOf
    <3>2. {"NOP", "SET", "LDM", "STM", "CID", "CTR", "NAD", "AND", "XOR", "SHR", "MOV", "ADD", "CMP"}
            \subseteq Ops \ {"EXT"}
      BY DEF Ops, AluOps, MemOps
    <3> QED
      BY <1>1, <1>4, <3>1, <3>2
  <2> QED
    BY <1>2, <1>4, <2>1
<1> QED
  BY <1>3, <1>4

\* Three bytes for each instruction (MicroWriter::bake).
LEMMA EncodeType ==
  ASSUME NEW i, i.op \in Ops, NEW j \in 1..3
  PROVE  Encode(i)[j] \in Byte
<1>1. PICK c : c = Opcode(i.op)
  OBVIOUS
<1>2. c \in 0..15
  BY <1>1, OpcodeFacts
<1>3. PICK bit : bit = [k \in 1..4 |-> IF flagBits[k] \in i.cond THEN 1 ELSE 0]
  OBVIOUS
<1>4. Encode(i) = <<16 * c + 8 * bit[1] + 4 * bit[2] + 2 * bit[3] + bit[4], Val(i.a), Val(i.b)>>
  <2>1. /\ (IF flagBits[1] \in i.cond THEN 2^(4 - 1) ELSE 0) = 8 * bit[1]
        /\ (IF flagBits[2] \in i.cond THEN 2^(4 - 2) ELSE 0) = 4 * bit[2]
        /\ (IF flagBits[3] \in i.cond THEN 2^(4 - 3) ELSE 0) = 2 * bit[3]
        /\ (IF flagBits[4] \in i.cond THEN 2^(4 - 4) ELSE 0) = bit[4]
    BY <1>3, PowersOfTwo
  <2>2. Encode(i) = <<16 * Opcode(i.op) + (IF flagBits[1] \in i.cond THEN 2^(4 - 1) ELSE 0)
                       + (IF flagBits[2] \in i.cond THEN 2^(4 - 2) ELSE 0)
                       + (IF flagBits[3] \in i.cond THEN 2^(4 - 3) ELSE 0)
                       + (IF flagBits[4] \in i.cond THEN 2^(4 - 4) ELSE 0), Val(i.a), Val(i.b)>>
    BY DEF Encode
  <2> QED
    BY <1>1, <2>1, <2>2, Zenon
<1>5. bit[1] \in 0..1 /\ bit[2] \in 0..1 /\ bit[3] \in 0..1 /\ bit[4] \in 0..1
  BY <1>3
<1>6. PICK head : head = 16 * c + 8 * bit[1] + 4 * bit[2] + 2 * bit[3] + bit[4]
  OBVIOUS
<1>7. head \in Byte
  BY <1>2, <1>5, <1>6 DEF Byte
<1>8. Encode(i) = <<head, Val(i.a), Val(i.b)>>
  BY <1>4, <1>6
<1>9. Val(i.a) \in Byte /\ Val(i.b) \in Byte
  BY ValIsByte
<1> QED
  BY <1>7, <1>8, <1>9

\* A baked program is a sequence of bytes (bake).
LEMMA BytesType ==
  ASSUME NEW puts, Known(puts)
  PROVE  Bytes(puts) \in Seq(Byte)
<1>1. PICK m \in Nat : m = Len(puts)
  BY DEF Known
<1>2. PICK bytes : bytes = Bytes(puts)
  OBVIOUS
<1>3. bytes = [n \in 1..3 * m |-> Encode(Put(puts[((n - 1) \div 3) + 1]))[((n - 1) % 3) + 1]]
  BY <1>1, <1>2 DEF Bytes
<1>4. ASSUME NEW n \in 1..3 * m
      PROVE  bytes[n] \in Byte
  <2>1. PICK k \in 1..m, j \in 1..3 : k = ((n - 1) \div 3) + 1 /\ j = ((n - 1) % 3) + 1
    <3>1. ((n - 1) \div 3) + 1 \in 1..m /\ ((n - 1) % 3) + 1 \in 1..3
      BY <1>1
    <3> QED
      BY <3>1
  <2>2. bytes[n] = Encode(Put(puts[k]))[j]
    BY <1>3, <2>1
  <2>3. Put(puts[k]).op \in Ops
    BY <1>1, <2>1, PutOps DEF Known
  <2> QED
    BY <2>1, <2>2, <2>3, EncodeType
<1> QED
  BY <1>1, <1>2, <1>3, <1>4

\* Hex text is bytes.
LEMMA HexTextType ==
  ASSUME NEW bytes \in Seq(Byte)
  PROVE  HexText(bytes) \in Seq(Byte)
<1>1. PICK m \in Nat : m = Len(bytes) \div 3 /\ 3 * m <= Len(bytes)
  <2>1. Len(bytes) \in Nat
    BY LenProperties
  <2> QED
    BY <2>1
<1> DEFINE character(n) ==
      IF (n - 1) % 7 = 6 THEN 10
      ELSE HexDigit(IF ((n - 1) % 7) % 2 = 0
                    THEN bytes[3 * ((n - 1) \div 7) + (((n - 1) % 7) \div 2) + 1] \div 16
                    ELSE bytes[3 * ((n - 1) \div 7) + (((n - 1) % 7) \div 2) + 1] % 16)
<1>2. HexText(bytes) = [n \in 1..7 * m |-> character(n)]
  BY <1>1, Zenon DEF HexText
<1>3. ASSUME NEW v \in 0..15 PROVE HexDigit(v) \in Byte
  BY DEF HexDigit, Byte
<1>4. ASSUME NEW n \in 1..7 * m PROVE character(n) \in Byte
  <2>1. PICK k \in 0..6, j \in 0..m-1 : k = (n - 1) % 7 /\ j = (n - 1) \div 7
    <3>1. (n - 1) % 7 \in 0..6 /\ (n - 1) \div 7 \in 0..m-1
      BY <1>1
    <3> QED
      BY <3>1
  <2>2. PICK h \in 0..3 : h = k \div 2 /\ (k < 6 => h < 3)
    <3>1. k \div 2 \in 0..3 /\ (k < 6 => k \div 2 < 3)
      BY <2>1
    <3> QED
      BY <3>1
  <2>3. CASE k = 6
    <3>1. character(n) = 10
      BY <2>1, <2>3
    <3>2. 10 \in Byte
      BY DEF Byte
    <3> HIDE DEF character
    <3> QED
      BY <3>1, <3>2
  <2>4. CASE k < 6
    <3>1. 3 * j + h + 1 \in 1..Len(bytes)
      BY <1>1, <2>1, <2>2, <2>4
    <3>2. PICK byte \in Byte : byte = bytes[3 * j + h + 1]
      BY <3>1, ElementOfSeq
    <3>3. byte \div 16 \in 0..15 /\ byte % 16 \in 0..15
      BY DEF Byte
    <3>4. character(n) = HexDigit(IF k % 2 = 0 THEN byte \div 16 ELSE byte % 16)
      BY <2>1, <2>2, <2>4, <3>2
    <3> QED
      BY <1>3, <3>3, <3>4
  <2> QED
    BY <2>1, <2>3, <2>4
<1> HIDE DEF character
<1> QED
  BY <1>1, <1>2, <1>4

\* What is decoded is bytes, whatever the characters are (decodeHexString).
LEMMA DecodedType ==
  ASSUME NEW content, Len(content) \in Nat
  PROVE  decodeHexString(content) \in Seq(Byte)
<1>1. PICK n \in Nat : n = Len(content)
  OBVIOUS
<1>2. PICK g : g = Decoded(content)
  OBVIOUS
<1>3. \A q \in 1..n+2 : g[q] = IF q >= n THEN <<>>
                               ELSE IF Digits2(content, q) THEN <<ByteOf(content, q)>> \o g[q + 2]
                               ELSE g[q + 1]
  BY <1>1, <1>2, DecodeStep
<1> DEFINE T == {i \in 0..n+1 : g[n + 2 - i] \notin Seq(Byte)}
<1>4. T = {}
  <2> SUFFICES ASSUME T # {} PROVE FALSE
    OBVIOUS
  <2>1. PICK k \in T : \A y \in T : k <= y
    <3>1. T \in SUBSET Nat
      OBVIOUS
    <3> HIDE DEF T
    <3> QED
      BY <3>1, FirstPlace
  <2>2. PICK p \in 1..n+2 : p = n + 2 - k /\ g[p] \notin Seq(Byte) /\ k = n + 2 - p
    <3>1. k \in 0..n+1 /\ g[n + 2 - k] \notin Seq(Byte)
      BY <2>1
    <3>2. n + 2 - k \in 1..n+2 /\ k = n + 2 - (n + 2 - k)
      BY <3>1
    <3> QED
      BY <3>1, <3>2
  <2>3. ASSUME NEW q \in 1..n+2, q > p PROVE g[q] \in Seq(Byte)
    <3>1. n + 2 - q \in 0..n+1 /\ ~(k <= n + 2 - q) /\ n + 2 - (n + 2 - q) = q
      BY <2>2, <2>3
    <3>2. n + 2 - q \notin T
      <4> HIDE DEF T
      <4> QED
        BY <2>1, <3>1
    <3> QED
      BY <3>1, <3>2
  <2>4. CASE p >= n
    <3>1. g[p] = <<>>
      BY <1>3, <2>2, <2>4, Zenon
    <3>2. <<>> \in Seq(Byte)
      BY EmptySeq
    <3> QED
      BY <2>2, <3>1, <3>2, Zenon
  <2>5. CASE p < n
    <3>1. g[p + 1] \in Seq(Byte) /\ g[p + 2] \in Seq(Byte)
      <4>1. /\ p + 1 \in 1..n+2 /\ p + 1 > p
            /\ p + 2 \in 1..n+2 /\ p + 2 > p
        BY <2>2, <2>5
      <4> QED
        BY <2>3, <4>1
    <3>4. p \in 1..n+2 /\ ~(p >= n)
      BY <2>2, <2>5
    <3>2. CASE Digits2(content, p)
      <4>1. g[p] = <<ByteOf(content, p)>> \o g[p + 2]
        BY <1>3, <3>4, <3>2, Zenon
      <4>2. PICK b \in Byte : b = ByteOf(content, p)
        BY <3>2, ByteOfDigits
      <4>3. <<b>> \in Seq(Byte)
        BY <4>2
      <4>4. <<b>> \o g[p + 2] \in Seq(Byte)
        BY <3>1, <4>3, ConcatProperties
      <4> QED
        BY <2>2, <4>1, <4>2, <4>4
    <3>3. CASE ~Digits2(content, p)
      <4>1. g[p] = g[p + 1]
        BY <1>3, <3>4, <3>3, Zenon
      <4> QED
        BY <2>2, <3>1, <4>1
    <3> QED
      BY <3>2, <3>3
  <2> QED
    BY <2>2, <2>4, <2>5
<1>5. g[1] \in Seq(Byte)
  <2>1. n + 1 \in 0..n+1 /\ n + 2 - (n + 1) = 1
    OBVIOUS
  <2>2. n + 1 \notin T
    BY <1>4
  <2> QED
    BY <2>1, <2>2
<1> QED
  BY <1>2, <1>5, DecodedIsThat

\* A program file that is read is a program (MicroReader::toProgram).
LEMMA ProgramType ==
  ASSUME NEW bytes \in Seq(Byte)
  PROVE  \A n \in DOMAIN toProgram(bytes) : toProgram(bytes)[n] \in Instruction
<1>1. PICK m \in Nat : m = Len(bytes) \div 3 /\ 3 * m <= Len(bytes)
  <2>1. Len(bytes) \in Nat
    BY LenProperties
  <2> QED
    BY <2>1
<1>2. DOMAIN toProgram(bytes) = 1..m
  BY <1>1 DEF toProgram
<1>3. ASSUME NEW n \in 1..m PROVE toProgram(bytes)[n] \in Instruction
  <2>1. PICK op : op = OpcodeAt(bytes, n)
    OBVIOUS
  <2>2. op \in Ops
    <3>1. PICK head \in Byte : head = bytes[3 * n - 2]
      <4>1. 3 * n - 2 \in 1..Len(bytes)
        BY <1>1
      <4> QED
        BY <4>1, ElementOfSeq
    <3>2. PICK c \in 1..16 : c = (head \div 16) + 1
      <4>1. (head \div 16) + 1 \in 1..16
        BY DEF Byte
      <4> QED
        BY <4>1
    <3>3. op = opcodes[c]
      BY <2>1, <3>1, <3>2 DEF OpcodeAt
    <3> QED
      BY <3>2, <3>3 DEF opcodes, Ops, AluOps, MemOps, JumpOps
  <2>3. PICK cond : cond = {flagBits[k] : k \in {k \in 1..4 : (bytes[3 * n - 2] \div 2^(4 - k)) % 2 = 1}}
    OBVIOUS
  <2>4. cond \subseteq FlagValues
    <3>1. \A k \in 1..4 : flagBits[k] \in FlagValues
      BY DEF flagBits, FlagValues
    <3> QED
      BY <2>3, <3>1
  <2>5. toProgram(bytes)[n] =
          IF op = "NOP" THEN [op |-> op, cond |-> FlagValues, a |-> Zero, b |-> Zero]
          ELSE [op |-> op, cond |-> cond, a |-> WordOf(bytes[3 * n - 1]), b |-> WordOf(bytes[3 * n])]
    BY <1>1, <2>1, <2>3, Zenon DEF toProgram
  <2>6. WordOf(bytes[3 * n - 1]) \in Word /\ WordOf(bytes[3 * n]) \in Word /\ Zero \in Word
    BY WordOfType, ZeroType
  <2>7. PICK a, b : a = WordOf(bytes[3 * n - 1]) /\ b = WordOf(bytes[3 * n])
    OBVIOUS
  <2> QED
    BY <2>2, <2>4, <2>5, <2>6, <2>7 DEF Instruction
<1> QED
  BY <1>2, <1>3

\* Files hold bytes, what is loaded is instructions, and how a process stands.
BytesInv ==
  /\ \A path \in DOMAIN files : files[path] \in Seq(Byte)
  /\ \A n \in DOMAIN program : program[n] \in Instruction
  /\ stage \in {"arguments", "tokenizing", "assembling", "console", "exited"}
  /\ status \in {0, 1, 2, SIGABRT}

\* The files that there are at first.
LEMMA BytesInit == Init => BytesInv
<1> SUFFICES ASSUME Init PROVE BytesInv
  OBVIOUS
<1>1. \A path \in DOMAIN files : files[path] \in Seq(Byte)
  BY FilesAssumption DEF Init, Byte
<1>2. program = <<>> /\ stage = "exited" /\ status = 0
  BY DEF Init
<1> QED
  BY <1>1, <1>2 DEF BytesInv

\* An assembled program is written as bytes (save).
LEMMA WriteFileBytes == ASSUME BytesInv, AsmInv, WriteFile PROVE BytesInv'
<1>1. UNCHANGED program
  BY DEF WriteFile
<1>2. stage' = "exited" /\ status' \in {0, 1, 2}
  BY DEF WriteFile, Exit, GiveUp
<1>3. CASE UNCHANGED files
  BY <1>1, <1>2, <1>3 DEF BytesInv
<1>4. CASE ~(failed \/ OutputPath = <<>>)
  <2>1. PICK image : image = Bytes(result)
    OBVIOUS
  <2>2. image \in Seq(Byte)
    <3>1. stage = "assembling" /\ phase = "done"
      BY DEF WriteFile, Assembled
    <3> QED
      BY <2>1, <3>1, BytesType DEF AsmInv
  <2>3. files' = [path \in DOMAIN files \cup {OutputPath} |->
                   IF path # OutputPath THEN files[path]
                   ELSE IF Chosen("hex") THEN HexText(image) ELSE image]
    BY <1>4, <2>1 DEF WriteFile
  <2>4. HexText(image) \in Seq(Byte)
    BY <2>2, HexTextType
  <2>5. ASSUME NEW path \in DOMAIN files' PROVE files'[path] \in Seq(Byte)
    <3>1. CASE path = OutputPath
      BY <2>2, <2>3, <2>4, <3>1
    <3>2. CASE path # OutputPath
      BY <2>3, <3>2 DEF BytesInv
    <3> QED
      BY <3>1, <3>2
  <2> QED
    BY <1>1, <1>2, <2>5 DEF BytesInv
<1>5. failed \/ OutputPath = <<>> => UNCHANGED files
  BY DEF WriteFile
<1> QED
  BY <1>3, <1>4, <1>5

\* What is read from bytes is instructions, or the process is refused (load).
LEMMA EmulateBytes ==
  ASSUME BytesInv, NEW bytes \in Seq(Byte), Emulate(bytes)
  PROVE  /\ \A n \in DOMAIN program' : program'[n] \in Instruction
         /\ stage' \in {"console", "exited"} /\ status' \in {status, SIGABRT}
<1>1. CASE Readable(bytes)
  <2>1. program' = toProgram(bytes) /\ stage' = "console" /\ status' = status
    BY <1>1 DEF Emulate
  <2> QED
    BY <2>1, ProgramType
<1>2. CASE ~Readable(bytes)
  BY <1>2 DEF Emulate, Exit, BytesInv
<1> QED
  BY <1>1, <1>2

\* A program file is bytes, in either form (loadBinaryInput).
LEMMA LoadedBytes == ASSUME BytesInv, Loading PROVE loadBinaryInput \in Seq(Byte)
<1>1. PICK content : content = files[Value("input")]
  OBVIOUS
<1>2. content \in Seq(Byte)
  BY <1>1 DEF Loading, BytesInv
<1>3. Len(content) \in Nat
  BY <1>2, LenProperties
<1>4. decodeHexString(content) \in Seq(Byte)
  BY <1>3, DecodedType
<1> QED
  BY <1>1, <1>2, <1>4 DEF loadBinaryInput

\* Every step of every process.
LEMMA BytesStep == BytesInv /\ AsmInv /\ [Next]_vars => BytesInv'
<1> SUFFICES ASSUME BytesInv, AsmInv, [Next]_vars PROVE BytesInv'
  OBVIOUS
<1> USE DEF Exit
<1>1. CASE Invoke \/ RefuseArguments \/ NoTask \/ MissingFile
  BY <1>1 DEF Invoke, RefuseArguments, NoTask, MissingFile, worldVars, BytesInv
<1>2. CASE ReadArguments \/ ReadText \/ Assemble
  BY <1>2 DEF ReadArguments, ReadText, Assemble, processVars, worldVars, BytesInv
<1>3. CASE StartAssembling \/ StartParsing
  BY <1>3 DEF StartAssembling, StartParsing, GiveUp, worldVars, BytesInv
<1>4. CASE Abort \/ Quit
  BY <1>4 DEF Abort, Quit, worldVars, BytesInv
<1>5. CASE WriteFile
  BY <1>5, WriteFileBytes
<1>6. CASE RunAssembled
  <2>1. UNCHANGED files /\ Assembled
    BY <1>6 DEF RunAssembled, worldVars
  <2>2. CASE failed
    BY <1>6, <2>1, <2>2 DEF RunAssembled, GiveUp, BytesInv
  <2>3. CASE ~failed
    <3>1. Bytes(result) \in Seq(Byte)
      BY <2>1, BytesType DEF Assembled, AsmInv
    <3>2. Emulate(Bytes(result))
      BY <1>6, <2>3 DEF RunAssembled
    <3> HIDE DEF Exit
    <3>3. /\ \A n \in DOMAIN program' : program'[n] \in Instruction
          /\ stage' \in {"console", "exited"} /\ status' \in {status, SIGABRT}
      BY <3>1, <3>2, EmulateBytes
    <3> QED
      BY <2>1, <3>3 DEF BytesInv
  <2> QED
    BY <2>2, <2>3
<1>7. CASE RunLoaded
  <2>1. UNCHANGED files /\ Loading /\ Emulate(loadBinaryInput)
    BY <1>7 DEF RunLoaded, worldVars
  <2> HIDE DEF Exit
  <2>2. /\ \A n \in DOMAIN program' : program'[n] \in Instruction
        /\ stage' \in {"console", "exited"} /\ status' \in {status, SIGABRT}
    BY <2>1, LoadedBytes, EmulateBytes
  <2> QED
    BY <2>1, <2>2 DEF BytesInv
<1>8. CASE Disassemble
  <2>1. UNCHANGED files /\ Loading
    BY <1>8 DEF Disassemble, worldVars
  <2>2. PICK image : image = loadBinaryInput
    OBVIOUS
  <2>3. image \in Seq(Byte)
    BY <2>1, <2>2, LoadedBytes
  <2>4. /\ program' = program \/ program' = toProgram(image)
        /\ stage' = "exited" /\ status' \in {0, SIGABRT}
    BY <1>8, <2>2 DEF Disassemble
  <2> QED
    BY <2>1, <2>3, <2>4, ProgramType DEF BytesInv
<1>9. CASE UNCHANGED vars
  BY <1>9 DEF vars, processVars, worldVars, BytesInv
<1> QED
  BY <1>1, <1>2, <1>3, <1>4, <1>5, <1>6, <1>7, <1>8, <1>9 DEF Next, Process

\* In every scenario that keeps sources and program files apart, whatever is
\* written or hex text is decoded to is bytes, tokens lie one behind the other in
\* the text, and whatever is loaded is instructions (bake, save, decodeHexString,
\* toProgram).
THEOREM ToolchainTypeCorrect == Spec => [](KeptApart => TypeOK)
<1>1. ASSUME BytesInv, TextInv PROVE KeptApart => TypeOK
  <2>1. \A path \in DOMAIN files : \A n \in DOMAIN files[path] : files[path][n] \in 0..255
    <3> SUFFICES ASSUME NEW path \in DOMAIN files, NEW n \in DOMAIN files[path]
                 PROVE  files[path][n] \in 0..255
      OBVIOUS
    <3>1. PICK content : content = files[path]
      OBVIOUS
    <3>2. content \in Seq(Byte)
      BY <1>1, <3>1 DEF BytesInv
    <3>3. DOMAIN content = 1..Len(content)
      BY <3>2, LenProperties
    <3>4. content[n] \in Byte
      BY <3>1, <3>2, <3>3, ElementOfSeq
    <3> QED
      BY <3>1, <3>4 DEF Byte
  <2>2. offset \in 0..Len(text) /\ Ordered(sink, offset)
    BY <1>1 DEF TextInv, ScanInv
  <2> QED
    BY <1>1, <2>1, <2>2, Zenon DEF TypeOK, BytesInv, Ordered
<1>2. BytesInv /\ TextInv => (KeptApart => TypeOK)
  BY <1>1
<1> QED
  BY <1>2, TextInit, TextStep, GapInit, GapStepNext, AsmInit, AsmStep, BytesInit, BytesStep, PTL
     DEF Spec

(***************************************************************************)
(* Numbers.                                                                *)
(***************************************************************************)

\* A digit has a value, and an octal one has one of eight.
LEMMA DigitValues ==
  /\ \A base \in {2, 8, 10, 16} : \A c \in DigitsOf(base) : DigitValue(c) \in Nat
  /\ \A c \in octal : DigitValue(c) \in 0..7
<1> DEFINE Has(c, n) == Digits[n] = c \/ (n > 10 /\ Capitals[n - 10] = c)
<1>1. ASSUME NEW c, \E n \in 1..16 : Has(c, n)
      PROVE  \E n \in 1..16 : Has(c, n) /\ DigitValue(c) = n - 1
  <2>1. PICK n : n = CHOOSE k \in 1..16 : Has(c, k)
    OBVIOUS
  <2>2. n \in 1..16 /\ Has(c, n)
    <3> HIDE DEF Has
    <3> QED
      BY <1>1, <2>1
  <2>3. DigitValue(c) = n - 1
    BY <2>1 DEF DigitValue
  <2> QED
    BY <2>2, <2>3
<1>2. ASSUME NEW base \in {2, 8, 10, 16}, NEW c \in DigitsOf(base)
      PROVE  \E n \in 1..16 : Has(c, n)
  <2>1. CASE c \in {Digits[n] : n \in 1..base}
    <3>1. PICK n \in 1..base : Digits[n] = c
      BY <2>1
    <3>2. n \in 1..16
      OBVIOUS
    <3> QED
      BY <3>1, <3>2
  <2>2. CASE c \in {Capitals[n] : n \in 1..base-10}
    <3>1. PICK n \in 1..base-10 : Capitals[n] = c
      BY <2>2
    <3>2. n + 10 \in 1..16 /\ n + 10 > 10 /\ (n + 10) - 10 = n
      OBVIOUS
    <3> QED
      BY <3>1, <3>2
  <2> QED
    BY <2>1, <2>2 DEF DigitsOf
<1>3. ASSUME NEW base \in {2, 8, 10, 16}, NEW c \in DigitsOf(base) PROVE DigitValue(c) \in Nat
  BY <1>1, <1>2
<1>4. ASSUME NEW c \in octal PROVE DigitValue(c) \in 0..7
  <2>1. PICK n \in 1..16 : Has(c, n) /\ DigitValue(c) = n - 1
    BY <1>1, <1>2 DEF octal
  <2>2. /\ Digits[9] = "8" /\ Digits[10] = "9" /\ Digits[11] = "a" /\ Digits[12] = "b"
        /\ Digits[13] = "c" /\ Digits[14] = "d" /\ Digits[15] = "e" /\ Digits[16] = "f"
        /\ Capitals[1] = "A" /\ Capitals[2] = "B" /\ Capitals[3] = "C"
        /\ Capitals[4] = "D" /\ Capitals[5] = "E" /\ Capitals[6] = "F"
    BY DEF Digits, Capitals
  <2>3. c \in {"0", "1", "2", "3", "4", "5", "6", "7"}
    BY DigitClasses
  <2>4. n \notin {9, 10, 11, 12, 13, 14, 15, 16}
    BY <2>1, <2>2, <2>3
  <2> QED
    BY <2>1, <2>4
<1> QED
  BY <1>3, <1>4

\* The values of the fronts of a number, with and without separators.
Values(l, from, base) ==
  CHOOSE value : value = [n \in from-1..Len(l) |->
    IF n < from THEN 0 ELSE base * value[n - 1] + DigitValue(l[n])]

\* The same when separators are passed over.
SeparatedValues(l, from, base) ==
  CHOOSE value : value = [n \in from-1..Len(l) |->
    IF n < from THEN 0
    ELSE IF l[n] = separator THEN value[n - 1]
    ELSE base * value[n - 1] + DigitValue(l[n])]

\* Where the digits of a number end.
DigitsEnd(l, from, base) ==
  CHOOSE n \in from..Len(l)+1 :
    /\ ~(n <= Len(l) /\ l[n] \in DigitsOf(base))
    /\ \A i \in from..n-1 : i <= Len(l) /\ l[i] \in DigitsOf(base)

\* Both are what the parser and the meaning of numbers take their values from.
LEMMA NumbersAreThose ==
  /\ \A l : NumberMeant(l) = SeparatedValues(l, NumberForm(l).from, NumberForm(l).base)[Len(l)]
  /\ \A l, from, base :
       parseIntWithBase(l, from, base) =
         IF Values(l, from, base)[DigitsEnd(l, from, base) - 1] > IntMax THEN 0
         ELSE Values(l, from, base)[DigitsEnd(l, from, base) - 1]
<1>1. \A l : NumberMeant(l) = SeparatedValues(l, NumberForm(l).from, NumberForm(l).base)[Len(l)]
  BY Zenon DEF NumberMeant, SeparatedValues, separator
<1>2. \A l, from, base :
       parseIntWithBase(l, from, base) =
         IF Values(l, from, base)[DigitsEnd(l, from, base) - 1] > IntMax THEN 0
         ELSE Values(l, from, base)[DigitsEnd(l, from, base) - 1]
  BY Zenon DEF parseIntWithBase, Values, DigitsEnd
<1> QED
  BY <1>1, <1>2

\* A number has values of its fronts, which are numbers.
HasValues(l, m, from, base) ==
  \E g \in [from-1..m -> Nat] :
    g = [n \in from-1..m |-> IF n < from THEN 0 ELSE base * g[n - 1] + DigitValue(l[n])]

\* Numbers made of digits have them.
LEMMA ValuesExist ==
  ASSUME NEW l, NEW m \in Nat, m = Len(l), NEW from \in {1, 3}, NEW base \in {2, 8, 10, 16},
         from - 1 <= m, \A n \in from..m : l[n] \in DigitsOf(base)
  PROVE  HasValues(l, m, from, base)
<1>1. PICK d : d = [n \in from..m |-> DigitValue(l[n])]
  OBVIOUS
<1>2. \A n \in from..m : d[n] \in Nat /\ d[n] = DigitValue(l[n])
  BY <1>1, DigitValues
<1>3. PICK k \in Nat : k = m - (from - 1)
  <2>1. m - (from - 1) \in Nat
    OBVIOUS
  <2> QED
    BY <2>1
<1>4. PICK step : step = [r \in 1..k |-> [v \in Nat |-> base * v + d[r + from - 1]]]
  OBVIOUS
<1>5. step \in [1..k -> [Nat -> Nat]]
  <2>1. ASSUME NEW r \in 1..k, NEW v \in Nat PROVE base * v + d[r + from - 1] \in Nat
    <3>1. r + from - 1 \in from..m
      BY <1>3
    <3>2. d[r + from - 1] \in Nat
      BY <1>2, <3>1
    <3> QED
      BY <3>2
  <2> QED
    BY <1>4, <2>1
<1>6. PICK f \in [0..k -> Nat] : f[0] = 0 /\ \A r \in 1..k : f[r] = step[r][f[r - 1]]
  <2>1. Recursion(k, Nat, 0, step)
    BY <1>5, RecursionExists
  <2> QED
    BY <2>1, Zenon DEF Recursion
<1>7. PICK g : g = [n \in from-1..m |-> f[n - (from - 1)]]
  OBVIOUS
<1>8. ASSUME NEW n \in from-1..m
      PROVE  g[n] = (IF n < from THEN 0 ELSE base * g[n - 1] + DigitValue(l[n])) /\ g[n] \in Nat
  <2>1. PICK r \in 0..k : r = n - (from - 1) /\ g[n] = f[r]
    <3>1. n - (from - 1) \in 0..k
      BY <1>3
    <3> QED
      BY <1>7, <3>1
  <2>2. g[n] \in Nat
    BY <1>6, <2>1
  <2>3. CASE n < from
    <3>1. r = 0
      BY <2>1, <2>3
    <3> QED
      BY <1>6, <2>1, <2>2, <2>3, <3>1
  <2>4. CASE n >= from
    <3>1. r \in 1..k /\ r - 1 \in 0..k /\ r + from - 1 = n /\ n \in from..m
      BY <2>1, <2>4
    <3>2. f[r] = step[r][f[r - 1]] /\ f[r - 1] \in Nat
      BY <1>6, <3>1
    <3>3. f[r] = base * f[r - 1] + d[n]
      BY <1>4, <3>1, <3>2
    <3>4. g[n - 1] = f[r - 1]
      <4>1. n - 1 \in from-1..m /\ (n - 1) - (from - 1) = r - 1
        BY <2>1, <2>4
      <4> QED
        BY <1>7, <4>1
    <3>5. g[n] = base * g[n - 1] + DigitValue(l[n])
      BY <1>2, <2>1, <3>1, <3>3, <3>4
    <3>6. ~(n < from)
      BY <2>4
    <3> QED
      BY <2>2, <3>5, <3>6, Zenon
  <2> QED
    BY <2>3, <2>4
<1>9. g = [n \in from-1..m |-> IF n < from THEN 0 ELSE base * g[n - 1] + DigitValue(l[n])]
  BY <1>7, <1>8, Zenon
<1>10. g \in [from-1..m -> Nat]
  BY <1>7, <1>8
<1> QED
  BY <1>9, <1>10, Zenon DEF HasValues

\* A plain number is read as what it means (parseImmediate).
LEMMA PlainIsRead ==
  ASSUME NEW l, NumberWord(l), Plain(l)
  PROVE  Immediate(l) = WordOf(NumberMeant(l))
<1>1. PICK m \in Nat : m = Len(l)
  BY DEF NumberWord
<1>2. PICK from \in {1, 3} : from = NumberForm(l).from
  BY DEF NumberWord
<1>3. PICK base \in {2, 8, 10, 16} : base = NumberForm(l).base
  BY DEF NumberWord
<1>4. from - 1 <= m
  BY <1>1, <1>2 DEF NumberWord
<1>5. \A n \in 1..m : l[n] # separator
  BY <1>1, Zenon DEF Plain, separator
<1>6. \A n \in from..m : l[n] \in DigitsOf(base) /\ l[n] # separator
  <2>1. \A n \in from..m : n \in 1..m
    OBVIOUS
  <2> QED
    BY <1>1, <1>2, <1>3, <1>5, <2>1 DEF NumberWord
<1>7. PICK u : u = Values(l, from, base)
  OBVIOUS
<1>8. PICK w : w = SeparatedValues(l, from, base)
  OBVIOUS
<1>9. PICK g \in [from-1..m -> Nat] :
        g = [n \in from-1..m |-> IF n < from THEN 0 ELSE base * g[n - 1] + DigitValue(l[n])]
  <2>1. HasValues(l, m, from, base)
    BY <1>1, <1>4, <1>6, ValuesExist
  <2> QED
    BY <2>1, Zenon DEF HasValues
<1>10. u = [n \in from-1..m |-> IF n < from THEN 0 ELSE base * u[n - 1] + DigitValue(l[n])]
  BY <1>1, <1>7, <1>9, Zenon DEF Values
<1>11. ASSUME NEW n \in from-1..m, ~(n < from) PROVE l[n] # separator
  <2>1. n \in from..m
    BY <1>11
  <2> QED
    BY <1>6, <2>1
<1>12. g = [n \in from-1..m |-> IF n < from THEN 0
                                ELSE IF l[n] = separator THEN g[n - 1]
                                ELSE base * g[n - 1] + DigitValue(l[n])]
  <2>1. ASSUME NEW n \in from-1..m
        PROVE  g[n] = IF n < from THEN 0
                      ELSE IF l[n] = separator THEN g[n - 1]
                      ELSE base * g[n - 1] + DigitValue(l[n])
    <3>1. g[n] = IF n < from THEN 0 ELSE base * g[n - 1] + DigitValue(l[n])
      BY <1>9, Zenon
    <3> QED
      BY <1>11, <3>1, Zenon
  <2> QED
    BY <2>1, Zenon
<1>13. w = [n \in from-1..m |-> IF n < from THEN 0
                                ELSE IF l[n] = separator THEN w[n - 1]
                                ELSE base * w[n - 1] + DigitValue(l[n])]
  BY <1>1, <1>8, <1>12, Zenon DEF SeparatedValues
<1>14. ASSUME NEW n \in from-1..m
       PROVE  /\ u[n] = IF n < from THEN 0 ELSE base * u[n - 1] + DigitValue(l[n])
              /\ w[n] = IF n < from THEN 0 ELSE base * w[n - 1] + DigitValue(l[n])
  <2>1. u[n] = IF n < from THEN 0 ELSE base * u[n - 1] + DigitValue(l[n])
    BY <1>10, Zenon
  <2>2. w[n] = IF n < from THEN 0
               ELSE IF l[n] = separator THEN w[n - 1]
               ELSE base * w[n - 1] + DigitValue(l[n])
    BY <1>13, Zenon
  <2> QED
    BY <1>11, <2>1, <2>2, Zenon
<1>15. \A n \in from-1..m : u[n] = w[n] /\ u[n] \in Nat
  <2> DEFINE T == {n \in from-1..m : ~(u[n] = w[n] /\ u[n] \in Nat)}
  <2> SUFFICES ASSUME T # {} PROVE FALSE
    OBVIOUS
  <2>1. PICK k \in T : \A y \in T : k <= y
    <3>1. T \in SUBSET Nat
      OBVIOUS
    <3> HIDE DEF T
    <3> QED
      BY <3>1, FirstPlace
  <2>2. k \in from-1..m /\ ~(u[k] = w[k] /\ u[k] \in Nat)
    BY <2>1
  <2>3. CASE k < from
    BY <1>14, <2>2, <2>3
  <2>4. CASE k >= from
    <3>1. k - 1 \in from-1..m /\ ~(k <= k - 1) /\ k \in from..m
      BY <2>2, <2>4
    <3>2. k - 1 \notin T
      <4> HIDE DEF T
      <4> QED
        BY <2>1, <3>1
    <3>3. u[k - 1] = w[k - 1] /\ u[k - 1] \in Nat
      BY <3>1, <3>2
    <3>4. DigitValue(l[k]) \in Nat
      BY <1>6, <3>1, DigitValues
    <3>5. ~(k < from)
      BY <2>2, <2>4
    <3>6. u[k] = base * u[k - 1] + DigitValue(l[k]) /\ w[k] = base * w[k - 1] + DigitValue(l[k])
      BY <1>14, <2>2, <3>5, Zenon
    <3> QED
      BY <2>2, <3>3, <3>4, <3>6
  <2> QED
    BY <2>2, <2>3, <2>4
<1>16. DigitsEnd(l, from, base) = m + 1
  <2> DEFINE StopsAt(n) == /\ ~(n <= Len(l) /\ l[n] \in DigitsOf(base))
                           /\ \A i \in from..n-1 : i <= Len(l) /\ l[i] \in DigitsOf(base)
  <2>1. m + 1 \in from..Len(l)+1 /\ StopsAt(m + 1)
    <3>1. m + 1 \in from..Len(l)+1 /\ ~(m + 1 <= Len(l))
      BY <1>1, <1>4
    <3>2. \A i \in from..(m + 1)-1 : i \in from..m /\ i <= Len(l)
      BY <1>1
    <3> QED
      BY <1>6, <3>1, <3>2
  <2>2. ASSUME NEW n \in from..Len(l)+1, StopsAt(n) PROVE n = m + 1
    <3>1. CASE n <= m
      <4>1. n \in from..m /\ n <= Len(l)
        BY <1>1, <3>1
      <4> QED
        BY <1>6, <2>2, <4>1
    <3>2. CASE n > m
      BY <1>1, <3>2
    <3> QED
      BY <1>1, <3>1, <3>2
  <2>3. DigitsEnd(l, from, base) = CHOOSE n \in from..Len(l)+1 : StopsAt(n)
    BY DEF DigitsEnd
  <2> HIDE DEF StopsAt
  <2> QED
    BY <2>1, <2>2, <2>3
<1>17. NumberMeant(l) = w[m] /\ NumberMeant(l) <= IntMax
  BY <1>1, <1>2, <1>3, <1>8, NumbersAreThose DEF Plain
<1>18. PICK e : e = DigitsEnd(l, from, base) - 1
  OBVIOUS
<1>19. e = m
  BY <1>16, <1>18
<1>20. parseIntWithBase(l, from, base) = IF u[e] > IntMax THEN 0 ELSE u[e]
  BY <1>7, <1>18, NumbersAreThose, Zenon
<1>21. parseIntWithBase(l, from, base) = NumberMeant(l)
  <2>1. m \in from-1..m
    BY <1>4
  <2>2. u[m] = w[m] /\ u[m] \in Nat
    BY <1>15, <2>1
  <2>3. ~(u[m] > IntMax)
    BY <1>17, <2>2, IntAssumption
  <2> QED
    BY <1>17, <1>19, <1>20, <2>2, <2>3, Zenon
<1> QED
  BY <1>2, <1>3, <1>21 DEF Immediate

(***************************************************************************)
(* The instructions of a source.                                           *)
(***************************************************************************)

\* What is meant has the operands of its mnemonic.
Fits(m) ==
  \/ m.op = "jmp" /\ Len(m.args) = 1
  \/ m.op = "nop"
  \/ m.op = "cid" /\ Len(m.args) = 1 /\ NumberWord(m.args[1])
  \/ /\ m.op \in {"set", "ctr", "shr"} /\ Len(m.args) = 2
     /\ RegisterWord(m.args[1]) /\ NumberWord(m.args[2])
  \/ /\ m.op \in {"ldm", "stm", "jmp", "nad", "and", "xor", "mov", "add", "cmp"}
     /\ Len(m.args) = 2
     /\ RegisterWord(m.args[1]) /\ RegisterWord(m.args[2])

\* The assembler's lemmas on meanings, for the process's assembler.
LEMMA MeaningHolds ==
  ASSUME AP!IsSource(tokens)
  PROVE  /\ IsFiniteSet(AP!Statements) /\ AP!Cardinality(AP!Statements) \in Nat
         /\ \A n \in DOMAIN AP!Meaning : \E p \in AP!Statements :
              /\ AP!Meaning[n].op = tokens[p].lexeme
              /\ AP!Meaning[n].args = AP!MeantArguments(p)
         /\ \A p \in AP!Statements : ~AP!JumpToLabel(p) =>
              LET kinds == AP!Operands[tokens[p].lexeme]
              IN  /\ Len(AP!MeantArguments(p)) = (Len(kinds) + 1) \div 2
                  /\ \A k \in 1..((Len(kinds) + 1) \div 2) :
                       \E t \in AP!Places : /\ AP!MeantArguments(p)[k] = tokens[t].lexeme
                                            /\ tokens[t].type = kinds[2 * k - 1]
<1>1. \A source \in {} : AP!IsSource(source)
  OBVIOUS
<1>2. AP!IsFiniteSet(AP!Statements) /\ AP!Cardinality(AP!Statements) \in Nat
  BY <1>1, OffsetAssumption, AP!StatementsType
<1>3. IsFiniteSet(AP!Statements)
  BY <1>2, Zenon DEF IsFiniteSet, AP!IsFiniteSet
<1>4. ASSUME NEW n \in DOMAIN AP!Meaning
      PROVE  \E p \in AP!Statements :
              /\ AP!Meaning[n].op = tokens[p].lexeme
              /\ AP!Meaning[n].args = AP!MeantArguments(p)
  BY <1>1, OffsetAssumption, AP!MeaningOf
<1>5. ASSUME NEW p \in AP!Statements, ~AP!JumpToLabel(p), NEW kinds, kinds = AP!Operands[tokens[p].lexeme]
      PROVE  /\ Len(AP!MeantArguments(p)) = (Len(kinds) + 1) \div 2
             /\ \A k \in 1..((Len(kinds) + 1) \div 2) :
                  \E t \in AP!Places : /\ AP!MeantArguments(p)[k] = tokens[t].lexeme
                                       /\ tokens[t].type = kinds[2 * k - 1]
  BY <1>1, <1>5, OffsetAssumption, AP!MeantOperands
<1> QED
  BY <1>2, <1>3, <1>4, <1>5, Zenon

\* The instructions of a source have the operands that their mnemonics ask for.
LEMMA MeaningFits ==
  ASSUME AP!IsSource(tokens), Worded(tokens), NEW n \in DOMAIN AP!Meaning
  PROVE  Fits(AP!Meaning[n])
<1>1. PICK m : m = AP!Meaning[n]
  OBVIOUS
<1>2. PICK p \in AP!Statements : m.op = tokens[p].lexeme /\ m.args = AP!MeantArguments(p)
  BY <1>1, MeaningHolds, Zenon
<1>3. m.op \in DOMAIN AP!Operands
  BY <1>2, Zenon DEF AP!Statements, AP!StatementAt
<1>4. CASE AP!JumpToLabel(p)
  <2>1. m.op = "jmp"
    BY <1>2, <1>4, Zenon DEF AP!JumpToLabel
  <2>2. \E x : m.args = <<x>>
    BY <1>2, <1>4, Zenon DEF AP!MeantArguments
  <2>3. Len(m.args) = 1
    BY <2>2
  <2> QED
    BY <1>1, <2>1, <2>3 DEF Fits
<1>5. CASE ~AP!JumpToLabel(p)
  <2>1. PICK kinds : kinds = AP!Operands[m.op]
    OBVIOUS
  <2>2. /\ Len(m.args) = (Len(kinds) + 1) \div 2
        /\ \A k \in 1..((Len(kinds) + 1) \div 2) :
             \E t \in AP!Places : m.args[k] = tokens[t].lexeme /\ tokens[t].type = kinds[2 * k - 1]
    BY <1>2, <1>5, <2>1, MeaningHolds, Zenon
  <2>3. \A t \in AP!Places :
          /\ tokens[t].type = "REGSET" => RegisterWord(tokens[t].lexeme)
          /\ tokens[t].type = "INTEGER" => NumberWord(tokens[t].lexeme)
    BY DEF Worded, AP!Places
  <2>4. ASSUME NEW k \in Nat, k \in 1..((Len(kinds) + 1) \div 2)
        PROVE  /\ kinds[2 * k - 1] = "REGSET" => RegisterWord(m.args[k])
               /\ kinds[2 * k - 1] = "INTEGER" => NumberWord(m.args[k])
    <3>1. PICK t \in AP!Places : m.args[k] = tokens[t].lexeme /\ tokens[t].type = kinds[2 * k - 1]
      BY <2>2, <2>4
    <3> QED
      BY <2>3, <3>1
  <2>5. m.op \in {"nop", "cid", "set", "ctr", "shr", "ldm", "stm", "jmp", "nad", "and",
                  "xor", "mov", "add", "cmp"}
    BY <1>3 DEF AP!Operands
  <2>6. CASE m.op = "nop"
    BY <1>1, <2>6 DEF Fits
  <2>7. CASE m.op = "cid"
    <3>1. kinds = <<"INTEGER">>
      BY <2>1, <2>7 DEF AP!Operands
    <3>2. Len(kinds) = 1 /\ kinds[1] = "INTEGER"
      BY <3>1
    <3>3. (1 + 1) \div 2 = 1 /\ 1 \in 1..1 /\ 2 * 1 - 1 = 1
      OBVIOUS
    <3>4. Len(m.args) = 1 /\ NumberWord(m.args[1])
      BY <2>2, <2>4, <3>2, <3>3
    <3> QED
      BY <1>1, <2>7, <3>4 DEF Fits
  <2>8. CASE m.op \in {"set", "ctr", "shr"}
    <3>1. kinds = <<"REGSET", "SYMBOL", "INTEGER">>
      BY <2>1, <2>8 DEF AP!Operands, AP!Immediate
    <3>2. Len(kinds) = 3 /\ kinds[1] = "REGSET" /\ kinds[3] = "INTEGER"
      BY <3>1
    <3>3. (3 + 1) \div 2 = 2 /\ 1 \in 1..2 /\ 2 \in 1..2 /\ 2 * 1 - 1 = 1 /\ 2 * 2 - 1 = 3
      OBVIOUS
    <3>4. Len(m.args) = 2 /\ RegisterWord(m.args[1]) /\ NumberWord(m.args[2])
      BY <2>2, <2>4, <3>2, <3>3
    <3> QED
      BY <1>1, <2>8, <3>4 DEF Fits
  <2>9. CASE m.op \in {"ldm", "stm", "jmp", "nad", "and", "xor", "mov", "add", "cmp"}
    <3>1. kinds = <<"REGSET", "SYMBOL", "REGSET">>
      BY <2>1, <2>9 DEF AP!Operands, AP!Binary
    <3>2. Len(kinds) = 3 /\ kinds[1] = "REGSET" /\ kinds[3] = "REGSET"
      BY <3>1
    <3>3. (3 + 1) \div 2 = 2 /\ 1 \in 1..2 /\ 2 \in 1..2 /\ 2 * 1 - 1 = 1 /\ 2 * 2 - 1 = 3
      OBVIOUS
    <3>4. Len(m.args) = 2 /\ RegisterWord(m.args[1]) /\ RegisterWord(m.args[2])
      BY <2>2, <2>4, <3>2, <3>3
    <3> QED
      BY <1>1, <2>9, <3>4 DEF Fits
  <2> QED
    BY <2>5, <2>6, <2>7, <2>8, <2>9
<1> QED
  BY <1>4, <1>5

\* A register set is a byte's bits, in a bank of eight.
LEMMA RegisterSetType ==
  ASSUME W = 8, NEW l, RegisterWord(l)
  PROVE  RegisterSet(l) \in Word
<1>1. \A n \in 2..Len(l) : DigitValue(l[n]) \in 0..7
  BY DigitValues DEF RegisterWord
<1>2. Bits = 0..7
  BY DEF Bits
<1> QED
  BY <1>1, <1>2 DEF RegisterSet, Word

\* A condition is a set of flag values.
LEMMA ConditionType ==
  ASSUME NEW c \in AP!conditions
  PROVE  Condition(c) \subseteq FlagValues
<1>1. c \in {"f", "t", "nbe", "a", "nc", "nb", "ae", "c", "b", "nae", "ne", "nz", "e", "z"}
  BY DEF AP!conditions
<1>2. {"ZF_FALSE", "CF_FALSE"} \subseteq FlagValues
  BY DEF FlagValues
<1> QED
  BY <1>1, <1>2 DEF Condition

\* What is put is an instruction, and what is read back is what was meant (parseImmediate,
\* MicroWriter, MicroReader).
LEMMA PutIsMeant ==
  ASSUME W = 8, NEW m, m.op \in DOMAIN AP!Operands, m.cond \in AP!conditions, Fits(m),
         m.op \in Numbers => Plain(m.args[Len(m.args)])
  PROVE  Put(m) \in Instruction /\ Put(m).op # "EXT" /\ ReadBack(Put(m)) = Meant(m)
<1>1. PICK cond : cond = Condition(m.cond)
  OBVIOUS
<1>2. cond \in SUBSET FlagValues
  BY <1>1, ConditionType
<1>3. PICK o : o = Put(m).op
  OBVIOUS
<1>4. o \in Ops /\ o # "EXT"
  BY <1>3, PutOps
<1>5. ASSUME NEW a \in Word, NEW b \in Word, Put(m) = [op |-> o, cond |-> cond, a |-> a, b |-> b]
      PROVE  Put(m) \in Instruction
  BY <1>2, <1>4, <1>5 DEF Instruction
<1>6. CASE m.op = "jmp" /\ Len(m.args) = 1
  <2>1. PICK a, b : a = HighByte(m.args[1]) /\ b = LowByte(m.args[1])
    OBVIOUS
  <2>2. a \in Word /\ b \in Word
    BY <2>1, WordOfType DEF HighByte, LowByte
  <2>3. o = "JPI" /\ Put(m) = [op |-> o, cond |-> cond, a |-> a, b |-> b]
    BY <1>1, <1>3, <1>6, <2>1 DEF Put
  <2>4. Meant(m) = Put(m)
    BY <1>6 DEF Meant, Numbers
  <2>5. ReadBack(Put(m)) = Put(m)
    BY <2>3 DEF ReadBack
  <2> QED
    BY <1>3, <1>4, <1>5, <2>2, <2>3, <2>4, <2>5
<1>7. CASE m.op = "nop"
  <2>1. o = "NOP" /\ Put(m) = [op |-> o, cond |-> cond, a |-> Zero, b |-> Zero]
    BY <1>1, <1>3, <1>7 DEF Put, opcodeOf
  <2>2. Meant(m) = [Put(m) EXCEPT !.cond = FlagValues]
    BY <1>7 DEF Meant, Numbers
  <2>3. ReadBack(Put(m)) = Meant(m)
    BY <2>1, <2>2 DEF ReadBack
  <2> QED
    BY <1>3, <1>4, <1>5, <2>1, <2>3, ZeroType
<1>8. ASSUME NEW a \in Word, NEW l, NumberWord(l), m.op \in Numbers, l = m.args[Len(m.args)],
             Put(m) = [op |-> o, cond |-> cond, a |-> a, b |-> Immediate(l)]
      PROVE  Put(m) \in Instruction /\ ReadBack(Put(m)) = Meant(m)
  <2>1. PICK b : b = Immediate(l)
    OBVIOUS
  <2>2. b \in Word /\ b = WordOf(NumberMeant(l))
    BY <1>8, <2>1, PlainIsRead, WordOfType
  <2>3. Put(m) \in Instruction
    BY <1>5, <1>8, <2>1, <2>2
  <2>4. Meant(m) = [Put(m) EXCEPT !.b = b]
    <3>1. m.op \in Numbers /\ m.op # "nop"
      BY <1>8 DEF Numbers
    <3>2. Meant(m) = [Put(m) EXCEPT !.b = WordOf(NumberMeant(m.args[Len(m.args)]))]
      BY <3>1, Zenon DEF Meant
    <3> QED
      BY <1>8, <2>2, <3>2, Zenon
  <2>5. Meant(m) = Put(m)
    BY <1>8, <2>1, <2>4
  <2>6. o # "NOP"
    BY <1>3, <1>8 DEF Numbers, Put, opcodeOf
  <2>7. ReadBack(Put(m)) = Put(m)
    BY <1>3, <2>6 DEF ReadBack
  <2> QED
    BY <2>3, <2>5, <2>7
<1>9. CASE m.op = "cid" /\ Len(m.args) = 1 /\ NumberWord(m.args[1])
  <2>1. PICK l : l = m.args[1]
    OBVIOUS
  <2>2. Put(m) = [op |-> o, cond |-> cond, a |-> Zero, b |-> Immediate(l)]
    BY <1>1, <1>3, <1>9, <2>1 DEF Put
  <2>3. m.op \in Numbers /\ NumberWord(l) /\ l = m.args[Len(m.args)]
    BY <1>9, <2>1 DEF Numbers
  <2> QED
    BY <1>3, <1>4, <1>8, <2>2, <2>3, ZeroType
<1>10. CASE /\ m.op \in {"set", "ctr", "shr"} /\ Len(m.args) = 2
            /\ RegisterWord(m.args[1]) /\ NumberWord(m.args[2])
  <2>1. PICK a, l : a = RegisterSet(m.args[1]) /\ l = m.args[2]
    OBVIOUS
  <2>2. a \in Word
    BY <1>10, <2>1, RegisterSetType
  <2>3. Put(m) = [op |-> o, cond |-> cond, a |-> a, b |-> Immediate(l)]
    BY <1>1, <1>3, <1>10, <2>1 DEF Put
  <2>4. m.op \in Numbers /\ NumberWord(l) /\ l = m.args[Len(m.args)]
    BY <1>10, <2>1 DEF Numbers
  <2> QED
    BY <1>3, <1>4, <1>8, <2>2, <2>3, <2>4
<1>11. CASE /\ m.op \in {"ldm", "stm", "jmp", "nad", "and", "xor", "mov", "add", "cmp"}
            /\ Len(m.args) = 2
            /\ RegisterWord(m.args[1]) /\ RegisterWord(m.args[2])
  <2>1. PICK a, b : a = RegisterSet(m.args[1]) /\ b = RegisterSet(m.args[2])
    OBVIOUS
  <2>2. a \in Word /\ b \in Word
    BY <1>11, <2>1, RegisterSetType
  <2>3. Put(m) = [op |-> o, cond |-> cond, a |-> a, b |-> b]
    BY <1>1, <1>3, <1>11, <2>1 DEF Put
  <2>4. Meant(m) = Put(m)
    BY <1>11 DEF Meant, Numbers
  <2>5. o # "NOP"
    BY <1>3, <1>11 DEF Put, opcodeOf
  <2>6. ReadBack(Put(m)) = Put(m)
    BY <1>3, <2>5 DEF ReadBack
  <2> QED
    BY <1>3, <1>4, <1>5, <2>2, <2>3, <2>4, <2>6
<1> QED
  BY <1>6, <1>7, <1>9, <1>10, <1>11 DEF Fits

(***************************************************************************)
(* From a source to the program that it means.                             *)
(***************************************************************************)

\* Sources whose programs come through, and what those are.
Survivable(source) ==
  /\ Source(source)!WellFormed
  /\ A!INSTRUCTION_SIZE * Cardinality(Source(source)!Statements) < OffsetMod
  /\ AllPlain(Source(source)!Meaning)

\* The program that a source means.
MeantBy(source) == ProgramOf(Source(source)!Meaning)

\* A program file's bytes hold what the source means.
ImageOf(image, source) ==
  Survivable(source) =>
    /\ image \in Seq(Byte) /\ \E m \in Nat : Len(image) = 3 * m
    /\ Readable(image) /\ toProgram(image) = MeantBy(source)

\* No step changes what is said of a source.
LEMMA SourceRigid ==
  ASSUME NEW source
  PROVE  /\ Survivable(source)' = Survivable(source) /\ MeantBy(source)' = MeantBy(source)
         /\ \A image : ImageOf(image, source)' = ImageOf(image, source)
<1>1. Survivable(source)' = Survivable(source)
  BY DEF Survivable
<1>2. MeantBy(source)' = MeantBy(source)
  BY DEF MeantBy
<1>3. \A image : ImageOf(image, source)' = ImageOf(image, source)
  BY <1>1, <1>2 DEF ImageOf
<1> QED
  BY <1>1, <1>2, <1>3

\* An assembly without an error has the result that the source means (assemble).
LEMMA ResultMeant ==
  ASSUME AP!AssemblyInv, phase = "done", Survivable(tokens)
  PROVE  AP!IsSource(tokens) /\ result = AP!Meaning /\ Source(tokens)!Meaning = AP!Meaning
<1>1. AP!WellFormed
  BY SameWellFormed DEF Survivable
<1>2. AP!INSTRUCTION_SIZE * AP!Cardinality(AP!Statements) < OffsetMod
  <2>1. A!INSTRUCTION_SIZE = AP!INSTRUCTION_SIZE
    BY DEF A!INSTRUCTION_SIZE, AP!INSTRUCTION_SIZE
  <2>2. Cardinality(Source(tokens)!Statements) = AP!Cardinality(AP!Statements)
    <3>1. Cardinality(Source(tokens)!Statements) = Cardinality(AP!Statements)
      BY SameStatements, Zenon
    <3> QED
      BY <3>1, SameCardinality, Zenon
  <2>3. A!INSTRUCTION_SIZE * Cardinality(Source(tokens)!Statements) < OffsetMod
    BY DEF Survivable
  <2> QED
    BY <2>1, <2>2, <2>3, Zenon
<1>3. AP!Assembles
  BY DEF AP!AssemblyInv, AP!CodeInv, AP!MeaningInv, AP!BlocksInv, AP!Assembles
<1>4. AP!Assembled
  BY <1>1, <1>2, <1>3 DEF AP!Assembles
<1>5. AP!IsSource(tokens)
  BY DEF AP!AssemblyInv, AP!Windows
<1> QED
  BY <1>4, <1>5, SameMeaning DEF AP!Assembled

\* The image of a source that comes through holds what it means (bake).
LEMMA ResultImage ==
  ASSUME W = 8, AsmInv, stage = "assembling", phase = "done", NEW image, image = Bytes(result)
  PROVE  ImageOf(image, tokens)
<1> SUFFICES ASSUME Survivable(tokens)
             PROVE  /\ image \in Seq(Byte) /\ \E m \in Nat : Len(image) = 3 * m
                    /\ Readable(image) /\ toProgram(image) = MeantBy(tokens)
  BY DEF ImageOf
<1>1. AP!AssemblyInv /\ Worded(tokens) /\ Known(result)
  BY DEF AsmInv
<1>2. AP!IsSource(tokens) /\ result = AP!Meaning /\ Source(tokens)!Meaning = AP!Meaning
  BY <1>1, ResultMeant
<1>3. PICK meaning : meaning = AP!Meaning
  OBVIOUS
<1>4. meaning = result /\ meaning = Source(tokens)!Meaning
  BY <1>2, <1>3
<1>5. PICK k \in Nat : k = Len(meaning) /\ DOMAIN meaning = 1..k
  <2>1. PICK N \in Nat : N = AP!Cardinality(AP!Statements)
    BY <1>2, MeaningHolds
  <2>2. DOMAIN meaning = 1..N
    BY <1>3, <2>1 DEF AP!Meaning
  <2>3. meaning = [n \in 1..N |-> meaning[n]]
    BY <1>3, <2>1, Zenon DEF AP!Meaning
  <2>4. Len(meaning) = N
    BY <2>3
  <2> QED
    BY <2>2, <2>4
<1>6. PICK S : S = {meaning[n] : n \in 1..k}
  OBVIOUS
<1>7. meaning \in Seq(S)
  <2>1. meaning = [n \in 1..k |-> meaning[n]]
    BY <1>3, <1>5, Zenon DEF AP!Meaning
  <2>2. \A n \in 1..k : meaning[n] \in S
    BY <1>6
  <2>3. meaning \in [1..k -> S]
    BY <2>1, <2>2
  <2> QED
    BY <2>3, SeqDef
<1>8. ASSUME NEW n \in DOMAIN meaning
      PROVE  /\ Put(meaning[n]) \in Instruction /\ Put(meaning[n]).op # "EXT"
             /\ ReadBack(Put(meaning[n])) = Meant(meaning[n])
  <2>1. PICK m : m = meaning[n]
    OBVIOUS
  <2>2. Fits(m)
    BY <1>1, <1>2, <1>3, <2>1, MeaningFits
  <2>3. m.op \in DOMAIN AP!Operands /\ m.cond \in AP!conditions
    BY <1>1, <1>4, <1>5, <2>1 DEF Known
  <2>4. m.op \in Numbers => Plain(m.args[Len(m.args)])
    <3>1. AllPlain(meaning)
      BY <1>4 DEF Survivable
    <3> QED
      BY <2>1, <3>1, Zenon DEF AllPlain
  <2> QED
    BY <2>1, <2>2, <2>3, <2>4, PutIsMeant
<1>9. /\ Bytes(meaning) \in Seq(0..255) /\ Len(Bytes(meaning)) = 3 * Len(meaning)
      /\ Readable(Bytes(meaning))
      /\ toProgram(Bytes(meaning)) = [n \in DOMAIN meaning |-> ReadBack(Put(meaning[n]))]
  BY <1>7, <1>8, ImageReadsBack
<1>10. image = Bytes(meaning)
  BY <1>4
<1>11. [n \in DOMAIN meaning |-> ReadBack(Put(meaning[n]))] = ProgramOf(meaning)
  BY <1>8, Zenon DEF ProgramOf
<1>12. toProgram(image) = MeantBy(tokens)
  BY <1>4, <1>9, <1>10, <1>11, Zenon DEF MeantBy
<1>13. image \in Seq(Byte) /\ Len(image) = 3 * k /\ Readable(image)
  BY <1>5, <1>9, <1>10 DEF Byte
<1> QED
  BY <1>12, <1>13

(***************************************************************************)
(* Through the files.                                                      *)
(***************************************************************************)

\* What a file that was assembled holds.
Form(hex, image) == IF hex THEN HexText(image) ELSE image

\* Every file that was assembled holds the image of its source, in its form.
FilesKept ==
  \A path \in DOMAIN written :
    /\ path \in DOMAIN files
    /\ \E image : files[path] = Form(written[path].hex, image) /\ ImageOf(image, written[path].tokens)

\* An input is the values of its option, whatever the step.
Joined(given, option) ==
  LET joined[n \in 0..Len(given[option])] ==
        IF n = 0 THEN <<>>
        ELSE joined[n - 1] \o (IF joined[n - 1] = <<>> THEN <<>> ELSE <<";">>)
               \o given[option][n]
  IN  joined[Len(given[option])]

\* It is that, before a step and after it.
LEMMA ValuesJoined ==
  \A option : Value(option) = Joined(values, option) /\ Value(option)' = Joined(values', option)
<1>1. \A option : Value(option) = Joined(values, option)
  BY Zenon DEF Value, Joined
<1>2. \A option : Value(option)' = Joined(values', option)
  BY Zenon DEF Value, Joined
<1> QED
  BY <1>1, <1>2

\* No other step than the writing of a file changes what files hold.
LEMMA FilesStay ==
  ASSUME FilesKept, UNCHANGED <<files, written>>
  PROVE  FilesKept'
<1> SUFFICES ASSUME NEW path \in DOMAIN written
             PROVE  /\ path \in DOMAIN files
                    /\ \E image : /\ files[path] = Form(written[path].hex, image)
                                  /\ ImageOf(image, written[path].tokens)'
  BY DEF FilesKept, Form
<1>1. PICK source : source = written[path].tokens
  OBVIOUS
<1>2. source = written'[path].tokens
  BY <1>1
<1>3. PICK image : files[path] = Form(written[path].hex, image) /\ ImageOf(image, source)
  BY <1>1 DEF FilesKept
<1>4. ImageOf(image, source)'
  BY <1>3, SourceRigid
<1> QED
  BY <1>1, <1>2, <1>3, <1>4 DEF FilesKept

\* What is written to a file is the image of what was assembled, in its form (save).
LEMMA FilesWritten ==
  ASSUME W = 8, AsmInv, FilesKept, WriteFile
  PROVE  FilesKept'
<1>1. CASE UNCHANGED <<files, written>>
  BY <1>1, FilesStay
<1>2. CASE ~(failed \/ OutputPath = <<>>)
  <2>1. PICK bytes, source, output, hex :
          bytes = Bytes(result) /\ source = tokens /\ output = OutputPath /\ hex = Chosen("hex")
    OBVIOUS
  <2>2. /\ files' = [path \in DOMAIN files \cup {output} |->
                      IF path # output THEN files[path]
                      ELSE IF hex THEN HexText(bytes) ELSE bytes]
        /\ written' = [path \in DOMAIN written \cup {output} |->
                        IF path # output THEN written[path]
                        ELSE [hex |-> hex, tokens |-> source]]
    BY <1>2, <2>1 DEF WriteFile
  <2>3. ImageOf(bytes, source)
    <3>1. stage = "assembling" /\ phase = "done"
      BY DEF WriteFile, Assembled
    <3> QED
      BY <2>1, <3>1, ResultImage
  <2>4. ASSUME NEW path \in DOMAIN written'
        PROVE  /\ path \in DOMAIN files'
               /\ \E image : /\ files'[path] = Form(written'[path].hex, image)
                             /\ ImageOf(image, written[path].tokens)'
    <3>1. PICK from : from = written'[path].tokens
      OBVIOUS
    <3>2. CASE path = output
      <4>1. files'[path] = Form(hex, bytes) /\ written'[path].hex = hex /\ from = source
            /\ path \in DOMAIN files'
        BY <2>2, <3>1, <3>2 DEF Form
      <4>2. ImageOf(bytes, from)'
        BY <2>3, <4>1, SourceRigid
      <4> QED
        BY <3>1, <4>1, <4>2
    <3>3. CASE path # output
      <4>1. path \in DOMAIN written /\ written'[path] = written[path]
        BY <2>2, <3>3
      <4>2. path \in DOMAIN files
        BY <4>1 DEF FilesKept
      <4>3. path \in DOMAIN files' /\ files'[path] = files[path]
        BY <2>2, <3>3, <4>2
      <4>4. from = written[path].tokens
        BY <3>1, <4>1
      <4>5. PICK image : files[path] = Form(written[path].hex, image) /\ ImageOf(image, from)
        BY <4>1, <4>4 DEF FilesKept
      <4>6. ImageOf(image, from)'
        BY <4>5, SourceRigid
      <4> QED
        BY <3>1, <4>1, <4>3, <4>5, <4>6
    <3> QED
      BY <3>2, <3>3
  <2> QED
    BY <2>4 DEF FilesKept, Form
<1>3. failed \/ OutputPath = <<>> => UNCHANGED <<files, written>>
  BY DEF WriteFile
<1> QED
  BY <1>1, <1>2, <1>3

\* A file that was assembled is read as the program that its source means (load).
LEMMA LoadReads ==
  ASSUME FilesKept, NEW input, input = Value("input"), input \in DOMAIN written,
         written[input].hex = Chosen("hex"), NEW source, source = written[input].tokens,
         Survivable(source), NEW bytes, bytes = loadBinaryInput
  PROVE  Readable(bytes) /\ toProgram(bytes) = MeantBy(source)
<1>1. PICK image : files[input] = Form(written[input].hex, image) /\ ImageOf(image, source)
  BY DEF FilesKept
<1>2. /\ image \in Seq(Byte) /\ \E m \in Nat : Len(image) = 3 * m
      /\ Readable(image) /\ toProgram(image) = MeantBy(source)
  BY <1>1 DEF ImageOf
<1>3. decodeHexString(HexText(image)) = image
  BY <1>2, HexReadsBack
<1>4. bytes = image
  BY <1>1, <1>3 DEF loadBinaryInput, Form
<1> QED
  BY <1>2, <1>4

\* What ProgramsSurvive says of what was loaded.
Survives(prog, assembled, source, from, hex, input) ==
  IF assembled
  THEN Survivable(source) => prog = MeantBy(source)
  ELSE input \in DOMAIN from /\ from[input].hex = hex =>
         (Survivable(from[input].tokens) => prog = MeantBy(from[input].tokens))

\* ProgramsSurvive says so, before a step and after it.
LEMMA SurvivalIsThat ==
  /\ ProgramsSurvive <=>
       (Loaded => Survives(program, Chosen("assemble"), tokens, written, Chosen("hex"), Value("input")))
  /\ ProgramsSurvive' <=>
       (Loaded' => Survives(program, Chosen("assemble"), tokens, written, Chosen("hex"), Value("input"))')
<1>1. \A source : IsProgramOf(source) <=> (Survivable(source) => program = MeantBy(source))
  BY DEF IsProgramOf, Survivable, MeantBy
<1>2. \A source : IsProgramOf(source)' <=> (Survivable(source)' => program' = MeantBy(source)')
  BY DEF IsProgramOf, Survivable, MeantBy
<1>3. ProgramsSurvive <=>
        (Loaded => Survives(program, Chosen("assemble"), tokens, written, Chosen("hex"), Value("input")))
  BY <1>1, Zenon DEF ProgramsSurvive, Survives
<1>4. ProgramsSurvive' <=>
        (Loaded' => Survives(program, Chosen("assemble"), tokens, written, Chosen("hex"), Value("input"))')
  BY <1>2, Zenon DEF ProgramsSurvive, Survives
<1> QED
  BY <1>3, <1>4

\* It does not depend on when it is said.
LEMMA SurvivesRigid ==
  ASSUME NEW prog, NEW assembled, NEW source, NEW from, NEW hex, NEW input
  PROVE  Survives(prog, assembled, source, from, hex, input)' = Survives(prog, assembled, source, from, hex, input)
<1>1. PICK other : other = from[input].tokens
  OBVIOUS
<1>2. /\ Survivable(source)' = Survivable(source) /\ MeantBy(source)' = MeantBy(source)
      /\ Survivable(other)' = Survivable(other) /\ MeantBy(other)' = MeantBy(other)
  BY SourceRigid
<1> QED
  BY <1>1, <1>2 DEF Survives

(***************************************************************************)
(* Programs come through: the invariant, step by step.                     *)
(***************************************************************************)

\* Programs come through, and nothing is listed while a process runs.
SurvivalInv ==
  /\ listing # <<>> => stage = "exited"
  /\ FilesKept
  /\ ProgramsSurvive

\* At the start nothing is loaded and no file was assembled.
LEMMA SurvivalInit == Init => SurvivalInv
<1> SUFFICES ASSUME Init PROVE SurvivalInv
  OBVIOUS
<1>1. listing = <<>> /\ stage = "exited" /\ status = 0 /\ DOMAIN written = {}
  BY DEF Init
<1>2. ~Loaded
  BY <1>1 DEF Loaded, SIGABRT
<1> QED
  BY <1>1, <1>2 DEF SurvivalInv, FilesKept, ProgramsSurvive

\* Nothing is loaded yet, or the process ends without it.
LEMMA NothingLoaded ==
  ASSUME listing' = <<>>, stage' # "console",
         stage' # "exited" \/ status' # SIGABRT \/ Chosen("assemble")'
  PROVE  ProgramsSurvive'
  BY DEF ProgramsSurvive, Loaded

\* A program that is run at once is what was assembled (assemble, emulate).
LEMMA RunAssembledSurvives ==
  ASSUME W = 8, AsmInv, FileInv, SurvivalInv, RunAssembled
  PROVE  SurvivalInv'
<1>1. /\ stage = "assembling" /\ phase = "done" /\ Chosen("assemble")
      /\ UNCHANGED <<usages, values, tokens, listing, files, written>>
  BY DEF RunAssembled, Assembled, FileInv, argumentVars, collectorVars, assemblerVars, worldVars
<1>2. Chosen("assemble")' /\ listing' = <<>>
  BY <1>1 DEF Chosen, SurvivalInv
<1>3. FilesKept'
  BY <1>1, FilesStay DEF SurvivalInv
<1>4. CASE stage' # "console"
  BY <1>2, <1>3, <1>4, NothingLoaded DEF SurvivalInv
<1>5. CASE stage' = "console"
  <2>1. ~failed
    BY <1>5 DEF RunAssembled, GiveUp, Exit
  <2>2. Emulate(Bytes(result))
    BY <2>1 DEF RunAssembled
  <2>3. PICK bytes, source : bytes = Bytes(result) /\ source = tokens
    OBVIOUS
  <2>4. program' = toProgram(bytes)
    BY <1>5, <2>2, <2>3 DEF Emulate, Exit
  <2>5. ImageOf(bytes, source)
    BY <1>1, <2>3, ResultImage
  <2>6. Survivable(source) => program' = MeantBy(source)
    BY <2>4, <2>5 DEF ImageOf
  <2>7. PICK prog, from, hex, input :
          prog = program' /\ from = written' /\ hex = Chosen("hex")' /\ input = Value("input")'
    OBVIOUS
  <2>8. Survives(prog, TRUE, source, from, hex, input)
    BY <2>6, <2>7 DEF Survives
  <2>9. Survives(prog, TRUE, source, from, hex, input)'
    BY <2>8, SurvivesRigid
  <2>10. PICK assembled : assembled = Chosen("assemble")'
    OBVIOUS
  <2>11. Survives(program, Chosen("assemble"), tokens, written, Chosen("hex"), Value("input"))'
    <3>1. Survivable(source)' => program' = MeantBy(source)'
      BY <2>6, SourceRigid
    <3>2. tokens' = source
      BY <1>1, <2>3
    <3> QED
      BY <1>2, <3>1, <3>2 DEF Survives
  <2>12. ProgramsSurvive'
    BY <2>11, SurvivalIsThat
  <2> QED
    BY <1>2, <1>3, <2>12 DEF SurvivalInv
<1> QED
  BY <1>4, <1>5

\* What is loaded from a file that was assembled is what its source means, and
\* that is readable (load).
LEMMA LoadedSurvives ==
  ASSUME FilesKept, Loading, UNCHANGED <<usages, values, written>>,
         NEW bytes, bytes = loadBinaryInput, Readable(bytes) => program' = toProgram(bytes)
  PROVE  ProgramsSurvive'
<1>1. PICK input, hex, from : input = Value("input") /\ hex = Chosen("hex") /\ from = written
  OBVIOUS
<1>2. Value("input")' = input
  BY <1>1, ValuesJoined
<1>3. ~Chosen("assemble")' /\ Chosen("hex")' = hex /\ written' = from
  BY <1>1 DEF Loading, Chosen
<1>4. ASSUME input \in DOMAIN from, from[input].hex = hex, NEW source, source = from[input].tokens,
             Survivable(source)'
      PROVE  program' = MeantBy(source)'
  <2>1. Survivable(source) /\ MeantBy(source)' = MeantBy(source)
    BY <1>4, SourceRigid
  <2>2. Readable(bytes) /\ toProgram(bytes) = MeantBy(source)
    BY <1>1, <1>4, <2>1, LoadReads
  <2> QED
    BY <2>1, <2>2
<1>5. Survives(program, Chosen("assemble"), tokens, written, Chosen("hex"), Value("input"))'
  BY <1>2, <1>3, <1>4 DEF Survives
<1> QED
  BY <1>5, SurvivalIsThat

\* Reading a program file keeps the invariant, whether it is listed or run.
LEMMA LoadSurvives ==
  ASSUME SurvivalInv, Disassemble \/ RunLoaded
  PROVE  SurvivalInv'
<1>1. Loading /\ UNCHANGED <<usages, values, files, written>>
  BY DEF Disassemble, RunLoaded, argumentVars, collectorVars, worldVars
<1>2. PICK bytes : bytes = loadBinaryInput
  OBVIOUS
<1>3. Readable(bytes) => program' = toProgram(bytes)
  BY <1>2 DEF Disassemble, RunLoaded, Emulate
<1>4. ProgramsSurvive'
  BY <1>1, <1>2, <1>3, LoadedSurvives DEF SurvivalInv
<1>5. FilesKept'
  BY <1>1, FilesStay DEF SurvivalInv
<1>6. listing' # <<>> => stage' = "exited"
  <2>1. CASE Disassemble
    BY <2>1 DEF Disassemble, Exit
  <2>2. CASE RunLoaded
    BY <2>2 DEF RunLoaded, Loading, Dispatching, SurvivalInv
  <2> QED
    BY <2>1, <2>2
<1> QED
  BY <1>4, <1>5, <1>6 DEF SurvivalInv

\* A step that changes nothing keeps what was loaded.
LEMMA NothingSurvives ==
  ASSUME SurvivalInv, UNCHANGED vars
  PROVE  SurvivalInv'
<1>1. /\ UNCHANGED <<usages, values, parse>> /\ UNCHANGED <<stage, status, program, listing>>
      /\ UNCHANGED <<files, written, tokens>>
  BY DEF vars, argumentVars, collectorVars, assemblerVars, processVars, worldVars
<1>2. PICK prog, assembled, source, from, hex, input :
        /\ prog = program /\ assembled = Chosen("assemble") /\ source = tokens
        /\ from = written /\ hex = Chosen("hex") /\ input = Value("input")
  OBVIOUS
<1>3. /\ program' = prog /\ Chosen("assemble")' = assembled /\ tokens' = source
      /\ written' = from /\ Chosen("hex")' = hex
  BY <1>1, <1>2 DEF Chosen
<1>4. Value("input")' = input
  BY <1>1, <1>2, ValuesJoined
<1>5. ASSUME Loaded' PROVE Survives(prog, assembled, source, from, hex, input)'
  <2>1. Loaded
    BY <1>1, <1>5 DEF Loaded, Chosen
  <2>2. Survives(program, Chosen("assemble"), tokens, written, Chosen("hex"), Value("input"))
    BY <2>1, SurvivalIsThat DEF SurvivalInv
  <2>3. Survives(prog, assembled, source, from, hex, input)
    BY <1>2, <2>2
  <2> QED
    BY <2>3, SurvivesRigid
<1>6. ASSUME Loaded'
      PROVE  Survives(program, Chosen("assemble"), tokens, written, Chosen("hex"), Value("input"))'
  BY <1>3, <1>4, <1>5, <1>6 DEF Survives
<1>7. ProgramsSurvive'
  BY <1>6, SurvivalIsThat
<1>8. FilesKept'
  BY <1>1, FilesStay DEF SurvivalInv
<1> QED
  BY <1>1, <1>7, <1>8 DEF SurvivalInv

\* A program is loaded by no other step, and a program file written by only one.
LEMMA SurvivalStep ==
  ASSUME W = 8
  PROVE  AsmInv /\ FileInv /\ SurvivalInv /\ [Next]_vars => SurvivalInv'
<1> SUFFICES ASSUME AsmInv, FileInv, SurvivalInv, [Next]_vars
             PROVE  SurvivalInv'
  OBVIOUS
<1>1. CASE Invoke \/ ReadArguments \/ RefuseArguments \/ NoTask \/ StartAssembling
           \/ ReadText \/ Abort \/ StartParsing \/ Assemble \/ MissingFile \/ Quit
  <2>1. UNCHANGED <<files, written>> /\ listing' = <<>>
    BY <1>1 DEF SurvivalInv, Invoke, ReadArguments, RefuseArguments, NoTask, StartAssembling,
                ReadText, Abort, StartParsing, Assemble, MissingFile, Quit, Dispatching,
                processVars, worldVars
  <2>2. stage' # "console"
    BY <1>1 DEF Invoke, ReadArguments, RefuseArguments, NoTask, StartAssembling, ReadText, Abort,
                StartParsing, Assemble, MissingFile, Quit, Dispatching, processVars, Exit, GiveUp
  <2>3. stage' # "exited" \/ status' # SIGABRT \/ Chosen("assemble")'
    <3>1. CASE Abort
      BY <3>1 DEF Abort, FileInv, Chosen, argumentVars, collectorVars
    <3>2. CASE ~Abort
      BY <1>1, <3>2 DEF Invoke, ReadArguments, RefuseArguments, NoTask, StartAssembling, ReadText,
                StartParsing, Assemble, MissingFile, Quit, Dispatching, processVars, Exit,
                GiveUp, SIGABRT
    <3> QED
      BY <3>1, <3>2
  <2>4. ProgramsSurvive' /\ FilesKept'
    BY <2>1, <2>2, <2>3, NothingLoaded, FilesStay DEF SurvivalInv
  <2> QED
    BY <2>1, <2>4 DEF SurvivalInv
<1>2. CASE WriteFile
  <2>1. listing' = <<>> /\ stage' = "exited" /\ status' \in {0, 1, 2}
    BY <1>2 DEF WriteFile, Assembled, SurvivalInv, Exit, GiveUp
  <2>2. ProgramsSurvive'
    BY <2>1, NothingLoaded DEF SIGABRT
  <2>3. FilesKept'
    BY <1>2, FilesWritten DEF SurvivalInv
  <2> QED
    BY <2>1, <2>2, <2>3 DEF SurvivalInv
<1>3. CASE RunAssembled
  BY <1>3, RunAssembledSurvives
<1>4. CASE Disassemble \/ RunLoaded
  BY <1>4, LoadSurvives
<1>5. CASE UNCHANGED vars
  BY <1>5, NothingSurvives
<1> QED
  BY <1>1, <1>2, <1>3, <1>4, <1>5 DEF Next, Process

\* Whatever is loaded from a file that was assembled, or run at once, is the
\* program that its source means, for bytes, but for the numbers that
\* ProgramsSurvive leaves out (controller.cpp, reader.cpp, writer.cpp).
THEOREM AssembledProgramsSurvive == ASSUME W = 8 PROVE Spec => []ProgramsSurvive
<1>1. AsmInv /\ FileInv /\ SurvivalInv /\ [Next]_vars => SurvivalInv'
  BY SurvivalStep
<1>2. SurvivalInv => ProgramsSurvive
  BY DEF SurvivalInv
<1> QED
  BY <1>1, <1>2, TextInit, TextStep, GapInit, GapStepNext, AsmInit, AsmStep, FileInit, FileStep,
     SurvivalInit, PTL DEF Spec
=============================================================================
