------------------------------- MODULE Writer -------------------------------
(***************************************************************************)
(* The instruction writer (MicroWriter): code in the order in which it is  *)
(* put, the stack of conditions of the blocks around it, and jumps that    *)
(* are linked with their labels when the program is baked.                 *)
(***************************************************************************)
EXTENDS Integers, Sequences

CONSTANT OffsetMod              \* byte offsets that a link can tell apart: 2^16

ASSUME OffsetAssumption == OffsetMod \in Nat \ {0}

VARIABLES
  stack,                        \* conditions, that of the innermost block last
  code,                         \* instructions, three bytes each
  links,                        \* jumps that wait for a label
  labels                        \* the byte offset of each label

writerVars == <<stack, code, links, labels>>

INSTRUCTION_SIZE == 3

WriterInit ==
  /\ stack = <<"t">>
  /\ code = <<>>
  /\ links = {}
  /\ labels = [name \in {} |-> 0]

Top == stack[Len(stack)]

PushCondition(cond) == stack' = Append(stack, cond)

PopCondition == stack' = SubSeq(stack, 1, Len(stack) - 1)

PutOp(op, cond, args) ==
  code' = Append(code, [op |-> op, cond |-> cond, args |-> args])

\* Faulty variant: the link is made behind the instruction.
PutLinkBehind(name) == links' = links \cup {[label |-> name, at |-> Len(code) + 2]}

\* Links the instruction that is put next.
PutLink(name) == links' = links \cup {[label |-> name, at |-> Len(code) + 1]}

PutLabel(name) ==
  labels' = [x \in DOMAIN labels \cup {name} |->
               IF x = name THEN INSTRUCTION_SIZE * Len(code) ELSE labels[x]]

\* Faulty variant: a target in bytes.
TargetInBytes(name) == labels[name] % OffsetMod

\* The byte offset is cut to its width before it becomes an instruction address.
Target(name) == (labels[name] % OffsetMod) \div INSTRUCTION_SIZE

Bake ==
  [n \in DOMAIN code |->
     IF \E link \in links : link.at = n
     THEN [code[n] EXCEPT !.args =
             <<Target((CHOOSE link \in links : link.at = n).label)>>]
     ELSE code[n]]
=============================================================================
