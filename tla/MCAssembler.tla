---------------------------- MODULE MCAssembler ----------------------------
(***************************************************************************)
(* Sources of at most MaxLines lines, bare and inside a block.             *)
(* What an operand reads is only handed on, so its lexeme is a name here.  *)
(***************************************************************************)
EXTENDS AssemblyLanguage, SequencesExt

CONSTANT MaxLines

Identifier(lexeme) == [type |-> "IDENTIFIER", cond |-> "", lexeme |-> lexeme]
Break == [type |-> "BREAK", cond |-> "", lexeme |-> ""]

NopLine == <<Identifier("nop"), Break>>
JumpLine ==
  <<[type |-> "IDENTIFIER", cond |-> "c", lexeme |-> "jmp"], Identifier("x"), Break>>
SetLine ==
  <<Identifier("set"), [type |-> "REGSET", cond |-> "", lexeme |-> "$1"],
    [type |-> "SYMBOL", cond |-> "", lexeme |-> ","],
    [type |-> "INTEGER", cond |-> "", lexeme |-> "5"], Break>>
LabelLine == <<[type |-> "LABEL", cond |-> "", lexeme |-> "x"]>>
OpenLine == <<Identifier("if"), Identifier("e"), Identifier("begin"), Break>>
InnerLine == <<Identifier("if"), Identifier("nz"), Identifier("begin")>>
StrangeLine == <<Identifier("if"), Identifier("x"), Identifier("begin")>>
HeadlessLine == <<Identifier("if"), Break>>
EndLine == <<Identifier("end"), Break>>
UnknownLine == <<Identifier("x"), Break>>
Unbroken == <<Identifier("nop")>>

Lines ==
  {NopLine, JumpLine, SetLine, LabelLine, OpenLine, InnerLine, StrangeLine,
   HeadlessLine, EndLine, UnknownLine, Unbroken}

MCSources ==
  LET bodies == {FlattenSeq(lines) : lines \in UNION {[1..n -> Lines] : n \in 0..MaxLines}}
  IN  {body \o <<Break>> : body \in bodies}
        \cup {OpenLine \o body \o EndLine \o <<Break>> : body \in bodies}
=============================================================================
