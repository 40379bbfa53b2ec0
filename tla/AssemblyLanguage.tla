-------------------------- MODULE AssemblyLanguage --------------------------
(***************************************************************************)
(* What an assembly source means, told of the whole source at once, and    *)
(* the assembler's properties against it.                                  *)
(***************************************************************************)
EXTENDS Assembler

Places == DOMAIN tokens

LineStart(p) ==
  \/ p = 1
  \/ tokens[p - 1].type \in {"BREAK", "LABEL"}
  \/ Is(tokens[p - 1], "begin")
  \/ Is(tokens[p - 1], "end")

Header(p) ==
  /\ p + 2 \in Places
  /\ Is(tokens[p], "if")
  /\ tokens[p + 1].type = "IDENTIFIER"
  /\ tokens[p + 1].cond = "" /\ tokens[p + 1].lexeme \in conditions
  /\ Is(tokens[p + 2], "begin")

Line(p, kinds) ==
  /\ p + Len(kinds) + 1 \in Places
  /\ \A i \in DOMAIN kinds : tokens[p + i].type = kinds[i]
  /\ tokens[p + Len(kinds) + 1].type = "BREAK"

JumpToLabel(p) == tokens[p].lexeme = "jmp" /\ Line(p, <<"IDENTIFIER">>)

StatementAt(p) ==
  /\ LineStart(p)
  /\ tokens[p].type = "IDENTIFIER"
  /\ tokens[p].cond \in conditions \cup {""}
  /\ tokens[p].lexeme \in DOMAIN Operands
  /\ JumpToLabel(p) \/ Line(p, Operands[tokens[p].lexeme])

Statements == {p \in Places : StatementAt(p)}

Balanced(first, last) ==
  /\ Count(first, last, "begin") = Count(first, last, "end")
  /\ \A p \in first..last : Count(first, p, "end") <= Count(first, p, "begin")

LabelsAt(name) == {p \in Places : tokens[p].type = "LABEL" /\ Name(tokens[p]) = name}

LinesWellFormed ==
  \A p \in Places :
    /\ LineStart(p) => \/ tokens[p].type \in {"BREAK", "LABEL"}
                       \/ Is(tokens[p], "end")
                       \/ Header(p)
                       \/ StatementAt(p)
    /\ Is(tokens[p], "begin") => p > 2 /\ LineStart(p - 2) /\ Header(p - 2)
    /\ Is(tokens[p], "end") => LineStart(p)
    /\ tokens[p].type = "LABEL" => LineStart(p)

LabelsWellFormed ==
  /\ \A p \in Places :
       tokens[p].type = "LABEL" => LabelsAt(Name(tokens[p])) = {p}
  /\ \A p \in Statements : JumpToLabel(p) => LabelsAt(Name(tokens[p + 1])) # {}

WellFormed == LinesWellFormed /\ LabelsWellFormed /\ Balanced(1, Len(tokens))

\* The begin of the innermost block around a place.
Enclosing(p) ==
  {b \in 1..p-1 : Is(tokens[b], "begin") /\ Balanced(b + 1, p - 1)}

MeantCondition(p) ==
  CASE tokens[p].cond # "" -> tokens[p].cond
    [] tokens[p].cond = "" /\ Enclosing(p) = {} -> "t"
    [] OTHER -> tokens[(CHOOSE b \in Enclosing(p) : TRUE) - 1].lexeme

StatementsBefore(p) == Cardinality({q \in Statements : q < p})

MeantArguments(p) ==
  IF JumpToLabel(p)
  THEN <<StatementsBefore(CHOOSE l \in LabelsAt(Name(tokens[p + 1])) : TRUE)>>
  ELSE Arguments(SubSeq(tokens, p + 1, Len(tokens)), Operands[tokens[p].lexeme])

\* Instructions in the order of their statements.
Meaning ==
  [n \in 1..Cardinality(Statements) |->
     LET p == CHOOSE q \in Statements : StatementsBefore(q) = n - 1
     IN  [op |-> tokens[p].lexeme, cond |-> MeantCondition(p), args |-> MeantArguments(p)]]

Assembled == phase = "done" /\ result = Meaning

(***************************************************************************)
(* Properties.                                                             *)
(***************************************************************************)
TypeOK ==
  /\ IsSource(tokens)
  /\ \A i \in DOMAIN parsers : parsers[i].offset \in 1..Len(tokens) + 1
  /\ \A link \in links : link.at \in DOMAIN code
  /\ \A name \in DOMAIN labels : labels[name] \in 0..INSTRUCTION_SIZE * Len(code)
  /\ \A n \in DOMAIN code : code[n].cond \in conditions
  /\ failed \in BOOLEAN
  /\ phase \in {"parsing", "raised", "done"}

\* A source that keeps the language's rules is accepted, and what is baked has
\* one instruction for each statement, in order, under its own condition or
\* that of the innermost block around it, and jumps that lead to what follows
\* their labels; as long as the labels' offsets fit the writer's width
\* (parseRoot, ConditionScopeGuard, putLabel, bake).
Assembles ==
  /\ phase # "parsing"
  /\ WellFormed
  /\ INSTRUCTION_SIZE * Cardinality(Statements) < OffsetMod
  => Assembled

\* Each open block has one condition on the writer's stack, and its parser only
\* reads tokens that the parser of the block around it has already passed: no
\* token is read twice (block, ConditionScopeGuard).
BlocksNest ==
  /\ Len(stack) = Len(parsers) + (IF phase = "raised" THEN 1 ELSE 0)
  /\ \A i \in 2..Len(parsers) : parsers[i].end < parsers[i - 1].offset

\* When all is read without an error and every label that is used is defined,
\* each link that is baked has a label with an offset: bake does not throw in
\* the middle of writing its result (getOrCreateLabel, putJmp, bake).
LinksResolve ==
  phase = "parsing" /\ Empty /\ Len(parsers) = 1 /\ ~failed /\ used \subseteq defined =>
    \A link \in links : link.label \in DOMAIN labels

\* The assembler comes to an end on every source, whatever is wrong with it:
\* each turn consumes a token although errors are caught and parsing goes on.
Terminates == <>(phase # "parsing")

(***************************************************************************)
(* What the documents say and the code does not do.                        *)
(***************************************************************************)
\* The README promises a 16-bit address space of instructions: a label is
\* reached in any program whose instructions have an address of that width.
LabelsReach ==
  /\ phase # "parsing"
  /\ WellFormed
  /\ Cardinality(Statements) < OffsetMod
  => Assembled
=============================================================================
