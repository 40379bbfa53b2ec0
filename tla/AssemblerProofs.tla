-------------------------- MODULE AssemblerProofs --------------------------
(***************************************************************************)
(* The assembler's invariants, for every source: blocks, parsers and       *)
(* conditions nest, what is baked has its labels, and it is what the       *)
(* source means.                                                           *)
(***************************************************************************)
EXTENDS AssemblyLanguage, WellFoundedInduction, FiniteSetTheorems, SequenceTheorems, TLAPS

(***************************************************************************)
(* The parser's searches.                                                  *)
(***************************************************************************)

\* A set of places has a first one.
LEMMA LeastPlace ==
  ASSUME NEW T \in SUBSET Nat, T # {}
  PROVE  \E x \in T : \A y \in T : x <= y
<1>1. \E x \in T : \A y \in T : ~(<<y, x>> \in OpToRel(<, Nat))
  BY NatLessThanWellFounded, WFMin
<1>2. PICK x \in T : \A y \in T : ~(<<y, x>> \in OpToRel(<, Nat))
  BY <1>1
<1>3. \A y \in T : ~(y < x)
  BY <1>2 DEF OpToRel
<1> QED
  BY <1>3

\* A search ends at one of its places or at the end of the window.
LEMMA FirstType ==
  ASSUME NEW places \in SUBSET Nat, NEW otherwise \in Nat
  PROVE  First(places, otherwise) \in Nat
  BY LeastPlace DEF First

\* Where a statement or a block ends is a place (until, block).
LEMMA SearchTypes ==
  ASSUME NEW start \in Nat, NEW end \in Nat
  PROVE  Until(start, end) \in Nat /\ Block(start, end) \in Nat
<1>1. ASSUME NEW S \in SUBSET (start..end-1)
      PROVE  {p + 1 : p \in S} \in SUBSET Nat
  OBVIOUS
<1>2. Until(start, end) \in Nat
  BY <1>1, FirstType DEF Until
<1>3. Block(start, end) \in Nat
  BY <1>1, FirstType DEF Block
<1> QED
  BY <1>2, <1>3

(***************************************************************************)
(* Blocks nest.                                                            *)
(***************************************************************************)

\* A parser begins at a place; what is behind it may be a place before.
Window == [offset: Nat, end: Int]

NestInv ==
  /\ parsers \in Seq(Window)
  /\ stack \in Seq(conditions)
  /\ phase # "raised" => parsers # <<>>
  /\ BlocksNest

\* The assembler begins with a source.
LEMMA SourceStarts == Init => IsSource(tokens) /\ Start
  BY SourcesAssumption DEF Init

\* At the start there is the parser of the whole source, and no block.
LEMMA NestInit == IsSource(tokens) /\ Start => NestInv
<1> SUFFICES ASSUME IsSource(tokens), Start PROVE NestInv
  OBVIOUS
<1>1. Len(tokens) \in Nat
  BY LenProperties DEF IsSource
<1>2. parsers = <<[offset |-> 1, end |-> Len(tokens) + 1]>> /\ stack = <<"t">> /\ phase = "parsing"
  BY SMTT(30) DEF Start, WriterInit
<1> QED
  BY <1>1, <1>2 DEF NestInv, BlocksNest, Window, conditions

\* Going on changes the place of the innermost parser and nothing else (advance).
LEMMA AdvanceShape ==
  ASSUME parsers \in Seq(Window), parsers # <<>>, NEW p \in Nat
  PROVE  /\ AdvanceTo(p) \in Seq(Window)
         /\ Len(AdvanceTo(p)) = Len(parsers)
         /\ AdvanceTo(p)[Len(parsers)].offset = p
         /\ \A i \in 1..Len(parsers) : AdvanceTo(p)[i].end = parsers[i].end
         /\ \A i \in 1..Len(parsers)-1 : AdvanceTo(p)[i] = parsers[i]
<1> DEFINE n == Len(parsers)
           last == [parsers[n] EXCEPT !.offset = p]
<1>1. n \in Nat /\ n > 0 /\ DOMAIN parsers = 1..n /\ n \in 1..n
  BY LenProperties, EmptySeq
<1>2. parsers[n] \in Window
  BY <1>1, ElementOfSeq
<1>3. AdvanceTo(p) = [parsers EXCEPT ![n] = last]
  BY DEF AdvanceTo
<1>4. last \in Window /\ last.offset = p /\ last.end = parsers[n].end
  BY <1>2 DEF Window
<1> HIDE DEF last
<1>5. AdvanceTo(p) \in Seq(Window) /\ Len(AdvanceTo(p)) = n
  BY <1>1, <1>3, <1>4, ExceptSeq
<1>6. \A i \in 1..n : AdvanceTo(p)[i] = IF i = n THEN last ELSE parsers[i]
  BY <1>1, <1>3
<1>7. ASSUME NEW i \in 1..n-1 PROVE AdvanceTo(p)[i] = parsers[i]
  <2>1. i \in 1..n /\ i # n
    <3>1. n \in Nat
      BY <1>1
    <3> HIDE DEF n
    <3> QED
      BY <3>1
  <2> QED
    BY <1>6, <2>1
<1> QED
  BY <1>1, <1>4, <1>5, <1>6, <1>7

\* A parser that still reads is at a place, and its end is one (empty).
LEMMA ParserType ==
  ASSUME NestInv, Parsing
  PROVE  /\ Len(parsers) \in Nat /\ Len(parsers) > 0
         /\ Parser.offset \in Nat /\ Parser.end \in Nat
<1>1. Len(parsers) \in Nat /\ Len(parsers) > 0
  BY LenProperties, EmptySeq DEF NestInv, Parsing
<1>2. Parser \in Window
  BY <1>1, ElementOfSeq DEF NestInv, Parser
<1> QED
  BY <1>1, <1>2 DEF Window, Parsing, Empty

\* The innermost parser may go on to any place: nobody is inside it (advance).
LEMMA AdvanceKeepsNest ==
  ASSUME NestInv, Parsing, NEW p \in Nat,
         parsers' = AdvanceTo(p), UNCHANGED <<stack, phase>>
  PROVE  NestInv'
<1>1. parsers \in Seq(Window) /\ parsers # <<>> /\ phase = "parsing"
  BY DEF NestInv, Parsing
<1>2. Len(parsers) \in Nat /\ Len(parsers) > 0
  BY ParserType
<1>3. /\ parsers' \in Seq(Window) /\ Len(parsers') = Len(parsers)
      /\ \A i \in 1..Len(parsers) : parsers'[i].end = parsers[i].end
      /\ \A i \in 1..Len(parsers)-1 : parsers'[i] = parsers[i]
  BY <1>1, AdvanceShape
<1>4. \A i \in 2..Len(parsers) : parsers'[i].end < parsers'[i - 1].offset
  <2> TAKE i \in 2..Len(parsers)
  <2>1. i \in 1..Len(parsers) /\ i - 1 \in 1..Len(parsers)-1
    BY <1>2
  <2>2. parsers[i].end < parsers[i - 1].offset
    BY DEF NestInv, BlocksNest
  <2> QED
    BY <1>3, <2>1, <2>2
<1>5. BlocksNest'
  BY <1>1, <1>3, <1>4 DEF NestInv, BlocksNest
<1>6. parsers' # <<>>
  BY <1>2, <1>3
<1> QED
  BY <1>3, <1>5, <1>6 DEF NestInv

\* A block's parser ends before the place to which the one around it goes on
\* (OpenBlock; block, ConditionScopeGuard).
LEMMA OpenKeepsNest ==
  ASSUME NestInv, OpenBlock
  PROVE  NestInv'
<1> DEFINE start == Parser.offset + 3
           after == Block(start, Parser.end)
           cond == tokens[Parser.offset + 1]
<1>1. Parsing /\ phase' = phase
  BY DEF OpenBlock
<1>2. Len(parsers) \in Nat /\ Len(parsers) > 0 /\ parsers # <<>>
  BY <1>1, ParserType DEF NestInv, Parsing
<1>3. start \in Nat /\ Parser.end \in Nat
  BY <1>1, ParserType
<1>4. after \in Nat
  BY <1>3, SearchTypes
<1>5. CASE cond.cond = "" /\ cond.lexeme \in conditions
  <2>1. /\ stack' = Append(stack, cond.lexeme)
        /\ parsers' = Append(AdvanceTo(after), [offset |-> start, end |-> after - 1])
    BY <1>5 DEF OpenBlock, PushCondition
  <2>2. AdvanceTo(after) \in Seq(Window) /\ Len(AdvanceTo(after)) = Len(parsers)
    BY <1>2, <1>4, AdvanceShape DEF NestInv
  <2>3. AdvanceTo(after)[Len(parsers)].offset = after
    BY <1>2, <1>4, AdvanceShape DEF NestInv
  <2>4. \A i \in 2..Len(parsers) :
           /\ AdvanceTo(after)[i].end = parsers[i].end
           /\ AdvanceTo(after)[i - 1].offset = parsers[i - 1].offset
    BY <1>2, <1>4, AdvanceShape DEF NestInv
  <2>5. parsers' \in Seq(Window) /\ stack' \in Seq(conditions)
    <3>1. [offset |-> start, end |-> after - 1] \in Window
      BY <1>3, <1>4 DEF Window
    <3> QED
      BY <1>5, <2>1, <2>2, <3>1, AppendProperties DEF NestInv
  <2>6. Len(parsers') = Len(parsers) + 1 /\ Len(stack') = Len(stack) + 1
    BY <2>1, <2>2 DEF NestInv
  <2>7. ASSUME NEW i \in 2..Len(parsers')
        PROVE  parsers'[i].end < parsers'[i - 1].offset
    <3>1. CASE i = Len(parsers) + 1
      BY <1>2, <1>4, <2>1, <2>2, <2>3, <3>1
    <3>2. CASE i \in 2..Len(parsers)
      <4>1. parsers'[i] = AdvanceTo(after)[i] /\ parsers'[i - 1] = AdvanceTo(after)[i - 1]
        BY <1>2, <2>1, <2>2, <3>2
      <4>2. parsers[i].end < parsers[i - 1].offset
        BY <3>2 DEF NestInv, BlocksNest
      <4> QED
        BY <2>4, <3>2, <4>1, <4>2
    <3> QED
      BY <1>2, <2>6, <3>1, <3>2
  <2>8. BlocksNest'
    BY <1>1, <1>2, <2>6, <2>7 DEF NestInv, BlocksNest
  <2> QED
    BY <1>1, <1>2, <2>5, <2>6, <2>8 DEF NestInv
<1>6. CASE ~(cond.cond = "" /\ cond.lexeme \in conditions)
  <2>1. parsers' = AdvanceTo(after) /\ UNCHANGED <<stack, phase>>
    BY <1>6 DEF OpenBlock
  <2> QED
    BY <1>1, <1>4, <2>1, AdvanceKeepsNest
<1> QED
  BY <1>5, <1>6

\* A block's parser and its condition go together (ConditionScopeGuard).
LEMMA CloseKeepsNest ==
  ASSUME NestInv, CloseBlock
  PROVE  NestInv'
<1> DEFINE n == Len(parsers)
<1>1. /\ n \in Nat /\ n > 1 /\ phase = "parsing" /\ phase' = phase
      /\ parsers' = SubSeq(parsers, 1, n - 1)
      /\ stack' = SubSeq(stack, 1, Len(stack) - 1)
  BY LenProperties DEF CloseBlock, PopCondition, NestInv
<1>2. Len(stack) = n
  BY <1>1 DEF NestInv, BlocksNest
<1>3. \A i \in 1..n-1 : parsers[i] \in Window /\ stack[i] \in conditions
  BY <1>1, <1>2, ElementOfSeq DEF NestInv
<1>4. /\ parsers' \in Seq(Window) /\ Len(parsers') = n - 1
      /\ \A i \in 1..n-1 : parsers'[i] = parsers[i]
  <2>1. \A i \in 1..(n-1)-1+1 : SubSeq(parsers, 1, n - 1)[i] = parsers[1+i-1]
    BY <1>1, <1>3, SubSeqProperties
  <2> QED
    BY <1>1, <1>3, <2>1, SubSeqProperties
<1>5. stack' \in Seq(conditions) /\ Len(stack') = n - 1
  BY <1>1, <1>2, <1>3, SubSeqProperties
<1>6. ASSUME NEW i \in 2..Len(parsers')
      PROVE  parsers'[i].end < parsers'[i - 1].offset
  <2>1. i \in 2..n /\ i \in 1..n-1 /\ i - 1 \in 1..n-1
    BY <1>1, <1>4
  <2>2. parsers[i].end < parsers[i - 1].offset
    BY <2>1 DEF NestInv, BlocksNest
  <2> QED
    BY <1>4, <2>1, <2>2
<1>7. Len(parsers') \in Nat /\ Len(parsers') > 0 /\ Len(stack') = Len(parsers')
  <2>1. n \in Nat /\ n > 1 /\ Len(parsers') = n - 1 /\ Len(stack') = n - 1
    BY <1>1, <1>4, <1>5
  <2> HIDE DEF n
  <2> QED
    BY <2>1
<1>8. BlocksNest'
  BY <1>1, <1>6, <1>7 DEF BlocksNest
<1>9. parsers' # <<>>
  BY <1>7
<1> QED
  BY <1>4, <1>5, <1>8, <1>9 DEF NestInv

\* An exception leaves all parsers and pops all conditions but the writer's own.
LEMMA RaiseKeepsNest ==
  ASSUME Raise
  PROVE  NestInv'
  BY DEF Raise, NestInv, BlocksNest, Window, conditions

\* Turns that read one statement go on to its end.
LEMMA StatementKeepsNest ==
  ASSUME NestInv, Parsing, parsers' = AdvanceTo(Until(Parser.offset, Parser.end)),
         UNCHANGED <<stack, phase>>
  PROVE  NestInv'
<1>1. Parser.offset \in Nat /\ Parser.end \in Nat
  BY ParserType
<1> QED
  BY <1>1, SearchTypes, AdvanceKeepsNest

\* Every turn keeps blocks, parsers and conditions nested.
LEMMA NestStep == NestInv /\ [Next]_vars => NestInv'
<1> SUFFICES ASSUME NestInv, [Next]_vars PROVE NestInv'
  OBVIOUS
<1>1. ASSUME Parsing PROVE Parser.offset + 1 \in Nat
  BY <1>1, ParserType
<1>2. CASE SkipBreak
  BY <1>1, <1>2, AdvanceKeepsNest DEF SkipBreak, writerVars
<1>3. CASE OpenBlock
  BY <1>3, OpenKeepsNest
<1>4. CASE BrokenHead
  BY <1>4, RaiseKeepsNest DEF BrokenHead
<1>5. CASE CloseBlock
  BY <1>5, CloseKeepsNest
<1>6. CASE DefineLabel
  BY <1>1, <1>6, AdvanceKeepsNest DEF DefineLabel
<1>7. CASE BrokenStatement
  BY <1>7, RaiseKeepsNest DEF BrokenStatement
<1>8. CASE WriteOperation
  BY <1>8, StatementKeepsNest DEF WriteOperation, WellHeaded, AtStatement
<1>9. CASE WriteJump
  BY <1>9, StatementKeepsNest DEF WriteJump, WellHeaded, AtStatement
<1>10. CASE RejectStatement
  BY <1>10, StatementKeepsNest DEF RejectStatement, WellHeaded, AtStatement, writerVars
<1>11. CASE Finish
  BY <1>11 DEF Finish, NestInv, BlocksNest, writerVars
<1>12. CASE UNCHANGED vars
  BY <1>12 DEF vars, parserVars, writerVars, NestInv, BlocksNest
<1> QED
  BY <1>2, <1>3, <1>4, <1>5, <1>6, <1>7, <1>8, <1>9, <1>10, <1>11, <1>12 DEF Next

\* Each open block has one condition on the writer's stack, and no parser reads
\* what the parser around it still has before it (block, ConditionScopeGuard).
THEOREM BlocksAlwaysNest == Spec => []BlocksNest
<1>1. NestInv => BlocksNest
  BY DEF NestInv
<1> QED
  BY <1>1, SourceStarts, NestInit, NestStep, PTL DEF Spec

(***************************************************************************)
(* Links resolve.                                                          *)
(***************************************************************************)

\* Labels have offsets when they are defined, and links are to labels in use.
LinkInv ==
  /\ DOMAIN labels = defined
  /\ \A link \in links : link.label \in used

\* A source begins without labels and links.
LEMMA LinkInit == Start => LinkInv
  BY DEF Start, WriterInit, LinkInv

\* A turn that links or defines a label notes it in both places (putJmp, putLabel).
LEMMA LinkStep == LinkInv /\ [Next]_vars => LinkInv'
<1> SUFFICES ASSUME LinkInv, [Next]_vars PROVE LinkInv'
  OBVIOUS
<1> USE DEF LinkInv
<1>1. CASE SkipBreak \/ RejectStatement \/ Finish \/ UNCHANGED vars
  BY <1>1 DEF SkipBreak, RejectStatement, Finish, vars, parserVars, writerVars
<1>2. CASE OpenBlock \/ CloseBlock
  BY <1>2 DEF OpenBlock, CloseBlock
<1>3. CASE BrokenHead \/ BrokenStatement
  BY <1>3 DEF BrokenHead, BrokenStatement, Raise
<1>4. CASE DefineLabel
  <2>1. UNCHANGED <<links, used>>
    BY <1>4 DEF DefineLabel
  <2>2. CASE Name(Token) \in defined
    BY <1>4, <2>1, <2>2 DEF DefineLabel
  <2>3. CASE Name(Token) \notin defined
    BY <1>4, <2>1, <2>3 DEF DefineLabel, PutLabel
  <2> QED
    BY <2>2, <2>3
<1>5. CASE WriteOperation
  BY <1>5 DEF WriteOperation
<1>6. CASE WriteJump
  BY <1>6 DEF WriteJump, PutLink
<1> QED
  BY <1>1, <1>2, <1>3, <1>4, <1>5, <1>6 DEF Next

\* A source that is read without an error, with every label that it uses defined,
\* can be baked: bake never throws in the middle (getOrCreateLabel, putJmp, bake).
THEOREM LinksAlwaysResolve == Spec => []LinksResolve
<1>1. LinkInv => LinksResolve
  BY DEF LinkInv, LinksResolve
<1> QED
  BY <1>1, SourceStarts, LinkInit, LinkStep, PTL DEF Spec

(***************************************************************************)
(* Types.                                                                  *)
(***************************************************************************)

\* Places that are all in the window have their first one in it.
LEMMA FirstBounds ==
  ASSUME NEW start \in Nat, NEW end \in Nat, start <= end, NEW places \in SUBSET Nat,
         \A x \in places : start < x /\ x <= end
  PROVE  /\ First(places, end) \in start..end
         /\ start < end => First(places, end) > start
<1>1. CASE places = {}
  BY <1>1 DEF First
<1>2. CASE places # {}
  <2>1. PICK x \in places : \A y \in places : x <= y
    BY <1>2, LeastPlace
  <2>2. First(places, end) = CHOOSE p \in places : \A q \in places : p <= q
    BY <1>2 DEF First
  <2>3. First(places, end) \in places
    BY <2>1, <2>2
  <2>4. First(places, end) \in Nat /\ start < First(places, end) /\ First(places, end) <= end
    BY <2>3
  <2> QED
    BY <2>4
<1> QED
  BY <1>1, <1>2

\* A search goes on by one place at least, and not beyond the window.
LEMMA SearchBounds ==
  ASSUME NEW start \in Nat, NEW end \in Nat, start <= end
  PROVE  /\ Until(start, end) \in start..end
         /\ Block(start, end) \in start..end
         /\ start < end => Until(start, end) > start
<1>1. ASSUME NEW S \in SUBSET (start..end-1)
      PROVE  /\ First({p + 1 : p \in S}, end) \in start..end
             /\ start < end => First({p + 1 : p \in S}, end) > start
  <2>1. {p + 1 : p \in S} \in SUBSET Nat /\ \A x \in {p + 1 : p \in S} : start < x /\ x <= end
    OBVIOUS
  <2> QED
    BY <2>1, FirstBounds
<1>2. /\ Until(start, end) \in start..end
      /\ start < end => Until(start, end) > start
  BY <1>1 DEF Until
<1>3. Block(start, end) \in start..end
  BY <1>1 DEF Block
<1> QED
  BY <1>2, <1>3

\* No parser looks outside the source.
Windows ==
  /\ IsSource(tokens)
  /\ \A i \in 1..Len(parsers) :
       parsers[i].offset \in 1..Len(tokens)+1 /\ parsers[i].end <= Len(tokens) + 1

\* What is parsed is a source, and its length is a number.
LEMMA SourceLength == Windows => Len(tokens) \in Nat
  BY DEF Windows, IsSource

\* At the start the only parser has all of the source before it.
LEMMA WindowsInit == IsSource(tokens) /\ Start => Windows
<1> SUFFICES ASSUME IsSource(tokens), Start PROVE Windows
  OBVIOUS
<1>1. Len(tokens) \in Nat
  BY LenProperties DEF IsSource
<1> QED
  BY <1>1 DEF Start, Windows

\* A parser that reads is at a token.
LEMMA AtToken ==
  ASSUME NestInv, Windows, Parsing
  PROVE  /\ Parser.offset \in 1..Len(tokens) /\ Parser.end \in 1..Len(tokens)+1
         /\ Parser.offset < Parser.end
<1>1. Len(parsers) \in 1..Len(parsers) /\ Parser.offset \in Nat /\ Parser.end \in Nat
  BY ParserType
<1>2. Parser.offset < Parser.end
  BY <1>1 DEF Parsing, Empty
<1>3. Len(tokens) \in Nat
  BY SourceLength
<1>4. Parser.offset \in 1..Len(tokens)+1 /\ Parser.end <= Len(tokens) + 1
  BY <1>1 DEF Windows, Parser
<1> QED
  BY <1>1, <1>2, <1>3, <1>4

\* Going on within the window leaves no parser outside the source (advance).
LEMMA AdvanceKeepsWindows ==
  ASSUME NestInv, Windows, Parsing, NEW p \in Parser.offset..Parser.end,
         parsers' = AdvanceTo(p), tokens' = tokens
  PROVE  Windows'
<1>1. p \in 1..Len(tokens)+1 /\ p \in Nat
  BY AtToken, SourceLength
<1>2. parsers \in Seq(Window) /\ parsers # <<>> /\ Len(parsers) \in Nat
  BY ParserType DEF NestInv, Parsing
<1>3. /\ Len(parsers') = Len(parsers)
      /\ parsers'[Len(parsers)].offset = p
      /\ \A i \in 1..Len(parsers) : parsers'[i].end = parsers[i].end
      /\ \A i \in 1..Len(parsers)-1 : parsers'[i] = parsers[i]
  BY <1>1, <1>2, AdvanceShape
<1>4. \A i \in 1..Len(parsers) : i = Len(parsers) \/ i \in 1..Len(parsers)-1
  BY <1>2
<1> QED
  BY <1>1, <1>3, <1>4 DEF Windows

\* Every turn goes on within its window, and a block's window is in the one around it.
LEMMA WindowsStep == NestInv /\ Windows /\ [Next]_vars => Windows'
<1> SUFFICES ASSUME NestInv, Windows, [Next]_vars PROVE Windows'
  OBVIOUS
<1>1. ASSUME Parsing
      PROVE  /\ Parser.offset + 1 \in Parser.offset..Parser.end
             /\ Until(Parser.offset, Parser.end) \in Parser.offset..Parser.end
  <2>1. /\ Parser.offset \in Nat /\ Parser.end \in Nat
        /\ Parser.offset < Parser.end
    BY <1>1, AtToken, SourceLength
  <2>2. \A o, e \in Nat : o <= e => Until(o, e) \in o..e
    BY SearchBounds
  <2>3. Parser.offset <= Parser.end
    BY <2>1
  <2>4. Until(Parser.offset, Parser.end) \in Parser.offset..Parser.end
    BY <2>1, <2>2, <2>3
  <2> QED
    BY <2>1, <2>4
<1>2. CASE SkipBreak \/ DefineLabel
  BY <1>1, <1>2, AdvanceKeepsWindows DEF SkipBreak, DefineLabel
<1>3. CASE OpenBlock
  <2> DEFINE start == Parser.offset + 3
             after == Block(start, Parser.end)
             cond == tokens[Parser.offset + 1]
  <2>1. Parsing /\ HasHead /\ tokens' = tokens
    BY <1>3 DEF OpenBlock
  <2>2. start \in Nat /\ Parser.end \in Nat /\ start <= Parser.end /\ start \in 1..Len(tokens)+1
    BY <2>1, AtToken, SourceLength DEF HasHead
  <2>3. after \in start..Parser.end
    BY <2>2, SearchBounds
  <2>4. after \in Parser.offset..Parser.end /\ after \in 1..Len(tokens)+1 /\ after \in Nat
    BY <2>1, <2>2, <2>3, AtToken, SourceLength
  <2>5. CASE cond.cond = "" /\ cond.lexeme \in conditions
    <3>1. parsers' = Append(AdvanceTo(after), [offset |-> start, end |-> after - 1])
      BY <1>3, <2>5 DEF OpenBlock
    <3>2. parsers \in Seq(Window) /\ parsers # <<>> /\ Len(parsers) \in Nat
      BY <2>1, ParserType DEF NestInv, Parsing
    <3>3. /\ AdvanceTo(after) \in Seq(Window) /\ Len(AdvanceTo(after)) = Len(parsers)
          /\ AdvanceTo(after)[Len(parsers)].offset = after
          /\ \A i \in 1..Len(parsers) : AdvanceTo(after)[i].end = parsers[i].end
          /\ \A i \in 1..Len(parsers)-1 : AdvanceTo(after)[i] = parsers[i]
      BY <2>4, <3>2, AdvanceShape
    <3>4. /\ Len(parsers') = Len(parsers) + 1
          /\ parsers'[Len(parsers) + 1] = [offset |-> start, end |-> after - 1]
          /\ \A i \in 1..Len(parsers) : parsers'[i] = AdvanceTo(after)[i]
      BY <3>1, <3>2, <3>3
    <3>5. \A i \in 1..Len(parsers)+1 :
            i = Len(parsers) + 1 \/ i = Len(parsers) \/ i \in 1..Len(parsers)-1
      BY <3>2
    <3>6. start \in 1..Len(tokens)+1 /\ after - 1 <= Len(tokens) + 1
      BY <2>2, <2>4, SourceLength
    <3>7. ASSUME NEW i \in 1..Len(parsers)+1
          PROVE  parsers'[i].offset \in 1..Len(tokens)+1 /\ parsers'[i].end <= Len(tokens) + 1
      <4>1. CASE i = Len(parsers) + 1
        BY <3>4, <3>6, <4>1
      <4>2. CASE i = Len(parsers)
        BY <2>4, <3>2, <3>3, <3>4, <4>2 DEF Windows
      <4>3. CASE i \in 1..Len(parsers)-1
        BY <3>2, <3>3, <3>4, <4>3, SMTT(30) DEF Windows
      <4> QED
        BY <3>5, <4>1, <4>2, <4>3
    <3> QED
      BY <2>1, <3>4, <3>7 DEF Windows
  <2>6. CASE ~(cond.cond = "" /\ cond.lexeme \in conditions)
    BY <1>3, <2>1, <2>4, <2>6, AdvanceKeepsWindows DEF OpenBlock
  <2> QED
    BY <2>5, <2>6
<1>4. CASE BrokenHead \/ BrokenStatement
  BY <1>4 DEF BrokenHead, BrokenStatement, Raise, Windows
<1>5. CASE CloseBlock
  <2> DEFINE n == Len(parsers)
  <2>1. n \in Nat /\ n > 1 /\ parsers' = SubSeq(parsers, 1, n - 1) /\ tokens' = tokens
    BY <1>5, LenProperties DEF CloseBlock, NestInv
  <2>2. Len(parsers') = n - 1 /\ \A i \in 1..n-1 : parsers'[i] = parsers[i]
    BY <2>1 DEF NestInv
  <2>3. \A i \in 1..n-1 : i \in 1..n
    BY <2>1
  <2> QED
    BY <2>1, <2>2, <2>3 DEF Windows
<1>6. CASE WriteOperation \/ WriteJump \/ RejectStatement
  BY <1>1, <1>6, AdvanceKeepsWindows DEF WriteOperation, WriteJump, RejectStatement,
    WellHeaded, AtStatement
<1>7. CASE Finish \/ UNCHANGED vars
  BY <1>7 DEF Finish, vars, parserVars, writerVars, Windows
<1> QED
  BY <1>2, <1>3, <1>4, <1>5, <1>6, <1>7 DEF Next

TokenRecords(source) == {source[n] : n \in DOMAIN source}
Lexemes(source) == {token.lexeme : token \in TokenRecords(source)}
Instructions(source) == [op: DOMAIN Operands, cond: conditions, args: Seq(Lexemes(source))]

\* What has been put so far: whole instructions, and links and labels inside the code.
CodeInv ==
  /\ code \in Seq(Instructions(tokens))
  /\ \A link \in links : link.at \in 1..Len(code)
  /\ \A name \in DOMAIN labels : labels[name] \in 0..INSTRUCTION_SIZE * Len(code)
  /\ failed \in BOOLEAN
  /\ phase \in {"parsing", "raised", "done"}

\* A statement and what follows its mnemonic are tokens of the source (Statement).
LEMMA StatementTokens ==
  ASSUME NestInv, Windows, WellHeaded
  PROVE  Leading \in TokenRecords(tokens) /\ Rest \in Seq(TokenRecords(tokens))
<1>1. tokens \in Seq(TokenRecords(tokens))
  BY DEF Windows, IsSource, TokenRecords
<1>2. /\ Parser.offset \in 1..Len(tokens) /\ Parser.end \in 1..Len(tokens)+1
      /\ Parser.offset < Parser.end
  BY AtToken DEF WellHeaded, AtStatement
<1>3. Len(tokens) \in Nat
  BY SourceLength
<1>4. PICK o \in Nat, e \in Nat : o = Parser.offset /\ e = Parser.end
  BY <1>2, <1>3
<1>5. Until(o, e) \in o..e /\ 1 <= o /\ e <= Len(tokens) + 1
  <2>1. o <= e /\ 1 <= o /\ e <= Len(tokens) + 1
    BY <1>2, <1>3, <1>4
  <2> QED
    BY <2>1, SearchBounds
<1>6. PICK u \in Nat : u = Until(o, e)
  BY <1>4, <1>5
<1>7. Statement = SubSeq(tokens, o, u - 2)
  BY <1>4, <1>6 DEF Statement
<1>8. Statement \in Seq(TokenRecords(tokens))
  <2>1. u - 2 <= Len(tokens)
    BY <1>3, <1>4, <1>5, <1>6
  <2>2. \A i \in o..u-2 : tokens[i] \in TokenRecords(tokens)
    BY <1>1, <1>3, <1>4, <1>5, <2>1, ElementOfSeq
  <2> QED
    BY <1>4, <1>6, <1>7, <2>2, SubSeqProperties
<1>9. Statement # <<>>
  BY DEF WellHeaded, Headed
<1>10. Len(Statement) \in Nat /\ Len(Statement) > 0
  BY <1>8, <1>9, LenProperties, EmptySeq
<1>11. Leading \in TokenRecords(tokens)
  BY <1>8, <1>10, ElementOfSeq DEF Leading
<1>12. Rest \in Seq(TokenRecords(tokens))
  <2>1. \A i \in 2..Len(Statement) : Statement[i] \in TokenRecords(tokens)
    BY <1>8, <1>10, ElementOfSeq
  <2> QED
    BY <1>10, <2>1, SubSeqProperties DEF Rest
<1> QED
  BY <1>11, <1>12

\* The values among the operands of a known mnemonic are lexemes of the statement.
LEMMA ArgumentsType ==
  ASSUME NEW rest \in Seq(TokenRecords(tokens)), NEW mnemonic \in DOMAIN Operands,
         Follows(rest, Operands[mnemonic])
  PROVE  Arguments(rest, Operands[mnemonic]) \in Seq(Lexemes(tokens))
<1>1. Len(Operands[mnemonic]) \in {0, 1, 3}
  <2>1. Operands[mnemonic] \in {<<>>, <<"INTEGER">>, Immediate, Binary}
    BY DEF Operands
  <2>2. Len(<<>>) = 0 /\ Len(<<"INTEGER">>) = 1 /\ Len(Immediate) = 3 /\ Len(Binary) = 3
    BY DEF Immediate, Binary
  <2> QED
    BY <2>1, <2>2
<1>2. PICK n \in {0, 1, 3} : n = Len(Operands[mnemonic])
  BY <1>1
<1>3. Len(rest) \in Nat /\ Len(rest) >= n
  BY <1>2, LenProperties DEF Follows
<1>4. (n + 1) \div 2 \in 0..2 /\ \A k \in 1..((n + 1) \div 2) : 2 * k - 1 \in 1..n
  <2>1. CASE n = 0
    BY <2>1
  <2>2. CASE n = 1
    BY <2>2
  <2>3. CASE n = 3
    BY <2>3
  <2> QED
    BY <2>1, <2>2, <2>3
<1>5. PICK m \in Nat : m = (n + 1) \div 2
  BY <1>4
<1>6. \A k \in 1..m : rest[2 * k - 1].lexeme \in Lexemes(tokens)
  <2>1. \A k \in 1..m : rest[2 * k - 1] \in TokenRecords(tokens)
    BY <1>3, <1>4, <1>5, ElementOfSeq
  <2> QED
    BY <2>1 DEF Lexemes
<1>7. Arguments(rest, Operands[mnemonic]) = [k \in 1..m |-> rest[2 * k - 1].lexeme]
  BY <1>2, <1>5 DEF Arguments
<1> QED
  BY <1>6, <1>7, SeqDef

\* At the start nothing is put.
LEMMA CodeInit == Start => CodeInv
<1> SUFFICES ASSUME Start PROVE CodeInv
  OBVIOUS
<1>1. code = <<>> /\ links = {} /\ labels = [name \in {} |-> 0] /\ phase = "parsing" /\ ~failed
  BY DEF Start, WriterInit
<1>2. failed \in BOOLEAN
  BY DEF Start
<1>3. code \in Seq(Instructions(tokens))
  BY <1>1
<1> QED
  BY <1>1, <1>2, <1>3 DEF CodeInv

\* No turn changes the source.
LEMMA SourceKept == [Next]_vars => tokens' = tokens
  BY DEF Next, vars, SkipBreak, OpenBlock, BrokenHead, CloseBlock, DefineLabel, BrokenStatement,
    WriteOperation, WriteJump, RejectStatement, Finish, Raise

\* One more instruction makes room for a link to it, and moves no label.
LEMMA PutKeepsCode ==
  ASSUME CodeInv, NEW i \in Instructions(tokens), code' = Append(code, i),
         UNCHANGED <<tokens, labels, failed, phase>>,
         \A link \in links' : link \in links \/ link.at = Len(code) + 1
  PROVE  CodeInv'
<1>1. code' \in Seq(Instructions(tokens)) /\ Len(code') = Len(code) + 1 /\ Len(code) \in Nat
  BY AppendProperties, LenProperties DEF CodeInv
<1>2. \A link \in links' : link.at \in 1..Len(code')
  BY <1>1 DEF CodeInv
<1>3. \A name \in DOMAIN labels' : labels'[name] \in 0..INSTRUCTION_SIZE * Len(code')
  BY <1>1 DEF CodeInv, INSTRUCTION_SIZE
<1> QED
  BY <1>1, <1>2, <1>3 DEF CodeInv

\* Every turn puts at most one instruction, with a condition that has a mnemonic
\* (putInstruction, getCondition).
LEMMA CodeStep == NestInv /\ Windows /\ CodeInv /\ [Next]_vars => CodeInv'
<1> SUFFICES ASSUME NestInv, Windows, CodeInv, [Next]_vars PROVE CodeInv'
  OBVIOUS
<1>1. CASE SkipBreak \/ CloseBlock \/ UNCHANGED vars
  BY <1>1 DEF SkipBreak, CloseBlock, vars, parserVars, writerVars, CodeInv
<1>2. CASE OpenBlock
  <2>1. UNCHANGED <<tokens, code, links, labels, phase>> /\ (failed' = failed \/ failed' = TRUE)
    BY <1>2 DEF OpenBlock
  <2> QED
    BY <2>1 DEF CodeInv
<1>3. CASE BrokenHead \/ BrokenStatement
  BY <1>3 DEF BrokenHead, BrokenStatement, Raise, CodeInv
<1>4. CASE DefineLabel
  <2>1. UNCHANGED <<tokens, code, links, phase>>
    BY <1>4 DEF DefineLabel
  <2>2. CASE Name(Token) \in defined
    BY <1>4, <2>1, <2>2 DEF DefineLabel, CodeInv
  <2>3. CASE Name(Token) \notin defined
    <3>1. failed' = failed /\ PutLabel(Name(Token))
      BY <1>4, <2>3 DEF DefineLabel
    <3>2. \A x \in DOMAIN labels' : labels'[x] \in 0..INSTRUCTION_SIZE * Len(code)
      <4>1. INSTRUCTION_SIZE * Len(code) \in 0..INSTRUCTION_SIZE * Len(code)
        BY LenProperties DEF CodeInv, INSTRUCTION_SIZE
      <4> QED
        BY <3>1, <4>1 DEF PutLabel, CodeInv
    <3> QED
      BY <2>1, <3>1, <3>2 DEF CodeInv
  <2> QED
    BY <2>2, <2>3
<1>5. ASSUME WellHeaded, KnownStatement
      PROVE  StatementCondition \in conditions /\ Leading.lexeme \in DOMAIN Operands
  <2>1. Top \in conditions
    <3>1. Len(stack) = Len(parsers) /\ Len(parsers) \in Nat /\ Len(parsers) > 0
      BY <1>5, ParserType DEF WellHeaded, AtStatement, Parsing, NestInv, BlocksNest
    <3> QED
      BY <3>1, ElementOfSeq DEF Top, NestInv
  <2> QED
    BY <1>5, <2>1 DEF KnownStatement, StatementCondition
<1>6. CASE WriteOperation
  <2>1. Leading.lexeme \in DOMAIN Operands /\ StatementCondition \in conditions
    BY <1>5, <1>6 DEF WriteOperation
  <2>2. Arguments(Rest, Operands[Leading.lexeme]) \in Seq(Lexemes(tokens))
    BY <1>6, <2>1, StatementTokens, ArgumentsType DEF WriteOperation
  <2>3. PICK i \in Instructions(tokens) : code' = Append(code, i)
    BY <1>6, <2>1, <2>2 DEF WriteOperation, PutOp, Instructions
  <2>4. UNCHANGED <<tokens, labels, failed, phase, links>>
    BY <1>6 DEF WriteOperation
  <2> QED
    BY <2>3, <2>4, PutKeepsCode
<1>7. CASE WriteJump
  <2>1. StatementCondition \in conditions
    BY <1>5, <1>7 DEF WriteJump
  <2>2. PICK i \in Instructions(tokens) : code' = Append(code, i)
    <3>1. "jmp" \in DOMAIN Operands /\ <<>> \in Seq(Lexemes(tokens))
      BY DEF Operands
    <3> QED
      BY <1>7, <2>1, <3>1 DEF WriteJump, PutOp, Instructions
  <2>3. \A link \in links' : link \in links \/ link.at = Len(code) + 1
    BY <1>7 DEF WriteJump, PutLink
  <2>4. UNCHANGED <<tokens, labels, failed, phase>>
    BY <1>7 DEF WriteJump
  <2> QED
    BY <2>2, <2>3, <2>4, PutKeepsCode
<1>8. CASE RejectStatement
  BY <1>8 DEF RejectStatement, CodeInv, writerVars
<1>9. CASE Finish
  <2>1. failed' \in BOOLEAN /\ phase' = "done" /\ UNCHANGED <<tokens, writerVars>>
    BY <1>9 DEF Finish
  <2> QED
    BY <2>1 DEF CodeInv, writerVars
<1> QED
  BY <1>1, <1>2, <1>3, <1>4, <1>6, <1>7, <1>8, <1>9 DEF Next

\* The assembler's type invariant: no parser leaves the source, links and labels stay
\* in the code, and what is put has a condition, for every source.
THEOREM AssemblerTypeCorrect == Spec => []TypeOK
<1>1. NestInv /\ Windows /\ CodeInv => TypeOK
  <2> SUFFICES ASSUME NestInv, Windows, CodeInv PROVE TypeOK
    OBVIOUS
  <2>1. DOMAIN parsers = 1..Len(parsers) /\ DOMAIN code = 1..Len(code)
    BY LenProperties DEF NestInv, CodeInv
  <2>2. \A n \in DOMAIN code : code[n].cond \in conditions
    <3>1. \A n \in DOMAIN code : code[n] \in Instructions(tokens)
      BY <2>1, ElementOfSeq DEF CodeInv
    <3> QED
      BY <3>1 DEF Instructions
  <2> QED
    BY <2>1, <2>2 DEF Windows, CodeInv, TypeOK
<1> QED
  BY <1>1, SourceStarts, NestInit, NestStep, WindowsInit, WindowsStep, CodeInit, CodeStep, PTL DEF Spec

(***************************************************************************)
(* The language is kept: what is assembled is what the source means.       *)
(***************************************************************************)

\* How many blocks are open behind a place.
Depth(p) == Count(1, p, "begin") - Count(1, p, "end")

\* From a place on there is the rest of the block that begins at another, up to the
\* end that balances it.
InBlock(begin, o, end) ==
  /\ Is(tokens[begin], "begin") /\ Is(tokens[end], "end")
  /\ begin < o /\ o <= end
  /\ Depth(o - 1) = Depth(begin) /\ Depth(end) = Depth(begin) - 1
  /\ \A p \in begin..end-1 : Depth(p) >= Depth(begin)

\* A block's parser reads the rest of it, under its condition, and the parser around it
\* goes on behind it.
BlockAt(i) ==
  \E begin, o, end \in Places :
    /\ parsers[i].offset = o /\ parsers[i].end = end /\ parsers[i - 1].offset = end + 1
    /\ InBlock(begin, o, end)
    /\ stack[i] = tokens[begin - 1].lexeme

BlocksInv ==
  /\ phase # "raised"
  /\ stack[1] = "t"
  /\ parsers[1].end = Len(tokens) + 1
  /\ \A o \in Nat : parsers[1].offset = o => Depth(o - 1) = 0
  /\ \A i \in 2..Len(parsers) : BlockAt(i)
  /\ \A o \in Places : Parser.offset = o => LineStart(o)

\* What a statement has put, before jumps are linked.
Draft(p) ==
  [op |-> tokens[p].lexeme, cond |-> MeantCondition(p),
   args |-> IF JumpToLabel(p) THEN <<>> ELSE MeantArguments(p)]

Jump(p) == p \in Statements /\ JumpToLabel(p)
LinkOf(p) == [label |-> Name(tokens[p + 1]), at |-> StatementsBefore(p) + 1]

\* Everything before a place has been put, linked and defined, and nothing else has.
PutUpTo(o) ==
  /\ Len(code) = StatementsBefore(o)
  /\ \A n \in 1..Len(code) :
       \E p \in Statements : p < o /\ StatementsBefore(p) = n - 1 /\ code[n] = Draft(p)
  /\ \A link \in links : \E p \in Places : p < o /\ Jump(p) /\ link = LinkOf(p)
  /\ \A p \in Places : p < o /\ Jump(p) => LinkOf(p) \in links
  /\ \A name \in used : \E p \in Places : p < o /\ Jump(p) /\ name = Name(tokens[p + 1])
  /\ \A name \in defined : \E p \in Places : p < o /\ p \in LabelsAt(name)
  /\ \A p \in Places :
       p < o /\ tokens[p].type = "LABEL" =>
         /\ Name(tokens[p]) \in defined
         /\ labels[Name(tokens[p])] = INSTRUCTION_SIZE * StatementsBefore(p)

\* For sources that keep the language.
MeaningInv ==
  WellFormed =>
    /\ BlocksInv
    /\ phase = "parsing" => ~failed /\ \A o \in Nat : Parser.offset = o => PutUpTo(o)
    /\ phase = "done" /\ INSTRUCTION_SIZE * Cardinality(Statements) < OffsetMod => Assembled

(***************************************************************************)
(* Counting.                                                               *)
(***************************************************************************)

\* What is counted up to a place is what is counted before another and from it on.
LEMMA CountSplit ==
  ASSUME NEW s \in Nat, NEW q \in Nat, 1 <= s, s <= q + 1, NEW x
  PROVE  /\ Count(1, q, x) \in Nat /\ Count(s, q, x) \in Nat
         /\ Count(1, q, x) = Count(1, s - 1, x) + Count(s, q, x)
<1> DEFINE in(a, b) == {p \in a..b : Is(tokens[p], x)}
<1>1. ASSUME NEW a \in Int, NEW b \in Int
      PROVE  IsFiniteSet(in(a, b)) /\ Cardinality(in(a, b)) \in Nat
  <2>1. in(a, b) \in SUBSET (a..b) /\ IsFiniteSet(a..b)
    BY FS_Interval
  <2>2. IsFiniteSet(in(a, b))
    BY <2>1, FS_Subset
  <2> QED
    BY <2>2, FS_CardinalityType
<1>2. in(1, q) = in(1, s - 1) \cup in(s, q) /\ in(1, s - 1) \cap in(s, q) = {}
  OBVIOUS
<1> HIDE DEF in
<1>3. IsFiniteSet(in(1, s - 1)) /\ IsFiniteSet(in(s, q))
      /\ Cardinality(in(1, s - 1)) \in Nat /\ Cardinality(in(s, q)) \in Nat
      /\ Cardinality(in(1, q)) \in Nat
  BY <1>1
<1>4. Cardinality(in(1, q)) = Cardinality(in(1, s - 1)) + Cardinality(in(s, q)) - Cardinality({})
  BY <1>2, <1>3, FS_Union
<1>5. Cardinality({}) = 0
  BY FS_EmptySet
<1>6. Cardinality(in(1, q)) = Cardinality(in(1, s - 1)) + Cardinality(in(s, q))
  BY <1>3, <1>4, <1>5
<1> QED
  BY <1>3, <1>6 DEF Count, in

\* One place counts once or not at all.
LEMMA CountOne ==
  ASSUME NEW p \in Nat, NEW x
  PROVE  Count(p, p, x) = IF Is(tokens[p], x) THEN 1 ELSE 0
<1>1. {q \in p..p : Is(tokens[q], x)} = IF Is(tokens[p], x) THEN {p} ELSE {}
  OBVIOUS
<1> QED
  BY <1>1, FS_EmptySet, FS_Singleton DEF Count

\* Before the source no block is open.
LEMMA DepthStart == Depth(0) = 0
<1>1. ASSUME NEW x PROVE Count(1, 0, x) = 0
  <2>1. {p \in 1..0 : Is(tokens[p], x)} = {}
    OBVIOUS
  <2> QED
    BY <2>1, FS_EmptySet DEF Count
<1> QED
  BY <1>1 DEF Depth

\* A begin opens a block, an end closes one, and nothing else does either.
LEMMA DepthStep ==
  ASSUME NEW p \in Nat \ {0}
  PROVE  /\ Depth(p) \in Int /\ Depth(p - 1) \in Int
         /\ Is(tokens[p], "begin") => Depth(p) = Depth(p - 1) + 1
         /\ Is(tokens[p], "end") => Depth(p) = Depth(p - 1) - 1
         /\ ~Is(tokens[p], "begin") /\ ~Is(tokens[p], "end") => Depth(p) = Depth(p - 1)
<1>1. ASSUME NEW x
      PROVE  /\ Count(1, p, x) \in Nat /\ Count(1, p - 1, x) \in Nat
             /\ Count(1, p, x) = Count(1, p - 1, x) + IF Is(tokens[p], x) THEN 1 ELSE 0
  <2>1. Count(1, p, x) \in Nat /\ Count(1, p, x) = Count(1, p - 1, x) + Count(p, p, x)
    BY CountSplit
  <2>2. Count(1, p - 1, x) \in Nat
    <3>1. p - 1 \in Nat /\ 1 <= p /\ p <= (p - 1) + 1
      OBVIOUS
    <3> QED
      BY <3>1, CountSplit
  <2> QED
    BY <2>1, <2>2, CountOne
<1>2. ~(Is(tokens[p], "begin") /\ Is(tokens[p], "end"))
  BY DEF Is
<1> QED
  BY <1>1, <1>2 DEF Depth

\* Depths are numbers.
LEMMA DepthType == ASSUME NEW p \in Nat PROVE Depth(p) \in Int
<1>1. CASE p = 0
  BY <1>1, DepthStart
<1>2. CASE p # 0
  BY <1>2, DepthStep
<1> QED
  BY <1>1, <1>2

\* What is counted in a stretch is a difference of depths.
LEMMA CountDepth ==
  ASSUME NEW s \in Nat, NEW q \in Nat, 1 <= s, s <= q + 1
  PROVE  /\ Count(s, q, "begin") \in Nat /\ Count(s, q, "end") \in Nat
         /\ Count(s, q, "begin") - Count(s, q, "end") = Depth(q) - Depth(s - 1)
<1>1. ASSUME NEW x
      PROVE  /\ Count(1, q, x) \in Nat /\ Count(1, s - 1, x) \in Nat /\ Count(s, q, x) \in Nat
             /\ Count(1, q, x) = Count(1, s - 1, x) + Count(s, q, x)
  <2>1. Count(1, q, x) \in Nat /\ Count(s, q, x) \in Nat
        /\ Count(1, q, x) = Count(1, s - 1, x) + Count(s, q, x)
    BY CountSplit
  <2>2. Count(1, s - 1, x) \in Nat
    <3>1. s - 1 \in Nat /\ 1 <= s /\ s <= (s - 1) + 1
      OBVIOUS
    <3> QED
      BY <3>1, CountSplit
  <2> QED
    BY <2>1, <2>2
<1> QED
  BY <1>1 DEF Depth

\* A stretch is balanced if it ends at the depth at which it begins, and is nowhere
\* below it.
LEMMA BalancedDepth ==
  ASSUME NEW s \in Nat, NEW q \in Nat, 1 <= s, s <= q + 1
  PROVE  Balanced(s, q) <=> /\ Depth(q) = Depth(s - 1)
                            /\ \A p \in s..q : Depth(p) >= Depth(s - 1)
<1>1. ASSUME NEW p \in Nat, s <= p + 1
      PROVE  /\ Count(s, p, "begin") \in Nat /\ Count(s, p, "end") \in Nat
             /\ Count(s, p, "begin") - Count(s, p, "end") = Depth(p) - Depth(s - 1)
             /\ Depth(p) \in Int /\ Depth(s - 1) \in Int
  <2>1. s - 1 \in Nat
    OBVIOUS
  <2> QED
    BY <1>1, <2>1, CountDepth, DepthType
<1>2. Count(s, q, "begin") = Count(s, q, "end") <=> Depth(q) = Depth(s - 1)
  BY <1>1
<1>3. \A p \in s..q : p \in Nat /\ s <= p + 1
  OBVIOUS
<1>4. ASSUME NEW p \in s..q
      PROVE  Count(s, p, "end") <= Count(s, p, "begin") <=> Depth(p) >= Depth(s - 1)
  BY <1>1, <1>3
<1> QED
  BY <1>2, <1>4 DEF Balanced

(***************************************************************************)
(* Lines of a source that keeps the language.                              *)
(***************************************************************************)
Kept == WellFormed /\ IsSource(tokens)

\* Places are the numbers up to the length of the source.
LEMMA PlacesType ==
  ASSUME IsSource(tokens)
  PROVE  /\ Len(tokens) \in Nat /\ Places = 1..Len(tokens)
         /\ \A p \in Places : p \in Nat /\ 1 <= p /\ p <= Len(tokens)
         /\ \A p \in Int : 1 <= p /\ p <= Len(tokens) => p \in Places
<1>1. tokens \in Seq(TokenRecords(tokens))
  BY DEF IsSource, TokenRecords
<1> QED
  BY <1>1, LenProperties DEF Places

\* What is before a place of the source is one.
LEMMA PlaceBefore ==
  ASSUME IsSource(tokens), NEW p \in Int, NEW q \in Places, 1 <= p, p <= q
  PROVE  p \in Places
<1>1. q \in Int /\ q <= Len(tokens) /\ Len(tokens) \in Int
  BY PlacesType
<1>2. 1 <= p /\ p <= Len(tokens)
  BY <1>1
<1> QED
  BY <1>2, PlacesType

\* The words that open and close blocks are identifiers (tokenizer.cpp).
LEMMA KeywordType ==
  ASSUME NEW p, NEW x, Is(tokens[p], x)
  PROVE  tokens[p].type = "IDENTIFIER"
  BY DEF Is

\* How many tokens follow a statement's mnemonic.
Width(p) == IF JumpToLabel(p) THEN 1 ELSE Len(Operands[tokens[p].lexeme])

\* The operands of each mnemonic.
LEMMA OperandKinds ==
  ASSUME NEW mnemonic \in DOMAIN Operands
  PROVE  /\ Len(Operands[mnemonic]) \in {0, 1, 3}
         /\ DOMAIN Operands[mnemonic] = 1..Len(Operands[mnemonic])
         /\ \A k \in 1..Len(Operands[mnemonic]) :
              Operands[mnemonic][k] \in {"REGSET", "INTEGER", "SYMBOL"}
         /\ mnemonic = "jmp" =>
              Len(Operands[mnemonic]) = 3 /\ Operands[mnemonic][1] = "REGSET"
         /\ mnemonic \notin {"if", "begin", "end"} \cup conditions
<1>1. Operands[mnemonic] \in {<<>>, <<"INTEGER">>, Immediate, Binary}
  BY DEF Operands
<1>2. /\ Len(<<>>) = 0 /\ Len(<<"INTEGER">>) = 1 /\ Len(Immediate) = 3 /\ Len(Binary) = 3
      /\ DOMAIN <<>> = 1..0 /\ DOMAIN <<"INTEGER">> = 1..1
      /\ DOMAIN Immediate = 1..3 /\ DOMAIN Binary = 1..3
  BY DEF Immediate, Binary
<1>3. /\ \A k \in 1..1 : <<"INTEGER">>[k] \in {"REGSET", "INTEGER", "SYMBOL"}
      /\ \A k \in 1..3 : Immediate[k] \in {"REGSET", "INTEGER", "SYMBOL"}
      /\ \A k \in 1..3 : Binary[k] \in {"REGSET", "INTEGER", "SYMBOL"}
      /\ Binary[1] = "REGSET"
  BY DEF Immediate, Binary
<1>4. mnemonic = "jmp" => Operands[mnemonic] = Binary
  BY DEF Operands
<1>5. mnemonic \notin {"if", "begin", "end"} \cup conditions
  BY DEF Operands, conditions
<1>6. /\ Len(Operands[mnemonic]) \in {0, 1, 3}
      /\ DOMAIN Operands[mnemonic] = 1..Len(Operands[mnemonic])
  BY <1>1, <1>2
<1>7. \A k \in 1..Len(Operands[mnemonic]) : Operands[mnemonic][k] \in {"REGSET", "INTEGER", "SYMBOL"}
  <2>1. CASE Operands[mnemonic] = <<>>
    <3>1. Len(Operands[mnemonic]) = 0
      BY <1>2, <2>1
    <3>2. 1..0 = {}
      OBVIOUS
    <3> QED
      BY <3>1, <3>2, Zenon
  <2>2. CASE Operands[mnemonic] = <<"INTEGER">>
    BY <1>2, <1>3, <2>2
  <2>3. CASE Operands[mnemonic] = Immediate \/ Operands[mnemonic] = Binary
    BY <1>2, <1>3, <2>3
  <2> QED
    BY <1>1, <2>1, <2>2, <2>3
<1> QED
  BY <1>2, <1>3, <1>4, <1>5, <1>6, <1>7

\* What a statement and its operands are, up to the break that ends it.
LEMMA StatementTypes ==
  ASSUME Kept, NEW p \in Statements
  PROVE  /\ p \in Nat /\ p >= 1 /\ Width(p) \in {0, 1, 3}
         /\ \A k \in 0..Width(p)+1 : p + k \in Places
         /\ tokens[p].type = "IDENTIFIER" /\ tokens[p].lexeme \in DOMAIN Operands
         /\ tokens[p + Width(p) + 1].type = "BREAK"
         /\ \A k \in 1..Width(p) : tokens[p + k].type \in {"REGSET", "INTEGER", "SYMBOL", "IDENTIFIER"}
         /\ \A k \in 1..Width(p) : tokens[p + k].type = "IDENTIFIER" => JumpToLabel(p) /\ k = 1
<1>1. /\ p \in Places /\ StatementAt(p) /\ Len(tokens) \in Nat
      /\ \A q \in Places : q \in Nat /\ 1 <= q /\ q <= Len(tokens)
      /\ \A q \in Int : 1 <= q /\ q <= Len(tokens) => q \in Places
  BY PlacesType DEF Statements, Kept
<1>2. tokens[p].type = "IDENTIFIER" /\ tokens[p].lexeme \in DOMAIN Operands
  BY <1>1 DEF StatementAt
<1>3. ASSUME NEW kinds, NEW n \in {0, 1, 3}, Line(p, kinds), Len(kinds) = n, DOMAIN kinds = 1..n,
             \A k \in 1..n : kinds[k] \in {"REGSET", "INTEGER", "SYMBOL", "IDENTIFIER"}
      PROVE  /\ \A k \in 0..n+1 : p + k \in Places
             /\ tokens[p + n + 1].type = "BREAK"
             /\ \A k \in 1..n :
                  tokens[p + k].type = kinds[k]
  <2>1. p + n + 1 \in Places /\ tokens[p + n + 1].type = "BREAK"
    BY <1>3 DEF Line
  <2>2. ASSUME NEW k \in 0..n+1 PROVE p + k \in Places
    <3>1. p \in Nat /\ 1 <= p
      BY <1>1
    <3>2. p + k \in Int /\ 1 <= p + k /\ p + k <= p + n + 1
      BY <3>1
    <3> QED
      BY <2>1, <3>2, PlaceBefore DEF Kept
  <2>3. ASSUME NEW k \in 1..n
        PROVE  tokens[p + k].type = kinds[k]
    BY <1>3 DEF Line
  <2> QED
    BY <2>1, <2>2, <2>3
<1>4. CASE JumpToLabel(p)
  <2>1. Line(p, <<"IDENTIFIER">>) /\ Width(p) = 1
    BY <1>4 DEF JumpToLabel, Width
  <2>2. PICK kinds : kinds = <<"IDENTIFIER">>
    OBVIOUS
  <2>3. Line(p, kinds) /\ Len(kinds) = 1 /\ DOMAIN kinds = 1..1 /\ \A k \in 1..1 : kinds[k] = "IDENTIFIER"
    BY <2>1, <2>2
  <2>4. /\ \A k \in 0..1+1 : p + k \in Places
        /\ tokens[p + 1 + 1].type = "BREAK"
        /\ \A k \in 1..1 : tokens[p + k].type = kinds[k]
    BY <1>3, <2>3
  <2>5. 1 \in 1..1 /\ \A k \in 1..1 : k = 1
    OBVIOUS
  <2>6. tokens[p + 1].type = "IDENTIFIER"
    <3>1. kinds[1] = "IDENTIFIER"
      BY <2>3, <2>5
    <3>2. tokens[p + 1].type = kinds[1]
      BY <2>4, <2>5
    <3> QED
      BY <3>1, <3>2
  <2>7. PICK w : w = Width(p)
    OBVIOUS
  <2>8. w = 1 /\ \A k \in 0..w+1 : p + k \in Places
    BY <2>1, <2>4, <2>7
  <2>9. tokens[p + w + 1].type = "BREAK"
    BY <2>4, <2>8
  <2>10. \A k \in 1..w : k = 1
    BY <2>8
  <2>11. /\ \A k \in 1..w : tokens[p + k].type \in {"REGSET", "INTEGER", "SYMBOL", "IDENTIFIER"}
         /\ \A k \in 1..w : tokens[p + k].type = "IDENTIFIER" => JumpToLabel(p) /\ k = 1
    BY <1>4, <2>6, <2>10
  <2> QED
    BY <1>1, <1>2, <2>7, <2>8, <2>9, <2>11
<1>5. CASE ~JumpToLabel(p)
  <2>1. PICK kinds : kinds = Operands[tokens[p].lexeme]
    OBVIOUS
  <2>2. Line(p, kinds) /\ Width(p) = Len(kinds)
    BY <1>1, <1>5, <2>1 DEF StatementAt, Width
  <2>3. /\ Len(kinds) \in {0, 1, 3} /\ DOMAIN kinds = 1..Len(kinds)
        /\ \A k \in 1..Len(kinds) : kinds[k] \in {"REGSET", "INTEGER", "SYMBOL"}
    BY <1>2, <2>1, OperandKinds
  <2>4. PICK n \in {0, 1, 3} : n = Len(kinds)
    BY <2>3
  <2>5. /\ \A k \in 0..n+1 : p + k \in Places
        /\ tokens[p + n + 1].type = "BREAK"
        /\ \A k \in 1..n :
             tokens[p + k].type = kinds[k]
    BY <1>3, <2>2, <2>3, <2>4
  <2>6. \A k \in 1..n : tokens[p + k].type \in {"REGSET", "INTEGER", "SYMBOL"}
    BY <2>3, <2>4, <2>5
  <2> QED
    BY <1>1, <1>2, <2>2, <2>4, <2>5, <2>6
<1> QED
  BY <1>4, <1>5

\* Inside a statement no line and no block begins or ends.
LEMMA StatementShape ==
  ASSUME Kept, NEW p \in Statements
  PROVE  /\ \A k \in 0..Width(p) : tokens[p + k].type \notin {"BREAK", "LABEL"}
         /\ \A k \in 0..Width(p)+1 : ~Is(tokens[p + k], "begin") /\ ~Is(tokens[p + k], "end")
         /\ \A k \in 1..Width(p)+1 : ~LineStart(p + k)
         /\ \A k \in 1..Width(p)+1 : p + k \notin Statements
<1> DEFINE w == Width(p)
<1>1. /\ p \in Nat /\ p >= 1 /\ w \in {0, 1, 3}
      /\ \A k \in 0..w+1 : p + k \in Places
      /\ tokens[p].type = "IDENTIFIER" /\ tokens[p].lexeme \in DOMAIN Operands
      /\ tokens[p + w + 1].type = "BREAK"
      /\ \A k \in 1..w : tokens[p + k].type \in {"REGSET", "INTEGER", "SYMBOL", "IDENTIFIER"}
      /\ \A k \in 1..w : tokens[p + k].type = "IDENTIFIER" => JumpToLabel(p) /\ k = 1
  BY StatementTypes
<1>2. w \in Nat /\ p \in Places /\ p + 0 = p /\ \A k \in 0..w+1 : k = 0 \/ k \in 1..w \/ k = w + 1
  BY <1>1
<1> HIDE DEF w
<1>3. tokens[p].lexeme \notin {"if", "begin", "end"} \cup conditions
  BY <1>1, OperandKinds
<1>4. ~LineStart(p + 1)
  <2>1. p + 1 # 1 /\ (p + 1) - 1 = p
    BY <1>1
  <2> QED
    BY <1>1, <1>3, <2>1 DEF LineStart, Is
<1>5. ASSUME NEW k \in 0..w+1, NEW x \in {"begin", "end"}
      PROVE  ~Is(tokens[p + k], x)
  <2>1. SUFFICES ASSUME Is(tokens[p + k], x) PROVE FALSE
    OBVIOUS
  <2>2. tokens[p + k].type = "IDENTIFIER"
    BY <1>1, <2>1, KeywordType DEF Kept
  <2>3. k # 0
    BY <1>2, <1>3, <2>1 DEF Is
  <2>4. k # w + 1
    <3>1. p + (w + 1) = p + w + 1
      BY <1>1
    <3> QED
      BY <1>1, <2>2, <3>1
  <2>5. JumpToLabel(p) /\ k = 1
    BY <1>1, <1>2, <2>2, <2>3, <2>4
  <2>6. x # "end"
    BY <1>1, <1>4, <2>1, <2>5 DEF Kept, WellFormed, LinesWellFormed
  <2>7. x # "begin"
    <3>1. SUFFICES ASSUME Is(tokens[p + 1], "begin") PROVE FALSE
      BY <2>1, <2>5
    <3>2. Header((p + 1) - 2)
      BY <1>1, <2>5, <3>1 DEF Kept, WellFormed, LinesWellFormed
    <3>3. (p + 1) - 2 + 1 = p
      BY <1>1
    <3>4. tokens[p].lexeme \in conditions
      BY <3>2, <3>3 DEF Header
    <3> QED
      BY <1>3, <3>4
  <2> QED
    BY <2>6, <2>7
<1>6. \A k \in 0..w : tokens[p + k].type \notin {"BREAK", "LABEL"}
  <2>1. \A k \in 0..w : k = 0 \/ k \in 1..w
    BY <1>2
  <2> QED
    BY <1>1, <1>2, <2>1
<1>7. ASSUME NEW k \in 1..w+1 PROVE ~LineStart(p + k)
  <2>1. PICK j \in 0..w : k = j + 1
    BY <1>2
  <2>2. p + k # 1 /\ (p + k) - 1 = p + j /\ j \in 0..w+1
    BY <1>1, <1>2, <2>1
  <2> QED
    BY <1>5, <1>6, <2>2 DEF LineStart
<1>8. \A k \in 1..w+1 : p + k \notin Statements
  BY <1>7 DEF Statements, StatementAt
<1> QED
  BY <1>5, <1>6, <1>7, <1>8 DEF w

\* The head of a block: an if, a condition and a begin on one line.
LEMMA HeaderShape ==
  ASSUME Kept, NEW p \in Places, LineStart(p), Header(p)
  PROVE  /\ p + 1 \in Places /\ p + 2 \in Places
         /\ tokens[p].type = "IDENTIFIER" /\ Is(tokens[p], "if")
         /\ tokens[p + 1].type = "IDENTIFIER"
         /\ tokens[p + 1].cond = "" /\ tokens[p + 1].lexeme \in conditions
         /\ tokens[p + 2].type = "IDENTIFIER" /\ Is(tokens[p + 2], "begin")
         /\ \A x \in {"begin", "end"} : ~Is(tokens[p], x) /\ ~Is(tokens[p + 1], x)
         /\ ~Is(tokens[p + 2], "end")
         /\ ~LineStart(p + 1) /\ ~LineStart(p + 2)
         /\ p \notin Statements /\ p + 1 \notin Statements /\ p + 2 \notin Statements
<1>1. /\ p \in Nat /\ p >= 1 /\ Len(tokens) \in Nat
      /\ \A q \in Places : q \in Nat /\ 1 <= q /\ q <= Len(tokens)
      /\ \A q \in Int : 1 <= q /\ q <= Len(tokens) => q \in Places
  BY PlacesType DEF Kept
<1>2. /\ p + 2 \in Places /\ Is(tokens[p], "if") /\ Is(tokens[p + 2], "begin")
      /\ tokens[p + 1].cond = "" /\ tokens[p + 1].lexeme \in conditions
  BY DEF Header
<1>3. p + 1 \in Places
  <2>1. p + 1 \in Int /\ 1 <= p + 1 /\ p + 1 <= p + 2
    BY <1>1
  <2> QED
    BY <1>2, <2>1, PlaceBefore DEF Kept
<1>4. tokens[p].type = "IDENTIFIER" /\ tokens[p + 2].type = "IDENTIFIER"
  BY <1>2, KeywordType DEF Kept
<1>5. tokens[p + 1].lexeme \notin {"begin", "end", "if"}
  BY <1>2 DEF conditions
<1>6. \A x \in {"begin", "end"} : ~Is(tokens[p], x) /\ ~Is(tokens[p + 1], x)
  BY <1>2, <1>5 DEF Is
<1>7. ~LineStart(p + 1)
  <2>1. p + 1 # 1 /\ (p + 1) - 1 = p
    BY <1>1
  <2> QED
    BY <1>4, <1>6, <2>1 DEF LineStart
<1>8. tokens[p + 1].type = "IDENTIFIER"
  BY DEF Header
<1>9. ~LineStart(p + 2)
  <2>1. p + 2 # 1 /\ (p + 2) - 1 = p + 1
    BY <1>1
  <2> QED
    BY <1>6, <1>8, <2>1 DEF LineStart
<1>10. p \notin Statements /\ p + 1 \notin Statements /\ p + 2 \notin Statements
  <2>1. tokens[p].lexeme \notin DOMAIN Operands
    BY <1>2, OperandKinds DEF Is
  <2> QED
    BY <1>7, <1>9, <2>1 DEF Statements, StatementAt
<1>11. ~Is(tokens[p + 2], "end")
  BY <1>2 DEF Is
<1> QED
  BY <1>2, <1>3, <1>4, <1>6, <1>7, <1>8, <1>9, <1>10, <1>11

(***************************************************************************)
(* What surrounds a place, and what is before it.                          *)
(***************************************************************************)

\* A block is around a place if no depth in between is less than its own.
LEMMA EnclosingDepth ==
  ASSUME NEW p \in Nat, NEW b \in 1..p-1
  PROVE  b \in Enclosing(p) <=> /\ Is(tokens[b], "begin")
                                /\ Depth(p - 1) = Depth(b)
                                /\ \A q \in b+1..p-1 : Depth(q) >= Depth(b)
<1>1. b + 1 \in Nat /\ p - 1 \in Nat /\ 1 <= b + 1 /\ b + 1 <= (p - 1) + 1 /\ (b + 1) - 1 = b
  OBVIOUS
<1>2. Balanced(b + 1, p - 1) <=> /\ Depth(p - 1) = Depth((b + 1) - 1)
                                 /\ \A q \in b+1..p-1 : Depth(q) >= Depth((b + 1) - 1)
  BY <1>1, BalancedDepth
<1> QED
  BY <1>1, <1>2 DEF Enclosing

\* No block is around a place at which none is open.
LEMMA OutsideBlocks ==
  ASSUME NEW p \in Nat, Depth(p - 1) = 0, \A q \in 0..p-1 : Depth(q) >= 0
  PROVE  Enclosing(p) = {}
<1>1. SUFFICES ASSUME NEW b \in Enclosing(p) PROVE FALSE
  OBVIOUS
<1>2. b \in 1..p-1
  BY <1>1 DEF Enclosing
<1>3. Is(tokens[b], "begin") /\ Depth(b) = 0
  BY <1>1, <1>2, EnclosingDepth
<1>4. b \in Nat \ {0} /\ b - 1 \in 0..p-1
  BY <1>2
<1>5. Depth(b) = Depth(b - 1) + 1 /\ Depth(b - 1) \in Int
  BY <1>3, <1>4, DepthStep
<1>6. Depth(b - 1) >= 0
  BY <1>4
<1> QED
  BY <1>3, <1>5, <1>6

\* Only one block is the innermost around a place.
LEMMA InsideBlock ==
  ASSUME NEW p \in Nat, NEW b \in 1..p-1, Is(tokens[b], "begin"), Depth(p - 1) = Depth(b),
         \A q \in b..p-1 : Depth(q) >= Depth(b)
  PROVE  Enclosing(p) = {b}
<1>1. b \in Enclosing(p)
  BY EnclosingDepth
<1>2. ASSUME NEW c \in Enclosing(p) PROVE c = b
  <2>1. c \in 1..p-1
    BY <1>2 DEF Enclosing
  <2>2. /\ Is(tokens[c], "begin") /\ Depth(p - 1) = Depth(c)
        /\ \A q \in c+1..p-1 : Depth(q) >= Depth(c)
    BY <1>2, <2>1, EnclosingDepth
  <2>3. ASSUME NEW i \in 1..p-1, NEW j \in 1..p-1, i < j, Is(tokens[j], "begin"),
               Depth(i) = Depth(j), \A q \in i+1..p-1 : Depth(q) >= Depth(i)
        PROVE  FALSE
    <3>1. j \in Nat \ {0}
      OBVIOUS
    <3>2. Depth(j) = Depth(j - 1) + 1 /\ Depth(j - 1) \in Int
      BY <2>3, <3>1, DepthStep
    <3>3. CASE j - 1 = i
      BY <2>3, <3>2, <3>3
    <3>4. CASE j - 1 # i
      <4>1. j - 1 \in i+1..p-1
        BY <2>3, <3>4
      <4>2. Depth(j - 1) >= Depth(i)
        BY <2>3, <4>1
      <4> QED
        BY <2>3, <3>2, <4>2
    <3> QED
      BY <3>3, <3>4
  <2>4. ~(b < c)
    <3>1. \A q \in b+1..p-1 : q \in b..p-1
      OBVIOUS
    <3> QED
      BY <2>1, <2>2, <2>3, <3>1
  <2>5. ~(c < b)
    BY <2>1, <2>2, <2>3
  <2> QED
    BY <2>1, <2>4, <2>5
<1> QED
  BY <1>1, <1>2

\* Statements are places, and before each place there are so many.
LEMMA StatementsType ==
  ASSUME IsSource(tokens)
  PROVE  /\ IsFiniteSet(Statements) /\ Cardinality(Statements) \in Nat
         /\ \A o : /\ IsFiniteSet({p \in Statements : p < o})
                   /\ StatementsBefore(o) \in Nat
<1>1. Statements \in SUBSET (1..Len(tokens)) /\ Len(tokens) \in Nat
  BY PlacesType DEF Statements
<1>2. IsFiniteSet(Statements)
  <2>1. IsFiniteSet(1..Len(tokens))
    BY <1>1, FS_Interval
  <2> QED
    BY <1>1, <2>1, FS_Subset
<1>3. ASSUME NEW o
      PROVE  IsFiniteSet({p \in Statements : p < o}) /\ StatementsBefore(o) \in Nat
  <2>1. {p \in Statements : p < o} \in SUBSET Statements
    OBVIOUS
  <2>2. IsFiniteSet({p \in Statements : p < o})
    BY <1>2, <2>1, FS_Subset
  <2> QED
    BY <2>2, FS_CardinalityType DEF StatementsBefore
<1> QED
  BY <1>2, <1>3, FS_CardinalityType

\* Passing what is no statement leaves their number.
LEMMA NoneBetween ==
  ASSUME IsSource(tokens), NEW o \in Int, NEW n \in Int, o <= n,
         \A p \in o..n-1 : p \notin Statements
  PROVE  StatementsBefore(n) = StatementsBefore(o)
<1>1. \A p \in Statements : p \in Int
  BY PlacesType DEF Statements
<1>2. {p \in Statements : p < n} = {p \in Statements : p < o}
  BY <1>1
<1> QED
  BY <1>2 DEF StatementsBefore

\* Passing a statement adds one.
LEMMA OneBetween ==
  ASSUME IsSource(tokens), NEW s \in Statements, NEW n \in Int, s < n,
         \A p \in s+1..n-1 : p \notin Statements
  PROVE  StatementsBefore(n) = StatementsBefore(s) + 1
<1>1. s \in Int /\ \A p \in Statements : p \in Int
  BY PlacesType DEF Statements
<1>2. {p \in Statements : p < n} = {p \in Statements : p < s} \cup {s}
  <2>1. \A p \in Statements : p < n <=> p < s \/ p = s
    <3> TAKE p \in Statements
    <3>1. p \in Int /\ s \in Int
      BY <1>1
    <3>2. p \in s+1..n-1 => FALSE
      OBVIOUS
    <3> QED
      BY <3>1, <3>2
  <2> QED
    BY <1>1, <2>1
<1>3. s \notin {p \in Statements : p < s}
  BY <1>1
<1>4. IsFiniteSet({p \in Statements : p < s})
  BY StatementsType
<1> QED
  BY <1>2, <1>3, <1>4, FS_AddElement DEF StatementsBefore

\* Each statement has a number of its own.
LEMMA StatementsOrdered ==
  ASSUME IsSource(tokens), NEW p \in Statements, NEW q \in Statements,
         StatementsBefore(p) = StatementsBefore(q)
  PROVE  p = q
<1>1. p \in Int /\ q \in Int /\ \A r \in Statements : r \in Int
  BY PlacesType DEF Statements
<1>2. ASSUME NEW i \in Statements, NEW j \in Statements, i < j, StatementsBefore(i) = StatementsBefore(j)
      PROVE  FALSE
  <2>1. {r \in Statements : r < i} \in SUBSET {r \in Statements : r < j}
    <3>1. \A r \in Statements : r < i => r < j
      BY <1>1, <1>2
    <3> QED
      BY <3>1
  <2>2. {r \in Statements : r < i} = {r \in Statements : r < j}
    BY <1>2, <2>1, StatementsType, FS_Subset DEF StatementsBefore
  <2>3. i \in {r \in Statements : r < i}
    BY <1>2, <2>2
  <2> QED
    BY <1>1, <2>3
<1> QED
  BY <1>1, <1>2

\* Behind the source all statements have been passed.
LEMMA AllBefore ==
  ASSUME IsSource(tokens)
  PROVE  StatementsBefore(Len(tokens) + 1) = Cardinality(Statements)
<1>1. {p \in Statements : p < Len(tokens) + 1} = Statements
  BY PlacesType DEF Statements
<1> QED
  BY <1>1 DEF StatementsBefore

\* No turn changes the source, nor what is said of it.
LEMMA SameSource ==
  ASSUME tokens' = tokens
  PROVE  /\ WellFormed' = WellFormed
         /\ Places' = Places /\ Statements' = Statements /\ Meaning' = Meaning
         /\ \A p : /\ Depth(p)' = Depth(p) /\ LineStart(p)' = LineStart(p)
                   /\ StatementsBefore(p)' = StatementsBefore(p)
                   /\ Jump(p)' = Jump(p) /\ LinkOf(p)' = LinkOf(p)
                   /\ Draft(p)' = Draft(p) /\ LabelsAt(p)' = LabelsAt(p)
         /\ \A p, q, x : InBlock(p, q, x)' = InBlock(p, q, x)
<1>1. /\ Places' = Places
      /\ \A p : /\ LineStart(p)' = LineStart(p) /\ Header(p)' = Header(p)
                /\ LabelsAt(p)' = LabelsAt(p)
      /\ \A p, q, x : Count(p, q, x)' = Count(p, q, x) /\ Line(p, x)' = Line(p, x)
  BY DEF Places, LineStart, Header, LabelsAt, Count, Line
<1>2. /\ \A p : Depth(p)' = Depth(p)
      /\ \A p, q : Balanced(p, q)' = Balanced(p, q)
  BY <1>1 DEF Depth, Balanced
<1>3. \A p : JumpToLabel(p)' = JumpToLabel(p)
  BY <1>1 DEF JumpToLabel
<1>4. \A p : StatementAt(p)' = StatementAt(p)
  BY <1>1, <1>3 DEF StatementAt
<1>5. Statements' = Statements
  BY <1>1, <1>4 DEF Statements
<1>6. \A p : StatementsBefore(p)' = StatementsBefore(p) /\ Enclosing(p)' = Enclosing(p)
  BY <1>2, <1>5 DEF StatementsBefore, Enclosing
<1>7. \A p : MeantCondition(p)' = MeantCondition(p)
  BY <1>6 DEF MeantCondition
<1>8. \A p : MeantArguments(p)' = MeantArguments(p)
  BY <1>1, <1>3, <1>5 DEF MeantArguments, StatementsBefore, LabelsAt, Places
<1>9. \A p : /\ Jump(p)' = Jump(p) /\ LinkOf(p)' = LinkOf(p) /\ Draft(p)' = Draft(p)
  BY <1>3, <1>5, <1>6, <1>7, <1>8 DEF Jump, LinkOf, Draft
<1>10. \A p, q, x : InBlock(p, q, x)' = InBlock(p, q, x)
  <2>1. ASSUME NEW p, NEW q, NEW x PROVE InBlock(p, q, x)' = InBlock(p, q, x)
    <3>1. Depth(p)' = Depth(p) /\ Depth(q - 1)' = Depth(q - 1) /\ Depth(x)' = Depth(x)
      BY <1>2
    <3> QED
      BY <1>2, <3>1 DEF InBlock
  <2> QED
    BY <2>1
<1>12. Meaning' = Meaning
  BY <1>5, <1>6, <1>7, <1>8 DEF Meaning
<1>11. WellFormed' = WellFormed
  <2>1. LinesWellFormed' = LinesWellFormed
    BY <1>1, <1>4 DEF LinesWellFormed
  <2>2. LabelsWellFormed' = LabelsWellFormed
    BY <1>1, <1>3, <1>5 DEF LabelsWellFormed
  <2> QED
    BY <1>2, <2>1, <2>2 DEF WellFormed
<1> QED
  BY <1>1, <1>2, <1>5, <1>6, <1>9, <1>10, <1>11, <1>12

(***************************************************************************)
(* Where the innermost parser is.                                          *)
(***************************************************************************)

\* Blocks of the whole source are balanced.
LEMMA WholeDepths ==
  ASSUME Kept
  PROVE  Depth(Len(tokens)) = 0 /\ \A p \in 0..Len(tokens) : Depth(p) >= 0
<1>1. Len(tokens) \in Nat /\ 1 <= Len(tokens) + 1 /\ 1 - 1 = 0
  BY PlacesType DEF Kept
<1>2. Balanced(1, Len(tokens))
  BY DEF Kept, WellFormed
<1>3. /\ Depth(Len(tokens)) = Depth(1 - 1)
      /\ \A p \in 1..Len(tokens) : Depth(p) >= Depth(1 - 1)
  BY <1>1, <1>2, BalancedDepth
<1>4. Depth(0) = 0 /\ \A p \in 0..Len(tokens) : p = 0 \/ p \in 1..Len(tokens)
  BY <1>1, DepthStart
<1> QED
  BY <1>1, <1>3, <1>4

Reads == Kept /\ NestInv /\ Windows /\ BlocksInv /\ Parsing

\* The window of the innermost parser: of the whole source, or of a block.
LEMMA InnermostWindow ==
  ASSUME Reads
  PROVE  /\ Parser.offset \in Places /\ Parser.offset < Parser.end /\ LineStart(Parser.offset)
         /\ Parser.offset \in Nat /\ Parser.end \in Nat
         /\ \/ /\ Len(parsers) = 1 /\ Parser.end = Len(tokens) + 1
               /\ \A o \in Nat : Parser.offset = o => Depth(o - 1) = 0
            \/ /\ Len(parsers) \in Nat /\ Len(parsers) > 1
               /\ \E begin, o, end \in Places :
                    /\ Parser.offset = o /\ Parser.end = end /\ InBlock(begin, o, end)
                    /\ Top = tokens[begin - 1].lexeme
<1>1. /\ Len(parsers) \in Nat /\ Len(parsers) > 0
      /\ Parser.offset \in Nat /\ Parser.end \in Nat
  BY ParserType DEF Reads
<1>2. Parser.offset \in 1..Len(tokens) /\ Parser.offset < Parser.end
  BY AtToken DEF Reads
<1>3. Parser.offset \in Places
  BY <1>2, PlacesType DEF Reads, Kept
<1>4. LineStart(Parser.offset)
  BY <1>3 DEF Reads, BlocksInv
<1>5. CASE Len(parsers) = 1
  BY <1>1, <1>2, <1>3, <1>4, <1>5 DEF Reads, BlocksInv, Parser
<1>6. CASE Len(parsers) > 1
  <2>1. BlockAt(Len(parsers))
    BY <1>1, <1>6 DEF Reads, BlocksInv
  <2>2. Len(stack) = Len(parsers)
    BY DEF Reads, Parsing, NestInv, BlocksNest
  <2>3. \E begin, o, end \in Places :
          /\ Parser.offset = o /\ Parser.end = end /\ InBlock(begin, o, end)
          /\ Top = tokens[begin - 1].lexeme
    BY <2>1, <2>2 DEF BlockAt, Parser, Top
  <2> QED
    BY <1>1, <1>2, <1>3, <1>4, <1>6, <2>3
<1>7. Len(parsers) = 1 \/ Len(parsers) > 1
  <2>1. PICK n \in Nat : n = Len(parsers)
    BY <1>1
  <2> QED
    BY <1>1, <2>1
<1> QED
  BY <1>5, <1>6, <1>7

\* A place up to which no line begins is in the window.
LEMMA InWindow ==
  ASSUME Reads, NEW o \in Nat, o = Parser.offset, NEW p \in Places, o <= p,
         ~Is(tokens[o], "end"), \A q \in o+1..p : ~LineStart(q)
  PROVE  p < Parser.end
<1>1. o < Parser.end /\ Parser.end \in Nat
  BY InnermostWindow
<1>2. p \in Nat /\ p <= Len(tokens) /\ Len(tokens) \in Nat
  BY PlacesType DEF Reads, Kept
<1>3. CASE Parser.end = Len(tokens) + 1
  BY <1>2, <1>3
<1>4. CASE \E end \in Places : Parser.end = end /\ Is(tokens[end], "end")
  <2>1. PICK end \in Places : Parser.end = end /\ Is(tokens[end], "end")
    BY <1>4
  <2>2. LineStart(end)
    BY <2>1 DEF Reads, Kept, WellFormed, LinesWellFormed
  <2>3. end \in Nat
    BY PlacesType DEF Reads, Kept
  <2> QED
    BY <1>1, <1>2, <2>1, <2>2, <2>3
<1> QED
  BY <1>3, <1>4, InnermostWindow DEF InBlock

\* No end of a block is read inside its window.
LEMMA NoEndInWindow ==
  ASSUME Reads, NEW o \in Nat, o = Parser.offset
  PROVE  ~Is(tokens[o], "end")
<1>1. SUFFICES ASSUME Is(tokens[o], "end") PROVE FALSE
  OBVIOUS
<1>2. o \in Places /\ o < Parser.end
  BY InnermostWindow
<1>3. o >= 1 /\ o <= Len(tokens) /\ Len(tokens) \in Nat
  BY <1>2, PlacesType DEF Reads, Kept
<1>4. Depth(o) = Depth(o - 1) - 1 /\ Depth(o) \in Int /\ Depth(o - 1) \in Int
  BY <1>1, <1>3, DepthStep, SMTT(30)
<1>5. Depth(o) >= 0
  BY <1>3, WholeDepths DEF Reads
<1>6. CASE Depth(o - 1) = 0
  BY <1>4, <1>5, <1>6
<1>7. CASE \E begin, end \in Places : Parser.end = end /\ InBlock(begin, o, end)
  <2>1. PICK begin \in Places, end \in Places : Parser.end = end /\ InBlock(begin, o, end)
    BY <1>7
  <2>2. begin \in Nat /\ end \in Nat
    BY PlacesType DEF Reads, Kept
  <2>3. o \in begin..end-1
    BY <1>2, <2>1, <2>2 DEF InBlock
  <2>4. Depth(o) >= Depth(begin) /\ Depth(o - 1) = Depth(begin)
    BY <2>1, <2>3 DEF InBlock
  <2> QED
    BY <1>4, <2>4
<1> QED
  BY <1>6, <1>7, InnermostWindow

\* A parser that reads is at a break, a label, a block's head or a statement.
LEMMA AtLine ==
  ASSUME Reads, NEW o \in Nat, o = Parser.offset
  PROVE  /\ o \in Places /\ o < Parser.end /\ LineStart(o)
         /\ \/ tokens[o].type = "BREAK" \/ tokens[o].type = "LABEL"
            \/ Header(o) \/ o \in Statements
<1>1. o \in Places /\ o < Parser.end /\ LineStart(o)
  BY InnermostWindow
<1>2. ~Is(tokens[o], "end")
  BY NoEndInWindow
<1> QED
  BY <1>1, <1>2 DEF Reads, Kept, WellFormed, LinesWellFormed, Statements

\* Breaks and labels open and close nothing.
LEMMA NoKeyword ==
  ASSUME Kept, NEW p \in Places, tokens[p].type \in {"BREAK", "LABEL"}
  PROVE  /\ ~Is(tokens[p], "begin") /\ ~Is(tokens[p], "end") /\ ~Is(tokens[p], "if")
         /\ p \notin Statements /\ Depth(p) = Depth(p - 1)
<1>1. ~Is(tokens[p], "begin") /\ ~Is(tokens[p], "end") /\ ~Is(tokens[p], "if")
  BY KeywordType DEF Kept
<1>2. p \notin Statements
  BY DEF Statements, StatementAt
<1>3. p \in Nat \ {0}
  BY PlacesType DEF Kept
<1> QED
  BY <1>1, <1>2, <1>3, DepthStep

(***************************************************************************)
(* Blocks are the source's, turn by turn.                                  *)
(***************************************************************************)

\* Going on to the next line at the same depth.
LEMMA AdvanceInBlock ==
  ASSUME Reads, NEW o \in Nat, o = Parser.offset, NEW p \in Nat, o <= p, p <= Parser.end,
         Depth(p - 1) = Depth(o - 1), p \in Places => LineStart(p),
         parsers' = AdvanceTo(p), UNCHANGED <<tokens, stack>>, phase' # "raised"
  PROVE  BlocksInv'
<1>1. /\ parsers \in Seq(Window) /\ parsers # <<>>
      /\ Len(parsers) \in Nat /\ Len(parsers) > 0
  BY ParserType DEF Reads, NestInv, Parsing
<1>2. PICK n \in Nat : n = Len(parsers) /\ n > 0
  BY <1>1
<1>3. /\ Len(parsers') = n
      /\ parsers'[n].offset = p
      /\ \A i \in 1..n : parsers'[i].end = parsers[i].end
      /\ \A i \in 1..n-1 : parsers'[i] = parsers[i]
  BY <1>1, <1>2, AdvanceShape
<1>4. parsers[n].offset = o /\ parsers[n].end = Parser.end
  BY <1>2 DEF Parser
<1>5. /\ Places' = Places
      /\ \A q : Depth(q)' = Depth(q) /\ LineStart(q)' = LineStart(q)
      /\ \A b, q, x : InBlock(b, q, x)' = InBlock(b, q, x)
  BY SameSource
<1>6. (\A q \in Places : Parser.offset = q => LineStart(q))'
  BY <1>2, <1>3, <1>5 DEF Parser
<1>7. (stack[1] = "t" /\ parsers[1].end = Len(tokens) + 1)'
  <2>1. 1 \in 1..n
    BY <1>2
  <2> QED
    BY <1>3, <2>1 DEF Reads, BlocksInv
<1>8. (\A q \in Nat : parsers[1].offset = q => Depth(q - 1) = 0)'
  <2>1. SUFFICES ASSUME NEW q \in Nat, parsers'[1].offset = q PROVE Depth(q - 1)' = 0
    OBVIOUS
  <2>2. Depth(q - 1)' = Depth(q - 1)
    BY <1>5
  <2>3. CASE n = 1
    <3>1. q = p /\ Depth(o - 1) = 0
      BY <1>3, <1>4, <2>1, <2>3 DEF Reads, BlocksInv
    <3> QED
      BY <2>2, <3>1
  <2>4. CASE n # 1
    <3>1. 1 \in 1..n-1
      BY <1>2, <2>4
    <3>2. Depth(q - 1) = 0
      BY <1>3, <2>1, <3>1 DEF Reads, BlocksInv
    <3> QED
      BY <2>2, <3>2
  <2> QED
    BY <2>3, <2>4
<1>9. ASSUME NEW i \in 2..n PROVE BlockAt(i)'
  <2>1. i - 1 \in 1..n-1 /\ i \in 1..n /\ (i = n \/ i \in 1..n-1)
    BY <1>2
  <2>2. PICK begin \in Places, q \in Places, end \in Places :
          /\ parsers[i].offset = q /\ parsers[i].end = end /\ parsers[i - 1].offset = end + 1
          /\ InBlock(begin, q, end)
          /\ stack[i] = tokens[begin - 1].lexeme
    BY <1>2 DEF Reads, BlocksInv, BlockAt
  <2>3. parsers'[i].end = end /\ parsers'[i - 1].offset = end + 1
        /\ stack'[i] = tokens'[begin - 1].lexeme
    BY <1>3, <2>1, <2>2
  <2>4. CASE i \in 1..n-1
    BY <1>3, <1>5, <2>2, <2>3, <2>4 DEF BlockAt
  <2>5. CASE i = n
    <3>1. q = o /\ end = Parser.end
      BY <1>4, <2>2, <2>5
    <3>2. begin \in Nat /\ end \in Nat /\ 1 <= o /\ o \in Places
      BY <2>2, <3>1, PlacesType DEF Reads, Kept
    <3>3. InBlock(begin, p, end)
      BY <2>2, <3>1, <3>2 DEF InBlock
    <3>4. p \in Places
      BY <2>2, <3>1, <3>2, PlaceBefore DEF Reads, Kept
    <3> QED
      BY <1>3, <1>5, <2>2, <2>3, <2>5, <3>3, <3>4 DEF BlockAt
  <2> QED
    BY <2>1, <2>4, <2>5
<1> QED
  BY <1>2, <1>3, <1>6, <1>7, <1>8, <1>9 DEF BlocksInv

\* Where a block ends.
LEMMA BlockEnd ==
  ASSUME Kept, NEW begin \in Nat, NEW limit \in Nat, begin >= 1,
         \E q \in begin+1..limit-1 : Depth(q) < Depth(begin)
  PROVE  \E end \in begin+1..limit-1 :
           /\ Block(begin + 1, limit) = end + 1
           /\ Is(tokens[end], "end") /\ Depth(end) = Depth(begin) - 1
           /\ \A q \in begin..end-1 : Depth(q) >= Depth(begin)
<1> DEFINE below == {q \in begin+1..limit-1 : Depth(q) < Depth(begin)}
<1>1. \A q \in Nat : Depth(q) \in Int
  BY DepthType
<1>2. {q \in begin+1..limit-1 : Count(begin + 1, q, "end") > Count(begin + 1, q, "begin")} = below
  <2>1. ASSUME NEW q \in begin+1..limit-1
        PROVE  Count(begin + 1, q, "end") > Count(begin + 1, q, "begin")
                 <=> Depth(q) < Depth(begin)
    <3>1. q \in Nat /\ begin + 1 \in Nat /\ 1 <= begin + 1 /\ begin + 1 <= q + 1
          /\ (begin + 1) - 1 = begin
      OBVIOUS
    <3>2. /\ Count(begin + 1, q, "begin") \in Nat /\ Count(begin + 1, q, "end") \in Nat
          /\ Count(begin + 1, q, "begin") - Count(begin + 1, q, "end")
               = Depth(q) - Depth((begin + 1) - 1)
      BY <3>1, CountDepth
    <3> QED
      BY <1>1, <3>1, <3>2
  <2> QED
    BY <2>1
<1>3. PICK end \in below : \A q \in below : end <= q
  <2>1. below \in SUBSET Nat /\ below # {}
    OBVIOUS
  <2> HIDE DEF below
  <2> QED
    BY <2>1, LeastPlace
<1>4. end \in begin+1..limit-1 /\ end \in Nat /\ Depth(end) < Depth(begin)
  BY <1>3
<1>5. Block(begin + 1, limit) = end + 1
  <2> DEFINE places == {q + 1 : q \in below}
  <2>1. Block(begin + 1, limit) = First(places, limit)
    BY <1>2 DEF Block
  <2>2. end + 1 \in places /\ \A x \in places : x \in Nat /\ end + 1 <= x
    BY <1>3
  <2> HIDE DEF places, below
  <2>3. First(places, limit) = CHOOSE x \in places : \A y \in places : x <= y
    BY <2>2 DEF First
  <2>4. First(places, limit) \in places /\ \A y \in places : First(places, limit) <= y
    BY <2>2, <2>3
  <2>5. First(places, limit) = end + 1
    BY <2>2, <2>4, <1>4
  <2> QED
    BY <2>1, <2>5
<1>6. \A q \in begin..end-1 : Depth(q) >= Depth(begin)
  <2> TAKE q \in begin..end-1
  <2>1. CASE q = begin
    BY <1>1, <2>1
  <2>2. CASE q # begin
    <3>1. q \in begin+1..limit-1 /\ q < end
      BY <1>4, <2>2
    <3>2. q \notin below
      BY <1>3, <3>1
    <3> QED
      BY <1>1, <3>1, <3>2
  <2> QED
    BY <2>1, <2>2
<1>7. Is(tokens[end], "end") /\ Depth(end) = Depth(begin) - 1
  <2>1. end \in Nat \ {0} /\ end - 1 \in begin..end-1
    BY <1>4
  <2>2. Depth(end - 1) >= Depth(begin) /\ Depth(end - 1) \in Int /\ Depth(begin) \in Int
    BY <1>1, <1>6, <2>1
  <2>3. /\ Depth(end) \in Int
        /\ Is(tokens[end], "begin") => Depth(end) = Depth(end - 1) + 1
        /\ Is(tokens[end], "end") => Depth(end) = Depth(end - 1) - 1
        /\ ~Is(tokens[end], "begin") /\ ~Is(tokens[end], "end") => Depth(end) = Depth(end - 1)
    BY <2>1, DepthStep
  <2> QED
    BY <1>4, <2>2, <2>3
<1> QED
  BY <1>4, <1>5, <1>6, <1>7

\* The parser of a block ends on its end, and the one around it goes on behind it.
LEMMA CloseInBlock ==
  ASSUME Kept, NestInv, BlocksInv, CloseBlock
  PROVE  /\ BlocksInv'
         /\ \E end \in Places : /\ Is(tokens[end], "end")
                                /\ Parser.offset = end /\ Parser'.offset = end + 1
<1>1. PICK n \in Nat : n = Len(parsers)
  BY LenProperties DEF NestInv
<1>2. /\ n > 1 /\ phase = "parsing" /\ phase' = phase /\ tokens' = tokens
      /\ parsers' = SubSeq(parsers, 1, n - 1)
      /\ stack' = SubSeq(stack, 1, Len(stack) - 1)
  BY <1>1 DEF CloseBlock, PopCondition
<1>3. Len(stack) = n
  BY <1>1, <1>2 DEF NestInv, BlocksNest
<1>4. \A i \in 1..n-1 : parsers[i] \in Window /\ stack[i] \in conditions
  <2>1. \A i \in 1..n-1 : i \in 1..n
    OBVIOUS
  <2> QED
    BY <1>1, <1>3, <2>1, ElementOfSeq DEF NestInv
<1>5. Len(parsers') = n - 1 /\ \A i \in 1..n-1 : parsers'[i] = parsers[i]
  <2>1. \A i \in 1..(n-1)-1+1 : SubSeq(parsers, 1, n - 1)[i] = parsers[1+i-1]
    BY <1>2, <1>4, SubSeqProperties
  <2> QED
    BY <1>2, <1>4, <2>1, SubSeqProperties
<1>6. \A i \in 1..n-1 : stack'[i] = stack[i]
  <2>1. \A i \in 1..(n-1)-1+1 : SubSeq(stack, 1, n - 1)[i] = stack[1+i-1]
    BY <1>2, <1>4, SubSeqProperties
  <2> QED
    BY <1>2, <1>3, <2>1
<1>7. PICK begin \in Places, o \in Places, end \in Places :
        /\ parsers[n].offset = o /\ parsers[n].end = end /\ parsers[n - 1].offset = end + 1
        /\ InBlock(begin, o, end)
  <2>1. BlockAt(n)
    BY <1>1, <1>2 DEF BlocksInv
  <2> QED
    BY <2>1 DEF BlockAt
<1>8. o \in Nat /\ end \in Nat
  BY PlacesType DEF Kept
<1>9. o = end /\ Is(tokens[end], "end")
  <2>1. parsers[n].offset >= parsers[n].end
    BY <1>1 DEF CloseBlock, Empty, Parser
  <2> QED
    BY <1>7, <1>8, <2>1 DEF InBlock
<1>10. /\ Places' = Places
       /\ \A q : Depth(q)' = Depth(q) /\ LineStart(q)' = LineStart(q)
       /\ \A b, q, x : InBlock(b, q, x)' = InBlock(b, q, x)
  BY <1>2, SameSource
<1>11. Parser'.offset = end + 1 /\ Parser.offset = end
  <2>1. n - 1 \in 1..n-1
    BY <1>2
  <2> QED
    BY <1>1, <1>5, <1>7, <1>9, <2>1 DEF Parser
<1>12. (\A q \in Places : Parser.offset = q => LineStart(q))'
  <2>1. LineStart(end + 1)
    BY <1>8, <1>9 DEF LineStart
  <2> QED
    BY <1>10, <1>11, <2>1
<1>13. 1 \in 1..n-1
  BY <1>2
<1>14. (/\ stack[1] = "t" /\ parsers[1].end = Len(tokens) + 1
        /\ \A q \in Nat : parsers[1].offset = q => Depth(q - 1) = 0)'
  BY <1>2, <1>5, <1>6, <1>10, <1>13 DEF BlocksInv
<1>15. ASSUME NEW i \in 2..n-1 PROVE BlockAt(i)'
  <2>1. i \in 1..n-1 /\ i - 1 \in 1..n-1 /\ i \in 2..n
    BY <1>2
  <2>2. BlockAt(i)
    BY <1>1, <2>1 DEF BlocksInv
  <2> QED
    BY <1>2, <1>5, <1>6, <1>10, <2>1, <2>2 DEF BlockAt
<1> QED
  BY <1>2, <1>5, <1>9, <1>11, <1>12, <1>14, <1>15 DEF BlocksInv

\* A block that begins in a window ends in it.
LEMMA BlockInWindow ==
  ASSUME Reads, NEW o \in Nat, o = Parser.offset, Header(o)
  PROVE  /\ o + 2 < Parser.end /\ o + 1 \in Places /\ o + 2 \in Places
         /\ Depth(o + 2) = Depth(o - 1) + 1 /\ Depth(o - 1) \in Int
         /\ \E end \in o+3..Parser.end-1 :
              /\ end \in Places /\ Block(o + 3, Parser.end) = end + 1
              /\ Is(tokens[end], "end") /\ Depth(end) = Depth(o - 1)
              /\ \A q \in o+2..end-1 : Depth(q) >= Depth(o + 2)
<1>1. /\ o \in Places /\ o >= 1 /\ LineStart(o) /\ Parser.end \in Nat /\ Len(tokens) \in Nat
      /\ \A q \in Places : q \in Nat /\ 1 <= q /\ q <= Len(tokens)
  BY InnermostWindow, PlacesType DEF Reads, Kept
<1>2. PICK limit \in Nat : limit = Parser.end
  BY <1>1
<1>3. /\ o + 1 \in Places /\ o + 2 \in Places
      /\ Is(tokens[o + 2], "begin") /\ ~Is(tokens[o + 2], "end")
      /\ \A x \in {"begin", "end"} : ~Is(tokens[o], x) /\ ~Is(tokens[o + 1], x)
      /\ ~LineStart(o + 1) /\ ~LineStart(o + 2)
  BY <1>1, HeaderShape DEF Reads
<1>4. o + 2 < limit
  <2>1. \A q \in o+1..o+2 : q = o + 1 \/ q = o + 2
    OBVIOUS
  <2>2. \A q \in o+1..o+2 : ~LineStart(q)
    BY <1>3, <2>1
  <2>3. o <= o + 2 /\ ~Is(tokens[o], "end")
    BY <1>3
  <2> QED
    BY <1>2, <1>3, <2>2, <2>3, InWindow
<1>5. Depth(o + 2) = Depth(o - 1) + 1 /\ Depth(o - 1) \in Int
  <2>1. o \in Nat \ {0} /\ o + 1 \in Nat \ {0} /\ o + 2 \in Nat \ {0}
        /\ (o + 1) - 1 = o /\ (o + 2) - 1 = o + 1
    BY <1>1
  <2>2. Depth(o) = Depth(o - 1) /\ Depth(o - 1) \in Int
    BY <1>3, <2>1, DepthStep
  <2>3. Depth(o + 1) = Depth(o)
    BY <1>3, <2>1, DepthStep
  <2>4. Depth(o + 2) = Depth(o + 1) + 1
    BY <1>3, <2>1, DepthStep
  <2> QED
    BY <2>2, <2>3, <2>4
<1>6. limit - 1 \in Nat /\ limit - 1 <= Len(tokens) /\ Depth(limit - 1) = Depth(o - 1)
  <2>1. CASE limit = Len(tokens) + 1 /\ Depth(o - 1) = 0
    <3>1. limit - 1 = Len(tokens)
      BY <1>1, <2>1
    <3> QED
      BY <1>1, <2>1, <3>1, WholeDepths DEF Reads
  <2>2. CASE \E b, end \in Places : limit = end /\ InBlock(b, o, end)
    <3>1. PICK b \in Places, end \in Places : limit = end /\ InBlock(b, o, end)
      BY <2>2
    <3>2. end \in Nat \ {0} /\ b \in Nat /\ end <= Len(tokens)
      BY <1>1
    <3>3. Depth(end) = Depth(end - 1) - 1 /\ Depth(end - 1) \in Int
      BY <3>1, <3>2, DepthStep DEF InBlock
    <3>4. Depth(b) \in Int
      BY <3>2, DepthType
    <3>5. Depth(o - 1) = Depth(b) /\ Depth(end) = Depth(b) - 1
      BY <3>1 DEF InBlock
    <3>6. Depth(end - 1) = Depth(o - 1)
      BY <3>3, <3>4, <3>5
    <3> QED
      BY <1>1, <3>1, <3>2, <3>6
  <2> QED
    BY <1>2, <2>1, <2>2, InnermostWindow
<1>7. \E q \in (o+2)+1..limit-1 : Depth(q) < Depth(o + 2)
  <2>1. limit - 1 # o + 2
    BY <1>5, <1>6
  <2>2. limit - 1 \in (o+2)+1..limit-1
    BY <1>4, <1>6, <2>1
  <2> QED
    BY <1>5, <1>6, <2>2
<1>8. (o + 2) + 1 = o + 3 /\ o + 2 \in Nat /\ o + 2 >= 1
  OBVIOUS
<1>9. PICK end \in (o+2)+1..limit-1 :
        /\ Block((o + 2) + 1, limit) = end + 1
        /\ Is(tokens[end], "end") /\ Depth(end) = Depth(o + 2) - 1
        /\ \A q \in o+2..end-1 : Depth(q) >= Depth(o + 2)
  BY <1>7, <1>8, BlockEnd DEF Reads
<1>10. end \in o+3..limit-1 /\ Block(o + 3, limit) = end + 1 /\ Depth(end) = Depth(o - 1)
  BY <1>5, <1>8, <1>9
<1>11. end \in Places
  <2>1. end \in Int /\ 1 <= end /\ end <= Len(tokens)
    BY <1>1, <1>6, <1>10, SMTT(30)
  <2> QED
    BY <2>1, PlacesType DEF Reads, Kept
<1> QED
  BY <1>2, <1>3, <1>4, <1>5, <1>9, <1>10, <1>11

\* A block of the source is opened with its own condition, and its end is found.
LEMMA OpenInBlock ==
  ASSUME Reads, NEW o \in Nat, o = Parser.offset, Header(o), OpenBlock
  PROVE  BlocksInv' /\ failed' = failed /\ Parser'.offset = o + 3
<1>1. /\ parsers \in Seq(Window) /\ parsers # <<>>
      /\ Len(parsers) \in Nat /\ Len(parsers) > 0 /\ Parser.end \in Nat
  BY ParserType DEF Reads, NestInv, Parsing
<1>2. PICK n \in Nat : n = Len(parsers) /\ n > 0
  BY <1>1
<1>3. /\ o \in Places /\ o + 1 \in Places /\ o + 2 \in Places /\ LineStart(o)
      /\ \A q \in Places : q \in Nat /\ 1 <= q /\ q <= Len(tokens)
  BY InnermostWindow, BlockInWindow, PlacesType DEF Reads, Kept
<1>4. tokens[o + 1].cond = "" /\ tokens[o + 1].lexeme \in conditions /\ Is(tokens[o + 2], "begin")
  BY <1>3, HeaderShape DEF Reads
<1>5. PICK end \in o+3..Parser.end-1 :
        /\ end \in Places /\ Block(o + 3, Parser.end) = end + 1
        /\ Is(tokens[end], "end") /\ Depth(end) = Depth(o - 1)
        /\ \A q \in o+2..end-1 : Depth(q) >= Depth(o + 2)
  BY BlockInWindow
<1>6. end \in Nat /\ o + 3 <= end /\ end + 1 \in Nat /\ (end + 1) - 1 = end /\ end + 1 <= Parser.end
  BY <1>1, <1>5
<1>7. Depth(end) = Depth(o + 2) - 1 /\ Depth(o + 2) \in Int
  BY <1>5, BlockInWindow
<1>8. /\ stack' = Append(stack, tokens[o + 1].lexeme)
      /\ parsers' = Append(AdvanceTo(end + 1), [offset |-> o + 3, end |-> end])
      /\ failed' = failed /\ tokens' = tokens /\ phase' = phase /\ phase = "parsing"
  BY <1>4, <1>5, <1>6 DEF OpenBlock, PushCondition, Parsing
<1>9. /\ AdvanceTo(end + 1) \in Seq(Window) /\ Len(AdvanceTo(end + 1)) = n
      /\ AdvanceTo(end + 1)[n].offset = end + 1
      /\ \A i \in 1..n : AdvanceTo(end + 1)[i].end = parsers[i].end
      /\ \A i \in 1..n-1 : AdvanceTo(end + 1)[i] = parsers[i]
  BY <1>1, <1>2, <1>6, AdvanceShape
<1>10. /\ Len(parsers') = n + 1
       /\ parsers'[n + 1] = [offset |-> o + 3, end |-> end]
       /\ \A i \in 1..n : parsers'[i] = AdvanceTo(end + 1)[i]
  BY <1>8, <1>9
<1>11. /\ parsers'[n + 1].offset = o + 3 /\ parsers'[n + 1].end = end
       /\ parsers'[n].offset = end + 1
       /\ \A i \in 1..n : parsers'[i].end = parsers[i].end
       /\ \A i \in 1..n-1 : parsers'[i] = parsers[i]
  <2>1. n \in 1..n /\ \A i \in 1..n-1 : i \in 1..n
    BY <1>2
  <2> QED
    BY <1>9, <1>10, <2>1, SMTT(30)
<1>12. /\ stack'[n + 1] = tokens[o + 1].lexeme
       /\ \A i \in 1..n : stack'[i] = stack[i]
  <2>1. Len(stack) = n /\ stack \in Seq(conditions)
    BY <1>2 DEF Reads, NestInv, BlocksNest, Parsing
  <2> QED
    BY <1>8, <2>1
<1>13. parsers[n].offset = o /\ parsers[n].end = Parser.end
  BY <1>2 DEF Parser
<1>14. /\ Places' = Places
       /\ \A q : Depth(q)' = Depth(q) /\ LineStart(q)' = LineStart(q)
       /\ \A b, q, x : InBlock(b, q, x)' = InBlock(b, q, x)
  BY <1>8, SameSource
<1>15. Parser'.offset = o + 3
  BY <1>10, <1>11 DEF Parser
<1>16. (\A q \in Places : Parser.offset = q => LineStart(q))'
  <2>1. (o + 3) - 1 = o + 2
    OBVIOUS
  <2>2. LineStart(o + 3)
    BY <1>4, <2>1 DEF LineStart
  <2> QED
    BY <1>14, <1>15, <2>2
<1>17. (stack[1] = "t" /\ parsers[1].end = Len(tokens) + 1)'
  <2>1. 1 \in 1..n
    BY <1>2
  <2> QED
    BY <1>8, <1>11, <1>12, <2>1 DEF Reads, BlocksInv
<1>18. (\A q \in Nat : parsers[1].offset = q => Depth(q - 1) = 0)'
  <2>1. SUFFICES ASSUME NEW q \in Nat, parsers'[1].offset = q PROVE Depth(q - 1)' = 0
    OBVIOUS
  <2>2. Depth(q - 1)' = Depth(q - 1)
    BY <1>14
  <2>3. CASE n = 1
    <3>1. q = end + 1 /\ Depth(o - 1) = 0
      BY <1>11, <1>13, <2>1, <2>3 DEF Reads, BlocksInv
    <3> QED
      BY <1>5, <1>6, <2>2, <3>1
  <2>4. CASE n # 1
    <3>1. 1 \in 1..n-1
      BY <1>2, <2>4
    <3>2. Depth(q - 1) = 0
      BY <1>11, <2>1, <3>1 DEF Reads, BlocksInv
    <3> QED
      BY <2>2, <3>2
  <2> QED
    BY <2>3, <2>4
<1>19. BlockAt(n + 1)'
  <2>1. (n + 1) - 1 = n /\ (o + 2) - 1 = o + 1 /\ (o + 3) - 1 = o + 2
    OBVIOUS
  <2>2. InBlock(o + 2, o + 3, end)
    <3>1. o + 2 < o + 3 /\ Depth((o + 3) - 1) = Depth(o + 2)
      BY <2>1
    <3> QED
      BY <1>4, <1>5, <1>6, <1>7, <3>1 DEF InBlock
  <2>3. o + 3 \in Places
    BY <1>5, <1>6, PlaceBefore DEF Reads, Kept
  <2> QED
    BY <1>3, <1>5, <1>8, <1>11, <1>12, <1>14, <2>1, <2>2, <2>3, ZenonT(40) DEF BlockAt
<1>20. ASSUME NEW i \in 2..n PROVE BlockAt(i)'
  <2>1. i - 1 \in 1..n-1 /\ i \in 1..n /\ (i = n \/ i \in 1..n-1)
    BY <1>2
  <2>2. PICK b \in Places, q \in Places, e \in Places :
          /\ parsers[i].offset = q /\ parsers[i].end = e /\ parsers[i - 1].offset = e + 1
          /\ InBlock(b, q, e)
          /\ stack[i] = tokens[b - 1].lexeme
    BY <1>2 DEF Reads, BlocksInv, BlockAt
  <2>3. parsers'[i].end = e /\ parsers'[i - 1].offset = e + 1
        /\ stack'[i] = tokens'[b - 1].lexeme
    BY <1>8, <1>11, <1>12, <2>1, <2>2
  <2>4. CASE i \in 1..n-1
    BY <1>11, <1>14, <2>2, <2>3, <2>4 DEF BlockAt
  <2>5. CASE i = n
    <3>1. q = o /\ e = Parser.end
      BY <1>13, <2>2, <2>5
    <3>2. b \in Nat /\ e \in Nat
      BY <1>3
    <3>3. InBlock(b, end + 1, e)
      <4>1. b < end + 1 /\ end + 1 <= e
        BY <1>6, <2>2, <3>1, <3>2 DEF InBlock
      <4>2. Depth((end + 1) - 1) = Depth(b)
        BY <1>5, <1>6, <2>2, <3>1 DEF InBlock
      <4> QED
        BY <2>2, <4>1, <4>2 DEF InBlock
    <3>4. end + 1 \in Places
      <4>1. end + 1 \in Int /\ 1 <= end + 1 /\ end + 1 <= e
        BY <1>6, <3>1
      <4> QED
        BY <4>1, PlaceBefore DEF Reads, Kept
    <3> QED
      BY <1>11, <1>14, <2>2, <2>3, <2>5, <3>3, <3>4 DEF BlockAt
  <2> QED
    BY <2>1, <2>4, <2>5
<1>21. \A i \in 2..n+1 : i = n + 1 \/ i \in 2..n
  OBVIOUS
<1> QED
  BY <1>8, <1>10, <1>15, <1>16, <1>17, <1>18, <1>19, <1>20, <1>21 DEF BlocksInv

(***************************************************************************)
(* Statements of the source, as they are read.                             *)
(***************************************************************************)

\* A statement is read up to the break behind its operands, and leaves the block as
\* it was.
LEMMA StatementEnd ==
  ASSUME Reads, NEW o \in Nat, o = Parser.offset, o \in Statements,
         NEW w \in Nat, w = Width(o)
  PROVE  /\ Until(o, Parser.end) = o + w + 2 /\ o + w + 2 <= Parser.end
         /\ o + w + 2 \in Places => LineStart(o + w + 2)
         /\ Depth((o + w + 2) - 1) = Depth(o - 1)
<1>1. /\ o >= 1 /\ \A k \in 0..w+1 : o + k \in Places
      /\ tokens[o + w + 1].type = "BREAK"
  BY StatementTypes DEF Reads
<1>2. /\ \A k \in 0..w : tokens[o + k].type \notin {"BREAK", "LABEL"}
      /\ \A k \in 0..w+1 : ~Is(tokens[o + k], "begin") /\ ~Is(tokens[o + k], "end")
      /\ \A k \in 1..w+1 : ~LineStart(o + k)
  BY StatementShape DEF Reads
<1>3. PICK e \in Nat : e = Parser.end
  BY InnermostWindow
<1>4. PICK last \in Nat : last = o + w + 1
  OBVIOUS
<1>5. \A q \in o..last : \E k \in 0..w+1 : q = o + k
  <2> TAKE q \in o..last
  <2>1. q - o \in 0..w+1 /\ q = o + (q - o)
    BY <1>4
  <2> QED
    BY <2>1
<1>6. last \in Places /\ tokens[last].type = "BREAK"
  <2>1. w + 1 \in 0..w+1 /\ o + (w + 1) = last /\ o + w + 1 = last
    BY <1>4
  <2> QED
    BY <1>1, <2>1
<1>7. last < e
  <2>1. \A q \in o+1..last : ~LineStart(q)
    <3> TAKE q \in o+1..last
    <3>1. q - o \in 1..w+1 /\ q = o + (q - o)
      BY <1>4
    <3> QED
      BY <1>2, <3>1
  <2>2. ~Is(tokens[o], "end") /\ o <= last
    BY <1>4, NoEndInWindow
  <2> QED
    BY <1>3, <1>6, <2>1, <2>2, InWindow
<1>8. Until(o, e) = last + 1
  <2> DEFINE breaks == {q \in o..e-1 : tokens[q].type = "BREAK"}
             places == {q + 1 : q \in breaks}
  <2>1. last \in breaks
    BY <1>4, <1>6, <1>7
  <2>2. \A q \in breaks : q \in Nat /\ last <= q
    <3> TAKE q \in breaks
    <3>1. q \in Nat /\ o <= q
      OBVIOUS
    <3>2. ~(q < last)
      <4>1. SUFFICES ASSUME q < last PROVE FALSE
        OBVIOUS
      <4>2. q - o \in 0..w /\ q = o + (q - o)
        BY <1>4, <3>1, <4>1
      <4> QED
        BY <1>2, <4>2
    <3> QED
      BY <3>1, <3>2
  <2>3. last + 1 \in places /\ \A x \in places : x \in Nat /\ last + 1 <= x
    BY <2>1, <2>2
  <2>4. Until(o, e) = First(places, e)
    BY DEF Until
  <2> HIDE DEF places, breaks
  <2>5. First(places, e) = CHOOSE x \in places : \A y \in places : x <= y
    BY <2>3 DEF First
  <2>6. First(places, e) \in places /\ \A y \in places : First(places, e) <= y
    BY <2>3, <2>5
  <2>7. First(places, e) = last + 1
    BY <2>3, <2>6
  <2> QED
    BY <2>4, <2>7
<1>9. Depth(last) = Depth(o - 1)
  <2>1. ASSUME NEW x \in {"begin", "end"} PROVE Count(o, last, x) = 0
    <3>1. {q \in o..last : Is(tokens[q], x)} = {}
      BY <1>2, <1>5
    <3> QED
      BY <3>1, FS_EmptySet DEF Count
  <2>2. 1 <= o /\ o <= last + 1
    BY <1>1, <1>4
  <2>3. Count(o, last, "begin") - Count(o, last, "end") = Depth(last) - Depth(o - 1)
    BY <2>2, CountDepth
  <2>4. Depth(last) \in Int /\ Depth(o - 1) \in Int
    BY <1>1, <1>4, DepthType
  <2>5. Count(o, last, "begin") = 0 /\ Count(o, last, "end") = 0
    BY <2>1
  <2>6. 0 - 0 = Depth(last) - Depth(o - 1)
    BY <2>3, <2>5
  <2>7. \A i, j \in Int : 0 - 0 = i - j => i = j
    OBVIOUS
  <2> QED
    BY <2>4, <2>6, <2>7
<1>10. LineStart(last + 1)
  <2>1. (last + 1) - 1 = last
    OBVIOUS
  <2> QED
    BY <1>6, <2>1 DEF LineStart
<1>11. o + w + 2 = last + 1 /\ (o + w + 2) - 1 = last /\ last + 1 <= e
  BY <1>4, <1>7
<1> QED
  BY <1>3, <1>8, <1>9, <1>10, <1>11

\* A statement's tokens are those of its line.
LEMMA StatementTaken ==
  ASSUME Reads, NEW o \in Nat, o = Parser.offset, o \in Statements,
         NEW w \in Nat, w = Width(o)
  PROVE  /\ Statement # <<>> /\ Leading = tokens[o]
         /\ Len(Rest) = w /\ \A k \in 1..w : Rest[k] = tokens[o + k]
<1>1. tokens \in Seq(TokenRecords(tokens)) /\ Len(tokens) \in Nat
  BY LenProperties DEF Reads, Kept, IsSource, TokenRecords
<1>2. \A k \in 0..w+1 : o + k \in Places
  BY StatementTypes DEF Reads
<1>3. o >= 1 /\ o + w <= Len(tokens)
  <2>1. 0 \in 0..w+1 /\ w \in 0..w+1 /\ o + 0 = o
    OBVIOUS
  <2>2. o \in Places /\ o + w \in Places
    BY <1>2, <2>1
  <2> QED
    BY <2>2, PlacesType DEF Reads, Kept
<1>4. Statement = SubSeq(tokens, o, o + w)
  <2>1. Until(o, Parser.end) - 2 = o + w
    BY StatementEnd
  <2> QED
    BY <2>1 DEF Statement
<1>5. /\ Statement \in Seq(TokenRecords(tokens)) /\ Len(Statement) = w + 1
      /\ \A k \in 1..w+1 : Statement[k] = tokens[o + k - 1]
  <2>1. PICK u \in Int : u = o + w
    OBVIOUS
  <2>2. u - o + 1 = w + 1 /\ o <= u /\ o \in Int /\ Statement = SubSeq(tokens, o, u)
    BY <1>4, <2>1, SMTT(30)
  <2>3. \A i \in o..u : tokens[i] \in TokenRecords(tokens)
    BY <1>1, <1>3, <2>1, ElementOfSeq
  <2>4. SubSeq(tokens, o, u) \in Seq(TokenRecords(tokens))
    BY <2>2, <2>3, SubSeqProperties
  <2>5. Len(SubSeq(tokens, o, u)) = u - o + 1
    BY <2>2, <2>3, SubSeqProperties
  <2>6. \A k \in 1..u-o+1 : SubSeq(tokens, o, u)[k] = tokens[o + k - 1]
    <3>1. PICK t, S : t = tokens /\ S = TokenRecords(tokens)
      OBVIOUS
    <3>2. o \in Int /\ u \in Int /\ \A i \in o..u : t[i] \in S
      BY <2>2, <2>3, <3>1
    <3>3. \A k \in 1..u-o+1 : SubSeq(t, o, u)[k] = t[o + k - 1]
      BY <3>2, SubSeqProperties
    <3> QED
      BY <3>1, <3>3
  <2> QED
    BY <2>2, <2>4, <2>5, <2>6
<1>6. Statement # <<>> /\ Leading = tokens[o]
  <2>1. 1 \in 1..w+1 /\ o + 1 - 1 = o /\ w + 1 # 0
    OBVIOUS
  <2> QED
    BY <1>5, <2>1, EmptySeq DEF Leading
<1>7. Len(Rest) = w /\ \A k \in 1..w : Rest[k] = tokens[o + k]
  <2>1. Rest = SubSeq(Statement, 2, w + 1)
    BY <1>5 DEF Rest
  <2>2. \A i \in 2..w+1 : Statement[i] \in TokenRecords(tokens)
    BY <1>5, ElementOfSeq
  <2>3. CASE w = 0
    <3>1. 2 > w + 1 /\ \A k \in 1..w : FALSE
      BY <2>3
    <3>2. Rest = <<>>
      BY <2>1, <2>2, <3>1, SubSeqProperties
    <3> QED
      BY <2>3, <3>1, <3>2
  <2>4. CASE w # 0
    <3>1. 2 <= w + 1 /\ (w + 1) - 2 + 1 = w
      BY <2>4
    <3>2. Len(Rest) = w /\ \A k \in 1..w : Rest[k] = Statement[2 + k - 1]
      BY <2>1, <2>2, <3>1, SubSeqProperties
    <3>3. \A k \in 1..w : 2 + k - 1 \in 1..w+1 /\ o + (2 + k - 1) - 1 = o + k
      OBVIOUS
    <3> QED
      BY <1>5, <3>2, <3>3
  <2> QED
    BY <2>3, <2>4
<1> QED
  BY <1>6, <1>7

\* A statement of the source is none that is rejected (tokenStream, switch over mnemonics).
LEMMA StatementAccepted ==
  ASSUME Reads, NEW o \in Nat, o = Parser.offset, o \in Statements
  PROVE  /\ Headed /\ KnownStatement
         /\ ToLabel <=> JumpToLabel(o)
         /\ JumpToLabel(o) => Rest[1] = tokens[o + 1] /\ tokens[o + 1].type = "IDENTIFIER"
         /\ ~JumpToLabel(o) => Follows(Rest, Operands[tokens[o].lexeme])
<1>1. PICK w \in Nat : w = Width(o)
  BY StatementTypes DEF Reads
<1>2. /\ Statement # <<>> /\ Leading = tokens[o]
      /\ Len(Rest) = w /\ \A k \in 1..w : Rest[k] = tokens[o + k]
  BY <1>1, StatementTaken
<1>3. /\ tokens[o].type = "IDENTIFIER" /\ tokens[o].lexeme \in DOMAIN Operands
      /\ tokens[o].cond \in conditions \cup {""}
      /\ JumpToLabel(o) \/ Line(o, Operands[tokens[o].lexeme])
  BY DEF Statements, StatementAt
<1>4. Headed /\ KnownStatement
  BY <1>2, <1>3 DEF Headed, KnownStatement
<1>5. ASSUME JumpToLabel(o)
      PROVE  Rest[1] = tokens[o + 1] /\ tokens[o + 1].type = "IDENTIFIER" /\ ToLabel
  <2>1. w = 1 /\ tokens[o].lexeme = "jmp" /\ Line(o, <<"IDENTIFIER">>)
    BY <1>1, <1>5 DEF Width, JumpToLabel
  <2>2. tokens[o + 1].type = "IDENTIFIER"
    <3>1. 1 \in DOMAIN <<"IDENTIFIER">> /\ <<"IDENTIFIER">>[1] = "IDENTIFIER"
      OBVIOUS
    <3>2. tokens[o + 1].type = <<"IDENTIFIER">>[1]
      BY <2>1, <3>1 DEF Line
    <3> QED
      BY <3>1, <3>2
  <2>3. Rest[1] = tokens[o + 1] /\ Len(Rest) = 1
    <3>1. 1 \in 1..w
      BY <2>1
    <3> QED
      BY <1>2, <2>1, <3>1
  <2>4. Rest # <<>>
    <3>1. Len(<<>>) = 0 /\ 0 # 1
      OBVIOUS
    <3>2. Rest = <<>> => Len(Rest) = Len(<<>>)
      BY Zenon
    <3> QED
      BY <2>3, <3>1, <3>2, Zenon
  <2> QED
    BY <1>2, <2>1, <2>2, <2>3, <2>4 DEF ToLabel
<1>6. ASSUME ~JumpToLabel(o)
      PROVE  Follows(Rest, Operands[tokens[o].lexeme]) /\ ~ToLabel
  <2> DEFINE kinds == Operands[tokens[o].lexeme]
  <2>1. w = Len(kinds) /\ Line(o, kinds) /\ DOMAIN kinds = 1..w
    BY <1>1, <1>3, <1>6, OperandKinds DEF Width
  <2>2. \A i \in 1..w : tokens[o + i].type = kinds[i]
    BY <2>1 DEF Line
  <2>3. Follows(Rest, kinds)
    <3>1. \A i \in 1..w : Rest[i].type = kinds[i]
      BY <1>2, <2>2
    <3>2. Len(Rest) >= Len(kinds)
      BY <1>2, <2>1
    <3> QED
      BY <2>1, <3>1, <3>2 DEF Follows
  <2>4. ASSUME tokens[o].lexeme = "jmp" PROVE Rest[1].type = "REGSET"
    <3>1. w = 3 /\ kinds[1] = "REGSET"
      BY <1>3, <2>1, <2>4, OperandKinds
    <3>2. 1 \in 1..w
      BY <3>1
    <3> QED
      BY <1>2, <2>2, <3>1, <3>2
  <2> QED
    BY <1>2, <2>3, <2>4 DEF ToLabel
<1> QED
  BY <1>4, <1>5, <1>6

\* A statement without a condition has that of the block around it (getCondition).
LEMMA StatementMeant ==
  ASSUME Reads, NEW o \in Nat, o = Parser.offset, o \in Statements
  PROVE  StatementCondition = MeantCondition(o)
<1>1. Leading = tokens[o]
  <2>1. PICK w \in Nat : w = Width(o)
    BY StatementTypes DEF Reads
  <2> QED
    BY <2>1, StatementTaken
<1>2. o \in Places /\ o >= 1 /\ o <= Len(tokens) /\ Len(tokens) \in Nat
  BY InnermostWindow, PlacesType DEF Reads, Kept
<1>3. CASE tokens[o].cond # ""
  BY <1>1, <1>3 DEF StatementCondition, MeantCondition
<1>4. CASE tokens[o].cond = ""
  <2>1. StatementCondition = Top
    BY <1>1, <1>4 DEF StatementCondition
  <2>2. CASE Len(parsers) = 1 /\ Depth(o - 1) = 0
    <3>1. \A q \in 0..o-1 : Depth(q) >= 0
      <4>1. \A q \in 0..o-1 : q \in 0..Len(tokens)
        BY <1>2
      <4> QED
        BY <4>1, WholeDepths DEF Reads
    <3>2. Enclosing(o) = {}
      BY <2>2, <3>1, OutsideBlocks
    <3>3. Top = "t"
      <4>1. Len(stack) = 1 /\ stack[1] = "t"
        BY <2>2 DEF Reads, Parsing, NestInv, BlocksNest, BlocksInv
      <4> QED
        BY <4>1 DEF Top
    <3> QED
      BY <1>4, <2>1, <3>2, <3>3 DEF MeantCondition
  <2>3. CASE \E begin, end \in Places : InBlock(begin, o, end) /\ Top = tokens[begin - 1].lexeme
    <3>1. PICK begin \in Places, end \in Places :
            InBlock(begin, o, end) /\ Top = tokens[begin - 1].lexeme
      BY <2>3
    <3>2. begin \in Nat /\ begin >= 1 /\ end \in Nat
      BY PlacesType DEF Reads, Kept
    <3>3. begin \in 1..o-1 /\ \A q \in begin..o-1 : q \in begin..end-1
      BY <3>1, <3>2 DEF InBlock
    <3>4. /\ Is(tokens[begin], "begin") /\ Depth(o - 1) = Depth(begin)
          /\ \A q \in begin..o-1 : Depth(q) >= Depth(begin)
      BY <3>1, <3>3 DEF InBlock
    <3>5. Enclosing(o) = {begin}
      BY <3>3, <3>4, InsideBlock
    <3>6. Enclosing(o) # {} /\ (CHOOSE b \in Enclosing(o) : TRUE) = begin
      BY <3>5
    <3>7. MeantCondition(o) = tokens[(CHOOSE b \in Enclosing(o) : TRUE) - 1].lexeme
      BY <1>4, <3>6 DEF MeantCondition
    <3> QED
      BY <2>1, <3>1, <3>6, <3>7
  <2> QED
    BY <2>2, <2>3, InnermostWindow
<1> QED
  BY <1>3, <1>4

\* What is put for a statement is its meaning but for the target of a jump.
LEMMA StatementDrafted ==
  ASSUME Reads, NEW o \in Nat, o = Parser.offset, o \in Statements
  PROVE  /\ JumpToLabel(o) => Draft(o) = [op |-> "jmp", cond |-> StatementCondition, args |-> <<>>]
         /\ ~JumpToLabel(o) =>
              Draft(o) = [op |-> Leading.lexeme, cond |-> StatementCondition,
                          args |-> Arguments(Rest, Operands[Leading.lexeme])]
<1>1. PICK w \in Nat : w = Width(o)
  BY StatementTypes DEF Reads
<1>2. /\ Leading = tokens[o]
      /\ Len(Rest) = w /\ \A k \in 1..w : Rest[k] = tokens[o + k]
  BY <1>1, StatementTaken
<1>3. StatementCondition = MeantCondition(o)
  BY StatementMeant
<1>4. ASSUME JumpToLabel(o)
      PROVE  Draft(o) = [op |-> "jmp", cond |-> StatementCondition, args |-> <<>>]
  BY <1>3, <1>4 DEF Draft, JumpToLabel
<1>5. ASSUME ~JumpToLabel(o)
      PROVE  Draft(o) = [op |-> Leading.lexeme, cond |-> StatementCondition,
                         args |-> Arguments(Rest, Operands[Leading.lexeme])]
  <2> DEFINE kinds == Operands[tokens[o].lexeme]
             rest == SubSeq(tokens, o + 1, Len(tokens))
  <2>1. w = Len(kinds) /\ w \in {0, 1, 3} /\ tokens[o].lexeme \in DOMAIN Operands
    BY <1>1, <1>5, StatementTypes DEF Width, Reads
  <2>2. tokens \in Seq(TokenRecords(tokens))
    BY DEF Reads, Kept, IsSource, TokenRecords
  <2>3. PICK last \in Nat : last = Len(tokens)
    BY PlacesType DEF Reads, Kept
  <2>4. \A k \in 1..w : k \in 0..w+1
    OBVIOUS
  <2>5. \A k \in 1..w : o + k \in Nat /\ o + k <= last
    BY <1>1, <2>3, <2>4, StatementTypes, PlacesType DEF Reads, Kept
  <2>6. \A k \in 1..w : rest[k] = tokens[o + k]
    <3>1. PICK first \in Int : first = o + 1
      OBVIOUS
    <3>2. last \in Int /\ rest = SubSeq(tokens, first, last)
      BY <2>3, <3>1
    <3>3. \A i \in first..last : i \in 1..last
      BY <3>1
    <3>4. \A i \in first..last : tokens[i] \in TokenRecords(tokens)
      BY <2>2, <2>3, <3>3, ElementOfSeq
    <3>5. \A k \in 1..last-first+1 : SubSeq(tokens, first, last)[k] = tokens[first + k - 1]
      BY <3>2, <3>4, SubSeqProperties
    <3>6. \A k \in 1..w : k \in 1..last-first+1 /\ first + k - 1 = o + k
      BY <2>5, <3>1
    <3> QED
      BY <3>2, <3>5, <3>6
  <2>7. PICK m \in Nat : m = (w + 1) \div 2 /\ \A n \in 1..m : 2 * n - 1 \in 1..w
    <3>1. CASE w = 0
      BY <3>1
    <3>2. CASE w = 1
      BY <3>2
    <3>3. CASE w = 3
      BY <3>3
    <3> QED
      BY <2>1, <3>1, <3>2, <3>3
  <2>8. \A n \in 1..m : Rest[2 * n - 1] = rest[2 * n - 1]
    BY <1>2, <2>6, <2>7
  <2>9. Arguments(Rest, kinds) = [n \in 1..m |-> Rest[2 * n - 1].lexeme]
        /\ Arguments(rest, kinds) = [n \in 1..m |-> rest[2 * n - 1].lexeme]
    BY <2>1, <2>7 DEF Arguments
  <2>10. Arguments(Rest, kinds) = Arguments(rest, kinds)
    BY <2>8, <2>9
  <2> QED
    BY <1>2, <1>3, <1>5, <2>10 DEF Draft, MeantArguments
<1> QED
  BY <1>4, <1>5

(***************************************************************************)
(* What has been put, turn by turn.                                        *)
(***************************************************************************)

\* Lines without statements and labels put nothing.
LEMMA PutPassed ==
  ASSUME Kept, NEW o \in Nat, NEW n \in Nat, o <= n, PutUpTo(o),
         \A q \in o..n-1 : q \notin Statements,
         \A q \in o..n-1 : q \in Places => tokens[q].type # "LABEL"
  PROVE  PutUpTo(n)
<1>1. StatementsBefore(n) = StatementsBefore(o)
  BY NoneBetween DEF Kept
<1>2. ASSUME NEW p \in Places
      PROVE  /\ p < o => p < n
             /\ p < n => p < o \/ p \in o..n-1
  <2>1. p \in Nat
    BY PlacesType DEF Kept
  <2> QED
    BY <2>1
<1>3. Statements \subseteq Places /\ \A p : Jump(p) => p \in Statements
  BY DEF Statements, Jump
<1>4. Len(code) = StatementsBefore(n)
  BY <1>1 DEF PutUpTo
<1>5. \A i \in 1..Len(code) :
        \E p \in Statements : p < n /\ StatementsBefore(p) = i - 1 /\ code[i] = Draft(p)
  BY <1>2, <1>3 DEF PutUpTo
<1>6. \A link \in links : \E p \in Places : p < n /\ Jump(p) /\ link = LinkOf(p)
  BY <1>2 DEF PutUpTo
<1>7. \A p \in Places : p < n /\ Jump(p) => LinkOf(p) \in links
  BY <1>2, <1>3 DEF PutUpTo
<1>8. \A name \in used : \E p \in Places : p < n /\ Jump(p) /\ name = Name(tokens[p + 1])
  BY <1>2 DEF PutUpTo
<1>9. \A name \in defined : \E p \in Places : p < n /\ p \in LabelsAt(name)
  BY <1>2 DEF PutUpTo
<1>10. \A p \in Places :
         p < n /\ tokens[p].type = "LABEL" =>
           /\ Name(tokens[p]) \in defined
           /\ labels[Name(tokens[p])] = INSTRUCTION_SIZE * StatementsBefore(p)
  BY <1>2 DEF PutUpTo
<1> QED
  BY <1>4, <1>5, <1>6, <1>7, <1>8, <1>9, <1>10 DEF PutUpTo

\* A turn that puts nothing leaves what has been put.
LEMMA PutKept ==
  ASSUME UNCHANGED <<tokens, code, links, labels, defined, used>>
  PROVE  \A o : PutUpTo(o) => PutUpTo(o)'
<1>1. /\ Places' = Places /\ Statements' = Statements
      /\ \A p : /\ StatementsBefore(p)' = StatementsBefore(p)
                /\ Jump(p)' = Jump(p) /\ LinkOf(p)' = LinkOf(p)
                /\ Draft(p)' = Draft(p) /\ LabelsAt(p)' = LabelsAt(p)
  BY SameSource
<1> QED
  BY <1>1 DEF PutUpTo

\* A statement puts its instruction, and a jump its link (putOp, putJmp).
LEMMA PutStatement ==
  ASSUME Kept, CodeInv, NEW o \in Nat, NEW n \in Nat, o < n, o \in Statements, PutUpTo(o),
         \A q \in o+1..n-1 : q \notin Statements,
         \A q \in o+1..n-1 : q \in Places => tokens[q].type # "LABEL",
         code' = Append(code, Draft(o)),
         links' = IF JumpToLabel(o) THEN links \cup {LinkOf(o)} ELSE links,
         used' = IF JumpToLabel(o) THEN used \cup {Name(tokens[o + 1])} ELSE used,
         UNCHANGED <<tokens, labels, defined>>
  PROVE  PutUpTo(n)'
<1>1. /\ Places' = Places /\ Statements' = Statements
      /\ \A p : /\ StatementsBefore(p)' = StatementsBefore(p)
                /\ Jump(p)' = Jump(p) /\ LinkOf(p)' = LinkOf(p)
                /\ Draft(p)' = Draft(p) /\ LabelsAt(p)' = LabelsAt(p)
  BY SameSource
<1>2. StatementsBefore(n) = StatementsBefore(o) + 1 /\ StatementsBefore(o) \in Nat
  <2>1. StatementsBefore(o) \in Nat
    BY StatementsType DEF Kept
  <2>2. IsSource(tokens) /\ n \in Int
    BY DEF Kept
  <2>3. StatementsBefore(n) = StatementsBefore(o) + 1
    BY <2>2, OneBetween
  <2> QED
    BY <2>1, <2>3
<1>3. Statements \subseteq Places /\ \A p : Jump(p) <=> p \in Statements /\ JumpToLabel(p)
  BY DEF Statements, Jump
<1>4. ASSUME NEW p \in Places
      PROVE  /\ p < o => p < n
             /\ p < n => p < o \/ p = o \/ p \in o+1..n-1
  <2>1. p \in Nat
    BY PlacesType DEF Kept
  <2> QED
    BY <2>1
<1>5. PICK m \in Nat : m = Len(code)
  BY LenProperties DEF CodeInv
<1>6. m = StatementsBefore(o) /\ m + 1 = StatementsBefore(n)
  BY <1>2, <1>5 DEF PutUpTo
<1>7. Len(code') = m + 1 /\ code'[m + 1] = Draft(o) /\ \A i \in 1..m : code'[i] = code[i]
  BY <1>5 DEF CodeInv
<1>8. \A i \in 1..m+1 :
        \E p \in Statements : p < n /\ StatementsBefore(p) = i - 1 /\ code'[i] = Draft(p)
  <2> TAKE i \in 1..m+1
  <2>1. CASE i = m + 1
    BY <1>6, <1>7, <2>1
  <2>2. CASE i \in 1..m
    <3>1. PICK p \in Statements : p < o /\ StatementsBefore(p) = i - 1 /\ code[i] = Draft(p)
      BY <1>5, <2>2 DEF PutUpTo
    <3> QED
      BY <1>3, <1>4, <1>7, <2>2, <3>1
  <2>3. i = m + 1 \/ i \in 1..m
    OBVIOUS
  <2> QED
    BY <2>1, <2>2, <2>3
<1>9. \A link \in links' : \E p \in Places : p < n /\ Jump(p) /\ link = LinkOf(p)
  <2> TAKE link \in links'
  <2>1. CASE link \in links
    BY <1>4, <2>1 DEF PutUpTo
  <2>2. CASE link \notin links
    BY <1>3, <2>2
  <2> QED
    BY <2>1, <2>2
<1>10. \A p \in Places : p < n /\ Jump(p) => LinkOf(p) \in links'
  <2> TAKE p \in Places
  <2> HAVE p < n /\ Jump(p)
  <2>1. CASE p < o
    BY <2>1 DEF PutUpTo
  <2>2. CASE p = o
    BY <1>3, <2>2
  <2> QED
    BY <1>3, <1>4, <2>1, <2>2
<1>11. \A name \in used' : \E p \in Places : p < n /\ Jump(p) /\ name = Name(tokens[p + 1])
  <2> TAKE name \in used'
  <2>1. CASE name \in used
    BY <1>4, <2>1 DEF PutUpTo
  <2>2. CASE name \notin used
    BY <1>3, <2>2
  <2> QED
    BY <2>1, <2>2
<1>12. \A name \in defined : \E p \in Places : p < n /\ p \in LabelsAt(name)
  BY <1>4 DEF PutUpTo
<1>13. \A p \in Places :
         p < n /\ tokens[p].type = "LABEL" =>
           /\ Name(tokens[p]) \in defined
           /\ labels[Name(tokens[p])] = INSTRUCTION_SIZE * StatementsBefore(p)
  <2> TAKE p \in Places
  <2> HAVE p < n /\ tokens[p].type = "LABEL"
  <2>1. p # o
    BY DEF Statements, StatementAt
  <2>2. p < o
    BY <1>4, <2>1
  <2> QED
    BY <2>2 DEF PutUpTo
<1>14. (/\ Len(code) = StatementsBefore(n)
        /\ \A i \in 1..Len(code) :
             \E p \in Statements : p < n /\ StatementsBefore(p) = i - 1 /\ code[i] = Draft(p))'
  BY <1>1, <1>6, <1>7, <1>8
<1>15. (/\ \A link \in links : \E p \in Places : p < n /\ Jump(p) /\ link = LinkOf(p)
        /\ \A p \in Places : p < n /\ Jump(p) => LinkOf(p) \in links
        /\ \A name \in used : \E p \in Places : p < n /\ Jump(p) /\ name = Name(tokens[p + 1]))'
  BY <1>1, <1>9, <1>10, <1>11
<1>16. (/\ \A name \in defined : \E p \in Places : p < n /\ p \in LabelsAt(name)
        /\ \A p \in Places :
             p < n /\ tokens[p].type = "LABEL" =>
               /\ Name(tokens[p]) \in defined
               /\ labels[Name(tokens[p])] = INSTRUCTION_SIZE * StatementsBefore(p))'
  BY <1>1, <1>12, <1>13
<1> QED
  BY <1>14, <1>15, <1>16 DEF PutUpTo

\* A label of the source is new.
LEMMA NewLabel ==
  ASSUME Kept, NEW o \in Nat, o \in Places, tokens[o].type = "LABEL", PutUpTo(o)
  PROVE  Name(tokens[o]) \notin defined
<1>1. LabelsAt(Name(tokens[o])) = {o}
  BY DEF Kept, WellFormed, LabelsWellFormed
<1>2. \A p \in Places : p \in Nat
  BY PlacesType DEF Kept
<1>3. \A name \in defined : \E p \in Places : p < o /\ p \in LabelsAt(name)
  BY DEF PutUpTo
<1> QED
  BY <1>1, <1>2, <1>3

\* Its offset is that of the next statement (putLabel).
LEMMA PutDefinition ==
  ASSUME Kept, LinkInv, NEW o \in Nat, o \in Places, tokens[o].type = "LABEL", PutUpTo(o),
         defined' = defined \cup {Name(tokens[o])}, PutLabel(Name(tokens[o])),
         UNCHANGED <<tokens, code, links, used>>
  PROVE  PutUpTo(o + 1)'
<1> DEFINE name == Name(tokens[o])
<1>1. LabelsAt(name) = {o}
  BY DEF Kept, WellFormed, LabelsWellFormed
<1>2. \A p \in Places : p \in Nat
  BY PlacesType DEF Kept
<1>3. name \notin defined
  BY NewLabel
<1>4. /\ Places' = Places /\ Statements' = Statements
      /\ \A p : /\ StatementsBefore(p)' = StatementsBefore(p)
                /\ Jump(p)' = Jump(p) /\ LinkOf(p)' = LinkOf(p)
                /\ Draft(p)' = Draft(p) /\ LabelsAt(p)' = LabelsAt(p)
  BY SameSource
<1>5. Statements \subseteq Places /\ \A p : Jump(p) => p \in Statements
  BY DEF Statements, Jump
<1>6. o \notin Statements
  BY NoKeyword
<1>7. StatementsBefore(o + 1) = StatementsBefore(o)
  <2>1. \A p \in o..(o + 1)-1 : p \notin Statements
    BY <1>6
  <2> QED
    BY <2>1, NoneBetween DEF Kept
<1>8. \A p \in Places : p < o + 1 <=> p < o \/ p = o
  BY <1>2
<1>9. /\ Len(code) = StatementsBefore(o + 1)
      /\ \A i \in 1..Len(code) :
           \E p \in Statements : p < o + 1 /\ StatementsBefore(p) = i - 1 /\ code[i] = Draft(p)
  BY <1>5, <1>7, <1>8 DEF PutUpTo
<1>10. /\ \A link \in links : \E p \in Places : p < o + 1 /\ Jump(p) /\ link = LinkOf(p)
       /\ \A p \in Places : p < o + 1 /\ Jump(p) => LinkOf(p) \in links
       /\ \A x \in used : \E p \in Places : p < o + 1 /\ Jump(p) /\ x = Name(tokens[p + 1])
  BY <1>5, <1>6, <1>8 DEF PutUpTo
<1>11. \A x \in defined' : \E p \in Places : p < o + 1 /\ p \in LabelsAt(x)
  <2> TAKE x \in defined'
  <2>1. CASE x \in defined
    BY <1>8, <2>1 DEF PutUpTo
  <2>2. CASE x = name
    BY <1>1, <1>8, <2>2
  <2> QED
    BY <2>1, <2>2
<1>12. \A p \in Places :
        p < o + 1 /\ tokens[p].type = "LABEL" =>
          /\ Name(tokens[p]) \in defined'
          /\ labels'[Name(tokens[p])] = INSTRUCTION_SIZE * StatementsBefore(p)
  <2> TAKE p \in Places
  <2> HAVE p < o + 1 /\ tokens[p].type = "LABEL"
  <2>1. \A x \in defined \cup {name} :
          labels'[x] = IF x = name THEN INSTRUCTION_SIZE * Len(code) ELSE labels[x]
    BY <1>4 DEF PutLabel, LinkInv
  <2>2. CASE p = o
    BY <2>1, <2>2 DEF PutUpTo
  <2>3. CASE p < o
    <3>1. /\ Name(tokens[p]) \in defined
          /\ labels[Name(tokens[p])] = INSTRUCTION_SIZE * StatementsBefore(p)
      BY <2>3 DEF PutUpTo
    <3>2. Name(tokens[p]) # name
      BY <1>3, <3>1
    <3> QED
      BY <2>1, <3>1, <3>2
  <2> QED
    BY <1>8, <2>2, <2>3
<1>13. (/\ Len(code) = StatementsBefore(o + 1)
        /\ \A i \in 1..Len(code) :
             \E p \in Statements : p < o + 1 /\ StatementsBefore(p) = i - 1 /\ code[i] = Draft(p))'
  BY <1>4, <1>9
<1>14. (/\ \A link \in links : \E p \in Places : p < o + 1 /\ Jump(p) /\ link = LinkOf(p)
        /\ \A p \in Places : p < o + 1 /\ Jump(p) => LinkOf(p) \in links
        /\ \A x \in used : \E p \in Places : p < o + 1 /\ Jump(p) /\ x = Name(tokens[p + 1]))'
  BY <1>4, <1>10
<1>15. (/\ \A x \in defined : \E p \in Places : p < o + 1 /\ p \in LabelsAt(x)
        /\ \A p \in Places :
             p < o + 1 /\ tokens[p].type = "LABEL" =>
               /\ Name(tokens[p]) \in defined
               /\ labels[Name(tokens[p])] = INSTRUCTION_SIZE * StatementsBefore(p))'
  BY <1>4, <1>11, <1>12
<1> QED
  BY <1>13, <1>14, <1>15 DEF PutUpTo

(***************************************************************************)
(* The end of a source.                                                    *)
(***************************************************************************)

\* A label has one place in the source.
LEMMA OneLabel ==
  ASSUME Kept, NEW p \in Statements, JumpToLabel(p)
  PROVE  \E l \in Places : /\ LabelsAt(Name(tokens[p + 1])) = {l}
                           /\ tokens[l].type = "LABEL" /\ Name(tokens[l]) = Name(tokens[p + 1])
<1>1. PICK l \in LabelsAt(Name(tokens[p + 1])) : TRUE
  BY DEF Kept, WellFormed, LabelsWellFormed
<1>2. l \in Places /\ tokens[l].type = "LABEL" /\ Name(tokens[l]) = Name(tokens[p + 1])
  BY DEF LabelsAt
<1>3. LabelsAt(Name(tokens[l])) = {l}
  BY <1>2 DEF Kept, WellFormed, LabelsWellFormed
<1> QED
  BY <1>2, <1>3

\* A source that keeps the language uses no label that it does not define.
LEMMA LabelsDefined ==
  ASSUME Kept, PutUpTo(Len(tokens) + 1)
  PROVE  used \subseteq defined
<1>1. ASSUME NEW name \in used PROVE name \in defined
  <2>1. PICK p \in Places : Jump(p) /\ name = Name(tokens[p + 1])
    BY DEF PutUpTo
  <2>2. PICK l \in Places : tokens[l].type = "LABEL" /\ Name(tokens[l]) = name
    BY <2>1, OneLabel DEF Jump
  <2>3. l < Len(tokens) + 1
    BY PlacesType DEF Kept
  <2> QED
    BY <2>2, <2>3 DEF PutUpTo
<1> QED
  BY <1>1

\* A number below the modulus stays as it is, and a multiple of three is divided.
LEMMA WholeOffset ==
  ASSUME NEW k \in Nat, INSTRUCTION_SIZE * k < OffsetMod
  PROVE  ((INSTRUCTION_SIZE * k) % OffsetMod) \div INSTRUCTION_SIZE = k
<1>1. PICK x \in Nat : x = 3 * k
  OBVIOUS
<1>2. x < OffsetMod /\ OffsetMod \in Nat
  BY <1>1, OffsetAssumption DEF INSTRUCTION_SIZE
<1>3. x % OffsetMod = x
  BY <1>2
<1>4. x \div 3 = k
  BY <1>1
<1> QED
  BY <1>1, <1>3, <1>4 DEF INSTRUCTION_SIZE

\* A label leads to the statement that follows it, as long as offsets fit (bake).
LEMMA TargetMeant ==
  ASSUME Kept, PutUpTo(Len(tokens) + 1), NEW p \in Statements, JumpToLabel(p),
         INSTRUCTION_SIZE * Cardinality(Statements) < OffsetMod
  PROVE  <<Target(Name(tokens[p + 1]))>> = MeantArguments(p)
<1>1. PICK l \in Places : /\ LabelsAt(Name(tokens[p + 1])) = {l}
                          /\ tokens[l].type = "LABEL" /\ Name(tokens[l]) = Name(tokens[p + 1])
  BY OneLabel
<1>2. l < Len(tokens) + 1
  BY PlacesType DEF Kept
<1>3. labels[Name(tokens[p + 1])] = INSTRUCTION_SIZE * StatementsBefore(l)
  BY <1>1, <1>2 DEF PutUpTo
<1>4. /\ StatementsBefore(l) \in Nat /\ Cardinality(Statements) \in Nat
      /\ StatementsBefore(l) <= Cardinality(Statements)
  <2>1. IsFiniteSet(Statements) /\ {q \in Statements : q < l} \in SUBSET Statements
    BY StatementsType DEF Kept
  <2>2. StatementsBefore(l) <= Cardinality(Statements)
    BY <2>1, FS_Subset DEF StatementsBefore
  <2> QED
    BY <2>2, StatementsType DEF Kept
<1>5. INSTRUCTION_SIZE * StatementsBefore(l) < OffsetMod
  <2>1. OffsetMod \in Nat
    BY OffsetAssumption
  <2> QED
    BY <1>4, <2>1 DEF INSTRUCTION_SIZE
<1>6. Target(Name(tokens[p + 1])) = StatementsBefore(l)
  BY <1>3, <1>4, <1>5, WholeOffset DEF Target
<1>7. (CHOOSE x \in LabelsAt(Name(tokens[p + 1])) : TRUE) = l
  BY <1>1
<1>8. MeantArguments(p) = <<StatementsBefore(CHOOSE x \in LabelsAt(Name(tokens[p + 1])) : TRUE)>>
  BY DEF MeantArguments
<1> QED
  BY <1>6, <1>7, <1>8

\* When all is put, what is baked is what the source means (bake).
LEMMA BakedMeaning ==
  ASSUME Kept, CodeInv, PutUpTo(Len(tokens) + 1),
         INSTRUCTION_SIZE * Cardinality(Statements) < OffsetMod
  PROVE  Bake = Meaning
<1>1. PICK N \in Nat : N = Cardinality(Statements)
  BY StatementsType DEF Kept
<1>2. Len(code) = N /\ DOMAIN code = 1..N
  <2>1. Len(code) = N
    BY <1>1, AllBefore DEF PutUpTo, Kept
  <2> QED
    BY <2>1, LenProperties DEF CodeInv
<1> DEFINE baked(n) == IF \E link \in links : link.at = n
                       THEN [code[n] EXCEPT !.args =
                               <<Target((CHOOSE link \in links : link.at = n).label)>>]
                       ELSE code[n]
           meant(n) == LET p == CHOOSE q \in Statements : StatementsBefore(q) = n - 1
                       IN  [op |-> tokens[p].lexeme, cond |-> MeantCondition(p),
                            args |-> MeantArguments(p)]
<1>3. ASSUME NEW n \in 1..N PROVE baked(n) = meant(n)
  <2>1. PICK p \in Statements : StatementsBefore(p) = n - 1 /\ code[n] = Draft(p)
    BY <1>2 DEF PutUpTo
  <2>2. (CHOOSE q \in Statements : StatementsBefore(q) = n - 1) = p
    <3>1. \A q \in Statements : StatementsBefore(q) = n - 1 => q = p
      BY <2>1, StatementsOrdered DEF Kept
    <3> QED
      BY <2>1, <3>1
  <2>3. p \in Places /\ p < Len(tokens) + 1
    BY PlacesType DEF Kept, Statements
  <2>4. ASSUME NEW link \in links, link.at = n PROVE link = LinkOf(p) /\ JumpToLabel(p)
    <3>1. PICK q \in Places : Jump(q) /\ link = LinkOf(q)
      BY DEF PutUpTo
    <3>2. q \in Statements /\ JumpToLabel(q) /\ StatementsBefore(q) + 1 = n
      BY <2>4, <3>1 DEF Jump, LinkOf
    <3>3. StatementsBefore(q) \in Nat
      BY StatementsType DEF Kept
    <3>4. StatementsBefore(q) = n - 1
      BY <3>2, <3>3
    <3>5. q = p
      BY <2>1, <3>2, <3>4, StatementsOrdered DEF Kept
    <3> QED
      BY <3>1, <3>2, <3>5
  <2>5. CASE JumpToLabel(p)
    <3>1. LinkOf(p) \in links /\ LinkOf(p).at = n /\ LinkOf(p).label = Name(tokens[p + 1])
      <4>1. LinkOf(p) \in links
        BY <2>3, <2>5 DEF PutUpTo, Jump
      <4>2. LinkOf(p).at = StatementsBefore(p) + 1 /\ LinkOf(p).label = Name(tokens[p + 1])
        BY DEF LinkOf
      <4>3. n - 1 + 1 = n
        OBVIOUS
      <4> QED
        BY <2>1, <4>1, <4>2, <4>3
    <3>2. (CHOOSE link \in links : link.at = n) = LinkOf(p)
      BY <2>4, <3>1
    <3>3. <<Target(Name(tokens[p + 1]))>> = MeantArguments(p)
      BY <2>5, TargetMeant
    <3>4. code[n] = [op |-> tokens[p].lexeme, cond |-> MeantCondition(p), args |-> <<>>]
      BY <2>1, <2>5 DEF Draft
    <3>5. [code[n] EXCEPT !.args = MeantArguments(p)]
            = [op |-> tokens[p].lexeme, cond |-> MeantCondition(p), args |-> MeantArguments(p)]
      BY <3>4
    <3> QED
      BY <2>2, <3>1, <3>2, <3>3, <3>5
  <2>6. CASE ~JumpToLabel(p)
    <3>1. ~\E link \in links : link.at = n
      BY <2>4, <2>6
    <3>2. code[n] = [op |-> tokens[p].lexeme, cond |-> MeantCondition(p), args |-> MeantArguments(p)]
      BY <2>1, <2>6 DEF Draft
    <3> QED
      BY <2>2, <3>1, <3>2
  <2> QED
    BY <2>5, <2>6
<1>4. Bake = [n \in 1..N |-> baked(n)] /\ Meaning = [n \in 1..N |-> meant(n)]
  BY <1>1, <1>2 DEF Bake, Meaning
<1> HIDE DEF baked, meant
<1> QED
  BY <1>3, <1>4

(***************************************************************************)
(* Every turn.                                                             *)
(***************************************************************************)

\* A turn that goes on to a place at which all before it has been put.
LEMMA MeaningAt ==
  ASSUME BlocksInv', phase' = "parsing", ~failed', NEW p \in Nat, Parser'.offset = p, PutUpTo(p)'
  PROVE  MeaningInv'
  BY DEF MeaningInv

\* Blocks stay where they are with their parsers.
LEMMA BlocksKept ==
  ASSUME BlocksInv, UNCHANGED <<tokens, parsers, stack>>, phase' # "raised"
  PROVE  BlocksInv'
<1>1. /\ Places' = Places
      /\ \A q : Depth(q)' = Depth(q) /\ LineStart(q)' = LineStart(q)
      /\ \A b, q, x : InBlock(b, q, x)' = InBlock(b, q, x)
  BY SameSource
<1>2. \A i : BlockAt(i)' = BlockAt(i)
  BY <1>1 DEF BlockAt
<1> QED
  BY <1>1, <1>2 DEF BlocksInv, Parser

\* At the start nothing has been put, and nothing is before the first place.
LEMMA MeaningInit == IsSource(tokens) /\ Start => MeaningInv
<1> SUFFICES ASSUME IsSource(tokens), Start PROVE MeaningInv
  OBVIOUS
<1>1. IsSource(tokens)
  OBVIOUS
<1>2. /\ code = <<>> /\ links = {} /\ used = {} /\ defined = {} /\ stack = <<"t">>
      /\ parsers = <<[offset |-> 1, end |-> Len(tokens) + 1]>> /\ phase = "parsing" /\ ~failed
  BY DEF Start, WriterInit
<1>3. Len(parsers) = 1 /\ parsers[1].offset = 1 /\ parsers[1].end = Len(tokens) + 1
      /\ stack[1] = "t" /\ Parser.offset = 1
  BY <1>2 DEF Parser
<1>4. BlocksInv
  <2>1. Depth(1 - 1) = 0
    BY DepthStart
  <2>2. LineStart(1) /\ \A i \in 2..1 : FALSE
    BY DEF LineStart
  <2> QED
    BY <1>2, <1>3, <2>1, <2>2 DEF BlocksInv
<1>5. \A p \in Places : ~(p < 1)
  BY <1>1, PlacesType
<1>6. StatementsBefore(1) = 0
  <2>1. {p \in Statements : p < 1} = {}
    BY <1>5 DEF Statements
  <2> QED
    BY <2>1, FS_EmptySet DEF StatementsBefore
<1>7. Len(code) = 0 /\ \A n \in 1..Len(code) : FALSE
  BY <1>2
<1>8. PutUpTo(1)
  BY <1>2, <1>5, <1>6, <1>7 DEF PutUpTo
<1> QED
  BY <1>2, <1>3, <1>4, <1>8 DEF MeaningInv

\* Advancing the innermost parser shows.
LEMMA AdvanceShows ==
  ASSUME NestInv, Parsing, NEW p \in Nat, parsers' = AdvanceTo(p)
  PROVE  Parser'.offset = p
<1>1. parsers \in Seq(Window) /\ parsers # <<>>
  BY DEF NestInv, Parsing
<1>2. Len(AdvanceTo(p)) = Len(parsers) /\ AdvanceTo(p)[Len(parsers)].offset = p
  BY <1>1, AdvanceShape
<1> QED
  BY <1>2 DEF Parser

\* Turns over breaks and labels.
LEMMA PassLine ==
  ASSUME Reads, NEW o \in Nat, o = Parser.offset, tokens[o].type \in {"BREAK", "LABEL"},
         parsers' = AdvanceTo(o + 1), UNCHANGED <<tokens, stack>>, phase' # "raised"
  PROVE  BlocksInv' /\ Parser'.offset = o + 1
<1>1. o \in Places /\ o < Parser.end /\ Parser.end \in Nat
  BY InnermostWindow
<1>2. (o + 1) - 1 = o /\ o + 1 \in Nat /\ o <= o + 1 /\ o + 1 <= Parser.end
  BY <1>1
<1>3. Depth((o + 1) - 1) = Depth(o - 1)
  BY <1>1, <1>2, NoKeyword DEF Reads
<1>4. LineStart(o + 1)
  BY <1>2 DEF LineStart
<1>5. BlocksInv'
  BY <1>2, <1>3, <1>4, AdvanceInBlock
<1> QED
  BY <1>2, <1>5, AdvanceShows DEF Reads

\* Turns over the statements of the source (putOp, putJmp).
LEMMA PassStatement ==
  ASSUME Reads, CodeInv, NEW o \in Nat, o = Parser.offset, o \in Statements, PutUpTo(o),
         WriteOperation \/ WriteJump
  PROVE  /\ BlocksInv' /\ UNCHANGED <<tokens, failed, phase>>
         /\ \E n \in Nat : Parser'.offset = n /\ PutUpTo(n)'
<1>1. PICK w \in Nat : w = Width(o)
  BY StatementTypes DEF Reads
<1>2. PICK n \in Nat : n = o + w + 2
  OBVIOUS
<1>3. /\ Until(o, Parser.end) = n /\ n <= Parser.end
      /\ n \in Places => LineStart(n)
      /\ Depth(n - 1) = Depth(o - 1)
  BY <1>1, <1>2, StatementEnd
<1>4. /\ parsers' = AdvanceTo(n)
      /\ UNCHANGED <<tokens, defined, failed, phase, result, stack, labels>>
  BY <1>3 DEF WriteOperation, WriteJump
<1>5. BlocksInv'
  BY <1>2, <1>3, <1>4, AdvanceInBlock DEF Reads, Parsing
<1>6. Parser'.offset = n
  BY <1>4, AdvanceShows DEF Reads
<1>7. /\ ToLabel <=> JumpToLabel(o)
      /\ JumpToLabel(o) => Rest[1] = tokens[o + 1]
  BY StatementAccepted
<1>8. /\ code' = Append(code, Draft(o))
      /\ links' = IF JumpToLabel(o) THEN links \cup {LinkOf(o)} ELSE links
      /\ used' = IF JumpToLabel(o) THEN used \cup {Name(tokens[o + 1])} ELSE used
  <2>1. CASE WriteOperation
    BY <1>7, <2>1, StatementDrafted DEF WriteOperation, PutOp
  <2>2. CASE WriteJump
    <3>1. JumpToLabel(o) /\ Rest[1] = tokens[o + 1]
      BY <1>7, <2>2 DEF WriteJump
    <3>2. code' = Append(code, Draft(o)) /\ used' = used \cup {Name(tokens[o + 1])}
      BY <2>2, <3>1, StatementDrafted DEF WriteJump, PutOp
    <3>3. links' = links \cup {LinkOf(o)}
      BY <2>2, <3>1 DEF WriteJump, PutLink, LinkOf, PutUpTo
    <3> QED
      BY <3>1, <3>2, <3>3
  <2> QED
    BY <2>1, <2>2
<1>9. \A q \in o+1..n-1 : q \notin Statements /\ tokens[q].type # "LABEL"
  <2> TAKE q \in o+1..n-1
  <2>1. q - o \in 1..w+1 /\ q = o + (q - o)
    BY <1>2
  <2>2. q \notin Statements
    BY <1>1, <2>1, StatementShape DEF Reads
  <2>3. CASE q - o = w + 1
    <3>1. q = o + w + 1
      BY <2>1, <2>3
    <3> QED
      BY <1>1, <3>1, StatementTypes DEF Reads
  <2>4. CASE q - o \in 0..w
    BY <1>1, <2>1, <2>4, StatementShape DEF Reads
  <2>5. q - o = w + 1 \/ q - o \in 0..w
    BY <2>1
  <2> QED
    BY <2>2, <2>3, <2>4, <2>5
<1>10. o < n /\ Kept
  BY <1>2 DEF Reads
<1>11. UNCHANGED <<tokens, labels, defined>>
  BY <1>4
<1>12. PutUpTo(n)'
  BY <1>8, <1>9, <1>10, <1>11, PutStatement
<1> QED
  BY <1>4, <1>5, <1>6, <1>12

\* Turns of the assembler that read a source which keeps the language never fail, and
\* put what it means.
LEMMA ReadingStep ==
  ASSUME Reads, CodeInv, LinkInv, MeaningInv, Next
  PROVE  MeaningInv'
<1>1. PICK o \in Nat : o = Parser.offset
  BY ParserType DEF Reads
<1>2. ~failed /\ PutUpTo(o) /\ phase = "parsing" /\ ~Empty
  BY <1>1 DEF Reads, Kept, MeaningInv, Parsing
<1>3. /\ o \in Places /\ o < Parser.end /\ LineStart(o)
      /\ \/ tokens[o].type = "BREAK" \/ tokens[o].type = "LABEL"
         \/ Header(o) \/ o \in Statements
  BY <1>1, AtLine
<1>4. Token = tokens[o]
  BY <1>1 DEF Token
<1>5. ASSUME Is(tokens[o], "if") PROVE Header(o)
  <2>1. tokens[o].type \notin {"BREAK", "LABEL"}
    BY <1>3, <1>5, NoKeyword DEF Reads
  <2>2. o \notin Statements
    BY <1>5, OperandKinds DEF Statements, StatementAt, Is
  <2> QED
    BY <1>3, <2>1, <2>2
<1>6. ASSUME AtStatement PROVE o \in Statements
  <2>1. tokens[o].type \notin {"BREAK", "LABEL"} /\ ~Is(tokens[o], "if")
    BY <1>4, <1>6 DEF AtStatement
  <2> QED
    BY <1>3, <2>1 DEF Header
<1>7. \A q \in o..(o + 1)-1 : q = o
  OBVIOUS
<1>8. CASE SkipBreak
  <2>1. /\ tokens[o].type = "BREAK" /\ parsers' = AdvanceTo(o + 1)
        /\ UNCHANGED <<tokens, code, links, labels, defined, used, failed, phase, stack>>
    BY <1>1, <1>4, <1>8 DEF SkipBreak, writerVars
  <2>2. BlocksInv' /\ Parser'.offset = o + 1
    BY <1>1, <1>2, <2>1, PassLine
  <2>3. PutUpTo(o + 1)
    BY <1>2, <1>3, <1>7, <2>1, PutPassed, NoKeyword DEF Reads
  <2>4. PutUpTo(o + 1)'
    BY <2>1, <2>3, PutKept
  <2> QED
    BY <1>2, <2>1, <2>2, <2>4, MeaningAt
<1>9. CASE OpenBlock
  <2>1. Header(o) /\ UNCHANGED <<tokens, code, links, labels, defined, used, phase>>
    BY <1>4, <1>5, <1>9 DEF OpenBlock
  <2>2. BlocksInv' /\ failed' = failed /\ Parser'.offset = o + 3
    BY <1>1, <1>9, <2>1, OpenInBlock
  <2>3. \A q \in o..(o + 3)-1 : q = o \/ q = o + 1 \/ q = o + 2
    OBVIOUS
  <2>4. \A q \in o..(o + 3)-1 : q \notin Statements /\ tokens[q].type # "LABEL"
    BY <1>3, <2>1, <2>3, HeaderShape DEF Reads
  <2>5. PutUpTo(o + 3)
    BY <1>2, <2>4, PutPassed DEF Reads
  <2>6. PutUpTo(o + 3)'
    BY <2>1, <2>5, PutKept
  <2> QED
    BY <1>2, <2>1, <2>2, <2>6, MeaningAt
<1>10. ~BrokenHead
  <2>1. SUFFICES ASSUME BrokenHead PROVE FALSE
    OBVIOUS
  <2>2. Header(o) /\ ~HasHead
    BY <1>4, <1>5, <2>1 DEF BrokenHead
  <2>3. o + 2 < Parser.end
    BY <1>1, <2>2, BlockInWindow
  <2>4. tokens[o + 1].type = "IDENTIFIER" /\ Is(tokens[o + 2], "begin")
    BY <1>3, <2>2, HeaderShape DEF Reads
  <2> QED
    BY <1>1, <2>2, <2>3, <2>4 DEF HasHead
<1>11. ~CloseBlock /\ ~Finish
  BY <1>2 DEF CloseBlock, Finish
<1>12. CASE DefineLabel
  <2>1. /\ tokens[o].type = "LABEL" /\ parsers' = AdvanceTo(o + 1)
        /\ UNCHANGED <<tokens, code, links, used, phase, stack>>
    BY <1>1, <1>4, <1>12 DEF DefineLabel
  <2>2. Name(tokens[o]) \notin defined
    BY <1>2, <1>3, <2>1, NewLabel DEF Reads
  <2>3. /\ defined' = defined \cup {Name(tokens[o])} /\ PutLabel(Name(tokens[o]))
        /\ failed' = failed
    BY <1>4, <1>12, <2>2 DEF DefineLabel
  <2>4. BlocksInv' /\ Parser'.offset = o + 1
    BY <1>1, <1>2, <2>1, PassLine
  <2>5. PutUpTo(o + 1)'
    BY <1>2, <1>3, <2>1, <2>3, PutDefinition DEF Reads
  <2> QED
    BY <1>2, <2>1, <2>3, <2>4, <2>5, MeaningAt
<1>13. ~BrokenStatement
  BY <1>1, <1>6, StatementAccepted DEF BrokenStatement
<1>14. CASE WriteOperation \/ WriteJump
  <2>1. o \in Statements
    BY <1>6, <1>14 DEF WriteOperation, WriteJump, WellHeaded
  <2>2. /\ BlocksInv' /\ UNCHANGED <<tokens, failed, phase>>
        /\ \E n \in Nat : Parser'.offset = n /\ PutUpTo(n)'
    BY <1>1, <1>2, <1>14, <2>1, PassStatement
  <2> QED
    BY <1>2, <2>2, MeaningAt
<1>15. ~RejectStatement
  <2>1. SUFFICES ASSUME RejectStatement PROVE FALSE
    OBVIOUS
  <2>2. o \in Statements
    BY <1>6, <2>1 DEF RejectStatement, WellHeaded
  <2>3. /\ KnownStatement
        /\ ToLabel <=> JumpToLabel(o)
        /\ JumpToLabel(o) => Rest[1] = tokens[o + 1] /\ tokens[o + 1].type = "IDENTIFIER"
        /\ ~JumpToLabel(o) => Follows(Rest, Operands[tokens[o].lexeme])
    BY <1>1, <2>2, StatementAccepted
  <2>4. Leading = tokens[o]
    <3>1. PICK w \in Nat : w = Width(o)
      BY <2>2, StatementTypes DEF Reads
    <3> QED
      BY <1>1, <2>2, <3>1, StatementTaken
  <2> QED
    BY <2>1, <2>3, <2>4 DEF RejectStatement
<1> QED
  BY <1>8, <1>9, <1>10, <1>11, <1>12, <1>13, <1>14, <1>15 DEF Next

\* Turns at the end of a block or of the source.
LEMMA EndingStep ==
  ASSUME Kept, NestInv, Windows, CodeInv, LinkInv, BlocksInv, MeaningInv, Next,
         phase = "parsing", Empty
  PROVE  MeaningInv'
<1>1. ~failed /\ \A o \in Nat : Parser.offset = o => PutUpTo(o)
  BY DEF Kept, MeaningInv
<1>2. CloseBlock \/ Finish
  BY DEF Next, Parsing, SkipBreak, OpenBlock, BrokenHead, DefineLabel, BrokenStatement,
    WriteOperation, WriteJump, RejectStatement, WellHeaded, AtStatement
<1>3. CASE CloseBlock
  <2>1. UNCHANGED <<tokens, code, links, labels, defined, used, failed, phase>>
    BY <1>3 DEF CloseBlock
  <2>2. BlocksInv'
    BY <1>3, CloseInBlock
  <2>3. PICK end \in Places : /\ Is(tokens[end], "end")
                              /\ Parser.offset = end /\ Parser'.offset = end + 1
    BY <1>3, CloseInBlock
  <2>4. end \in Nat /\ PutUpTo(end)
    BY <1>1, <2>3, PlacesType DEF Kept
  <2>5. end \notin Statements /\ tokens[end].type # "LABEL"
    BY <2>3, OperandKinds DEF Statements, StatementAt, Is
  <2>6. \A q \in end..(end + 1)-1 : q = end
    BY <2>4
  <2>7. end + 1 \in Nat /\ end <= end + 1
    BY <2>4
  <2>8. PutUpTo(end + 1)
    BY <2>4, <2>5, <2>6, <2>7, PutPassed
  <2>9. PutUpTo(end + 1)'
    BY <2>1, <2>8, PutKept
  <2> QED
    BY <1>1, <2>1, <2>2, <2>3, <2>7, <2>9, MeaningAt
<1>4. CASE Finish
  <2>1. /\ Len(parsers) = 1 /\ phase' = "done"
        /\ failed' = (failed \/ ~(used \subseteq defined))
        /\ result' = IF failed' THEN <<>> ELSE Bake
        /\ UNCHANGED <<tokens, parsers, stack>>
    BY <1>4 DEF Finish, writerVars
  <2>2. Len(tokens) \in Nat
    BY PlacesType DEF Kept
  <2>3. Parser.offset = Len(tokens) + 1
    <3>1. parsers[1].end = Len(tokens) + 1 /\ parsers[1].offset \in 1..Len(tokens)+1
      BY <2>1 DEF BlocksInv, Windows
    <3>2. parsers[1].offset >= parsers[1].end
      BY <2>1 DEF Empty, Parser
    <3> QED
      BY <2>1, <2>2, <3>1, <3>2 DEF Parser
  <2>4. PutUpTo(Len(tokens) + 1)
    BY <1>1, <2>2, <2>3
  <2>5. used \subseteq defined
    BY <2>4, LabelsDefined
  <2>6. result' = Bake
    BY <1>1, <2>1, <2>5
  <2>7. BlocksInv'
    BY <2>1, BlocksKept
  <2>8. ASSUME INSTRUCTION_SIZE * Cardinality(Statements) < OffsetMod PROVE Assembled'
    <3>1. Bake = Meaning /\ Meaning' = Meaning
      BY <2>1, <2>4, <2>8, BakedMeaning, SameSource
    <3> QED
      BY <2>1, <2>6, <3>1 DEF Assembled
  <2>9. Statements' = Statements
    BY <2>1, SameSource
  <2>10. (INSTRUCTION_SIZE * Cardinality(Statements) < OffsetMod => Assembled)'
    BY <2>8, <2>9 DEF INSTRUCTION_SIZE
  <2> QED
    BY <2>1, <2>7, <2>10 DEF MeaningInv
<1> QED
  BY <1>2, <1>3, <1>4

\* A turn after the end, and a step that changes nothing.
LEMMA RestingStep ==
  ASSUME MeaningInv, WellFormed, UNCHANGED vars
  PROVE  MeaningInv'
<1>1. UNCHANGED <<tokens, parsers, defined, used, failed, phase, result, stack, code, links, labels>>
  BY DEF vars, parserVars, writerVars
<1>2. BlocksInv
  BY DEF MeaningInv
<1>3. BlocksInv'
  BY <1>1, <1>2, BlocksKept DEF BlocksInv
<1>4. Statements' = Statements /\ Meaning' = Meaning
  BY <1>1, SameSource
<1>5. ASSUME phase = "parsing"
      PROVE  (~failed /\ \A o \in Nat : Parser.offset = o => PutUpTo(o))'
  <2>1. \A o : PutUpTo(o) => PutUpTo(o)'
    BY <1>1, PutKept
  <2> QED
    BY <1>1, <1>5, <2>1 DEF MeaningInv, Parser
<1>6. ASSUME phase = "done", INSTRUCTION_SIZE * Cardinality(Statements) < OffsetMod
      PROVE  Assembled'
  BY <1>1, <1>4, <1>6 DEF MeaningInv, Assembled
<1> QED
  BY <1>1, <1>3, <1>4, <1>5, <1>6 DEF MeaningInv, INSTRUCTION_SIZE

\* Every turn keeps the meaning.
LEMMA MeaningStep ==
  NestInv /\ Windows /\ CodeInv /\ LinkInv /\ MeaningInv /\ [Next]_vars
    => MeaningInv'
<1> SUFFICES ASSUME NestInv, Windows, CodeInv, LinkInv, MeaningInv, [Next]_vars
             PROVE  MeaningInv'
  OBVIOUS
<1>1. tokens' = tokens
  BY SourceKept
<1>2. CASE ~WellFormed
  BY <1>1, <1>2, SameSource DEF MeaningInv
<1>3. CASE WellFormed
  <2>1. Kept /\ BlocksInv
    BY <1>3 DEF Kept, Windows, MeaningInv
  <2>2. CASE UNCHANGED vars
    BY <1>3, <2>2, RestingStep
  <2>3. CASE Next
    <3>1. phase = "parsing"
      BY <2>3 DEF Next, Parsing, SkipBreak, OpenBlock, BrokenHead, CloseBlock, DefineLabel,
        BrokenStatement, WriteOperation, WriteJump, RejectStatement, Finish, WellHeaded, AtStatement
    <3>2. CASE Empty
      BY <2>1, <2>3, <3>1, <3>2, EndingStep
    <3>3. CASE ~Empty
      BY <2>1, <2>3, <3>1, <3>3, ReadingStep DEF Reads, Parsing
    <3> QED
      BY <3>2, <3>3
  <2> QED
    BY <2>2, <2>3
<1> QED
  BY <1>2, <1>3

(***************************************************************************)
(* What the meaning of a source is made of.                                *)
(***************************************************************************)

\* For each number of statements there is one with so many before it.
LEMMA StatementOf ==
  ASSUME IsSource(tokens), NEW n \in Nat, n >= 1, n <= Cardinality(Statements)
  PROVE  \E p \in Statements : StatementsBefore(p) = n - 1
<1>1. PICK end \in Nat : end = Len(tokens) + 1
  <2>1. Len(tokens) + 1 \in Nat
    BY PlacesType
  <2> QED
    BY <2>1
<1> DEFINE T == {o \in 1..end : StatementsBefore(o) >= n}
<1>2. end \in T
  <2>1. StatementsBefore(end) = Cardinality(Statements)
    BY <1>1, AllBefore
  <2>2. end \in 1..end
    BY <1>1, PlacesType
  <2> QED
    BY <2>1, <2>2, StatementsType
<1>3. PICK o \in T : \A q \in T : o <= q
  <2>1. T \in SUBSET Nat
    OBVIOUS
  <2> HIDE DEF T
  <2> QED
    BY <1>2, <2>1, LeastPlace
<1>4. o \in 1..end /\ StatementsBefore(o) >= n
  BY <1>3
<1>5. StatementsBefore(1) = 0
  <2>1. {p \in Statements : p < 1} = {}
    BY PlacesType DEF Statements
  <2> QED
    BY <2>1, FS_EmptySet DEF StatementsBefore
<1>6. PICK p \in Nat : p = o - 1 /\ p \in 1..end /\ ~(o <= p)
  <2>1. o # 1
    BY <1>4, <1>5
  <2>2. o - 1 \in Nat /\ o - 1 \in 1..end /\ ~(o <= o - 1)
    BY <1>4, <2>1
  <2> QED
    BY <2>2
<1>7. p \notin T
  <2> HIDE DEF T
  <2> QED
    BY <1>3, <1>6
<1>8. ~(StatementsBefore(p) >= n)
  BY <1>6, <1>7
<1>9. StatementsBefore(p) \in Nat /\ StatementsBefore(o) \in Nat
  BY StatementsType
<1>10. p \in Statements
  <2> SUFFICES ASSUME p \notin Statements PROVE FALSE
    OBVIOUS
  <2>1. \A q \in p..o-1 : q \notin Statements
    BY <1>4, <1>6
  <2>2. StatementsBefore(o) = StatementsBefore(p)
    BY <1>4, <1>6, <2>1, NoneBetween
  <2> QED
    BY <1>4, <1>8, <2>2
<1>11. StatementsBefore(o) = StatementsBefore(p) + 1
  <2>1. p < o /\ \A q \in p+1..o-1 : q \notin Statements
    BY <1>4, <1>6
  <2> QED
    BY <1>4, <1>10, <2>1, OneBetween
<1> QED
  BY <1>4, <1>8, <1>9, <1>10, <1>11

\* An instruction that is meant is a statement's.
LEMMA MeaningOf ==
  ASSUME IsSource(tokens), NEW n \in DOMAIN Meaning
  PROVE  \E p \in Statements :
           Meaning[n].op = tokens[p].lexeme /\ Meaning[n].args = MeantArguments(p)
<1>1. PICK N \in Nat : N = Cardinality(Statements)
  BY StatementsType
<1>2. n \in 1..N
  BY <1>1 DEF Meaning
<1>3. \E q \in Statements : StatementsBefore(q) = n - 1
  BY <1>1, <1>2, StatementOf
<1>4. PICK p : p = CHOOSE q \in Statements : StatementsBefore(q) = n - 1
  OBVIOUS
<1>5. p \in Statements
  BY <1>3, <1>4
<1>6. Meaning[n] = [op |-> tokens[p].lexeme, cond |-> MeantCondition(p), args |-> MeantArguments(p)]
  BY <1>1, <1>2, <1>4 DEF Meaning
<1> QED
  BY <1>5, <1>6

\* The arguments of a statement are its tokens of the kinds that its mnemonic asks for.
LEMMA MeantOperands ==
  ASSUME IsSource(tokens), NEW p \in Statements, ~JumpToLabel(p),
         NEW kinds, kinds = Operands[tokens[p].lexeme]
  PROVE  /\ Len(MeantArguments(p)) = (Len(kinds) + 1) \div 2
         /\ \A k \in 1..((Len(kinds) + 1) \div 2) :
              \E t \in Places : /\ MeantArguments(p)[k] = tokens[t].lexeme
                                /\ tokens[t].type = kinds[2 * k - 1]
<1>1. PICK w \in {0, 1, 3} : w = Len(kinds) /\ DOMAIN kinds = 1..w
  BY OperandKinds DEF Statements, StatementAt
<1>2. p \in Nat /\ 1 <= p /\ p + w + 1 \in Places /\ p + w + 1 <= Len(tokens) /\ Len(tokens) \in Nat
  BY <1>1, PlacesType DEF Statements, StatementAt, Line
<1>3. \A i \in 1..w : tokens[p + i].type = kinds[i]
  BY <1>1 DEF Statements, StatementAt, Line
<1>4. PICK rest : rest = SubSeq(tokens, p + 1, Len(tokens))
  OBVIOUS
<1>5. ASSUME NEW i \in 1..w PROVE rest[i] = tokens[p + i] /\ p + i \in Places
  <2>1. \A x \in p+1..Len(tokens) : tokens[x] \in TokenRecords(tokens)
    BY <1>2, PlacesType DEF TokenRecords
  <2>2. rest[i] = tokens[(p + 1) + i - 1]
    <3>1. \A x \in 1..((Len(tokens) - (p + 1)) + 1) : rest[x] = tokens[(p + 1) + x - 1]
      BY <1>2, <1>4, <2>1, SubSeqProperties
    <3>2. i \in 1..((Len(tokens) - (p + 1)) + 1)
      BY <1>2
    <3> QED
      BY <3>1, <3>2
  <2>3. (p + 1) + i - 1 = p + i /\ 1 <= p + i /\ p + i <= Len(tokens)
    BY <1>2
  <2>4. p + i \in Places
    BY <1>2, <2>3, PlacesType
  <2> QED
    BY <2>2, <2>3, <2>4
<1>6. PICK args : args = MeantArguments(p)
  OBVIOUS
<1>7. args = [k \in 1..((w + 1) \div 2) |-> rest[2 * k - 1].lexeme]
  BY <1>1, <1>4, <1>6 DEF MeantArguments, Arguments
<1>8. /\ w = 0 => (w + 1) \div 2 = 0
      /\ w = 1 => (w + 1) \div 2 = 1
      /\ w = 3 => (w + 1) \div 2 = 2
  <2>1. (0 + 1) \div 2 = 0 /\ (1 + 1) \div 2 = 1 /\ (3 + 1) \div 2 = 2
    OBVIOUS
  <2> QED
    BY <2>1, Zenon
<1>9. Len(args) = (w + 1) \div 2
  <2>1. (w + 1) \div 2 \in Nat
    BY <1>8
  <2> QED
    BY <1>7, <2>1
<1>10. ASSUME NEW k \in 1..((w + 1) \div 2)
       PROVE  \E t \in Places : args[k] = tokens[t].lexeme /\ tokens[t].type = kinds[2 * k - 1]
  <2>1. 2 * k - 1 \in 1..w
    <3>1. PICK h : h = (w + 1) \div 2
      OBVIOUS
    <3>2. (w = 0 /\ h = 0) \/ (w = 1 /\ h = 1) \/ (w = 3 /\ h = 2)
      BY <1>8, <3>1, Zenon
    <3>3. k \in 1..h
      BY <3>1, Zenon
    <3> QED
      BY <3>2, <3>3
  <2>2. args[k] = rest[2 * k - 1].lexeme
    BY <1>7
  <2> QED
    BY <1>3, <1>5, <2>1, <2>2
<1> QED
  BY <1>1, <1>6, <1>9, <1>10

\* All that holds of an assembly, on its way and at its end.
AssemblyInv == NestInv /\ Windows /\ CodeInv /\ LinkInv /\ MeaningInv

\* It holds of every source at the start (assemble).
LEMMA AssemblyStart == IsSource(tokens) /\ Start => AssemblyInv
  BY NestInit, WindowsInit, CodeInit, LinkInit, MeaningInit DEF AssemblyInv

\* Every turn keeps it (parseRoot).
LEMMA AssemblyStep == AssemblyInv /\ [Next]_vars => AssemblyInv'
  BY NestStep, WindowsStep, CodeStep, LinkStep, MeaningStep DEF AssemblyInv

\* What is assembled from a source that keeps the language is what the source means: one
\* instruction for each statement, under the condition of its block, and jumps that lead
\* to their labels, for every source (parseRoot, bake).
THEOREM AssemblesMeaning == Spec => []Assembles
<1>1. AssemblyInv => Assembles
  BY DEF AssemblyInv, CodeInv, MeaningInv, BlocksInv, Assembles
<1> QED
  BY <1>1, SourceStarts, AssemblyStart, AssemblyStep, PTL DEF Spec
=============================================================================
