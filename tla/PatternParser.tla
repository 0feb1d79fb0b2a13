--------------------------- MODULE PatternParser ---------------------------
(***************************************************************************)
(* The recursive-descent parser of pattern source.  core/src/parser.c.     *)
(*                                                                         *)
(* The stack holds a frame per active parse function: the place it is at,  *)
(* the nodes and the name it holds.  One step is the code from one call of *)
(* a parse function to the next, or to the return.  A node is a record     *)
(* [op, text, nums, kids]; texts, messages and positions are left out.     *)
(*                                                                         *)
(* After an error the parser only unwinds: the lexer is not read again.    *)
(***************************************************************************)
EXTENDS PatternLexer

CONSTANTS
    MAX_VARS,
    INT32_MAX,
    MAX_PARTS,     \* the last parts a concatenation records: no source needs more
    Abbreviates    \* pairs <<name, builtin>>: a proper prefix of the builtin

VARIABLES
    lexer,
    parser,     \* error flag, labels seen, capture names, next register
    stack,
    ret         \* what the last function returned; None during calls

parserVars == <<src, lexer, parser, stack, ret>>

Node(op, text, nums, kids) == [op |-> op, text |-> text, nums |-> nums, kids |-> kids]
Leaf(op) == Node(op, "", <<>>, <<>>)
Text(op, text) == Node(op, text, <<>>, <<>>)
Nums(op, nums) == Node(op, "", nums, <<>>)
Tree(op, kids) == Node(op, "", <<>>, kids)
None == Leaf("none")
Null == Leaf("null")
Arb == Tree("arbno", <<Nums("len", <<1>>)>>)

Frame(fn) == [fn |-> fn, at |-> "start", name |-> "", parts |-> <<>>]

ParserInit ==
    /\ lexer = NewLexer
    /\ parser = [err |-> FALSE, done |-> FALSE, labels |-> {}, names |-> <<>>, regs |-> 0]
    /\ stack = <<Frame("statement")>>
    /\ ret = None

Top == stack[Len(stack)]
Under == SubSeq(stack, 1, Len(stack) - 1)
At(fn, place) == stack # <<>> /\ Top.fn = fn /\ Top.at = place /\ (place = "start" \/ ret # None)
Returned(fn, place) == At(fn, place) /\ ret # Null

\* Call fn and come back to frame; return a node; fail with a message.
CallFrom(frame, fn) == stack' = Under \o <<frame, Frame(fn)>> /\ ret' = None
Resume(place) == [Top EXCEPT !.at = place]
Return(node) == stack' = Under /\ ret' = node
SetError == /\ parser' = [parser EXCEPT !.err = TRUE] /\ Return(Null)
            /\ UNCHANGED <<src, lexer>>

\* expect: the token behind lx is consumed and the function returns node.
ReturnAfter(lx, type, node) ==
    IF TypeAt(lx) = type
      THEN /\ lexer' = Advance[Peek[lx]] /\ Return(node)
           /\ UNCHANGED <<src, parser>>
      ELSE SetError
Give(lx, node) == lexer' = lx /\ Return(node) /\ UNCHANGED <<src, parser>>
Descend(lx, frame, fn) == lexer' = lx /\ CallFrom(frame, fn) /\ UNCHANGED <<src, parser>>

\* A call that failed: every caller frees what it holds and fails too.
Propagate ==
    /\ stack # <<>> /\ Top.at # "start" /\ ret = Null
    /\ Return(Null)
    /\ UNCHANGED <<src, lexer, parser>>

(***************************************************************************)
(* Registers and names.                                                    *)
(***************************************************************************)
\* ident_is_v_register: MAX_VARS itself passes.
IsVRegister(name) == name \in DOMAIN VNumber /\ VNumber[name] <= MAX_VARS

\* Fault: the first register of a name stays.
WithNameOnce(names, name, reg) ==
    [n \in DOMAIN names \cup {name} |-> IF n \in DOMAIN names THEN names[n] ELSE reg]

\* register_capture_name: a name it knows gets the new register.
WithName(names, name, reg) ==
    [n \in DOMAIN names \cup {name} |-> IF n = name THEN reg ELSE names[n]]

\* find_capture_reg.
FindCapture(name) == IF name \in DOMAIN parser.names THEN parser.names[name] ELSE -1

NewRegister(name) ==
    [parser EXCEPT !.names = WithName(@, name, parser.regs), !.regs = @ + 1]

\* parse_naming_target: @name takes the next register, vN or $vN its own.
\* Afterwards the last part is wrapped in a capture of the register.
NamingTarget(lx) ==
    LET at    == Peek[Advance[lx]]
        v     == IF TypeAt(lx) = "ANCHOR_END" THEN Peek[Advance[Peek[lx]]] ELSE Peek[lx]
        n     == Len(Top.parts)
        Named(l, reg) == /\ lexer' = Advance[l]
                         /\ stack' = Append(Under, [Top EXCEPT !.parts[n] = Node("cap", "", <<reg>>, <<@>>)])
                         /\ UNCHANGED <<src, ret>>
    IN  IF TypeAt(lx) = "AT"
          THEN IF at.peek.type = "IDENT" /\ parser.regs < MAX_VARS
                 THEN Named(at, parser.regs) /\ parser' = NewRegister(at.peek.text)
                 ELSE SetError
          ELSE IF v.peek.type = "IDENT" /\ IsVRegister(v.peek.text) /\ VNumber[v.peek.text] < MAX_VARS
                 THEN Named(v, VNumber[v.peek.text]) /\ UNCHANGED parser
                 ELSE SetError

(***************************************************************************)
(* Statement and alternation.                                              *)
(***************************************************************************)
\* Label: IDENT ':' in front; looking for the ':' is undone without one.
Statement ==
    /\ At("statement", "start")
    /\ LET l    == Peek[lexer]
           next == Peek[Advance[l]]
           name == l.peek.text
       IN  IF l.peek.type = "IDENT" /\ next.peek.type = "COLON"
             THEN IF name \in parser.labels THEN SetError
                  ELSE /\ lexer' = Advance[next]
                       /\ parser' = [parser EXCEPT !.labels = @ \cup {name}]
                       /\ CallFrom([Resume("label") EXCEPT !.name = name], "statement")
                       /\ UNCHANGED src
             ELSE Descend(IF l.peek.type = "IDENT" THEN Restore(next, l) ELSE l,
                          Resume("pattern"), "alternation")

StatementLabel == Returned("statement", "label") /\ Give(lexer, Node("label", Top.name, <<>>, <<ret>>))

\* A goto behind the pattern: ':' '(' IDENT ')'.
StatementGoto ==
    /\ Returned("statement", "pattern")
    /\ LET l    == Peek[lexer]
           open == Peek[Advance[l]]
           name == Peek[Advance[open]]
       IN  IF l.peek.type # "COLON" THEN Give(l, ret)
           ELSE IF open.peek.type # "LPAREN" \/ name.peek.type # "IDENT" THEN SetError
           ELSE ReturnAfter(Advance[name], "RPAREN",
                            Tree("concat", <<ret, Text("goto", name.peek.text)>>))

Alternation ==
    /\ At("alternation", "start")
    /\ Descend(lexer, Resume("branch"), "concatenation")

\* Alternatives associate to the left.
AlternationBranch ==
    /\ Returned("alternation", "branch")
    /\ LET left == IF Top.parts = <<>> THEN ret ELSE Tree("alt", <<Top.parts[1], ret>>)
       IN  IF TypeAt(lexer) = "PIPE"
             THEN Descend(Advance[Peek[lexer]], [Top EXCEPT !.parts = <<left>>], "concatenation")
             ELSE Give(Peek[lexer], left)

(***************************************************************************)
(* Concatenation.                                                          *)
(***************************************************************************)
Primaries == {"LIT", "CHARCLASS", "LPAREN", "ANCHOR_START", "ANCHOR_END", "AT", "IDENT"}

InConcatenation == stack # <<>> /\ Top.fn = "concatenation" /\ Top.at = "start"

\* '.' behind a part, or '$' with a target behind it, names the part.
NamesPart(l) ==
    /\ Top.parts # <<>>
    /\ \/ l.peek.type = "DOT"
       \/ /\ l.peek.type = "ANCHOR_END"
          /\ LET next == Peek[Advance[l]].peek
             IN  next.type = "AT" \/ (next.type = "IDENT" /\ IsVRegister(next.text))

ConcatenationName ==
    /\ InConcatenation
    /\ NamesPart(Peek[lexer])
    /\ NamingTarget(Advance[Peek[lexer]])

\* P $ x with another name is an indirect reference.
IndirectReference(l) ==
    Top.parts # <<>> /\ l.peek.type = "ANCHOR_END" /\ TypeAt(Advance[l]) = "IDENT"

\* The lexer after looking behind '$' or an identifier and coming back.
LookedAhead(l) ==
    IF l.peek.type = "IDENT" \/ (Top.parts # <<>> /\ l.peek.type = "ANCHOR_END")
      THEN Restore(Peek[Advance[l]], l) ELSE l

ConcatenationElement ==
    /\ InConcatenation
    /\ LET l == Peek[lexer]
       IN  /\ ~NamesPart(l)
           /\ IF IndirectReference(l) THEN SetError
              ELSE IF l.peek.type \in Primaries
                THEN Descend(LookedAhead(l), Resume("part"), "repetition")
              ELSE CASE Len(Top.parts) = 0 -> SetError
                     [] Len(Top.parts) = 1 -> Give(l, Top.parts[1])
                     [] OTHER              -> Give(l, Tree("concat", Top.parts))

ConcatenationPart ==
    /\ Returned("concatenation", "part")
    /\ LET kept == IF Len(Top.parts) < MAX_PARTS THEN Top.parts ELSE Tail(Top.parts)
       IN  stack' = Append(Under, [Top EXCEPT !.at = "start", !.parts = Append(kept, ret)])
    /\ ret' = None
    /\ UNCHANGED <<src, lexer, parser>>

(***************************************************************************)
(* Repetition and primary.                                                 *)
(***************************************************************************)
Repetition ==
    /\ At("repetition", "start")
    /\ Descend(lexer, Resume("suffix"), "primary")

RepetitionSuffix ==
    /\ Returned("repetition", "suffix")
    /\ LET l == Peek[lexer]
       IN  CASE l.peek.type = "STAR"     -> Give(Advance[l], Tree("arbno", <<ret>>))
             [] l.peek.type = "PLUS"     -> Give(Advance[l], Tree("concat", <<ret, Tree("arbno", <<ret>>)>>))
             [] l.peek.type = "QUESTION" -> Give(Advance[l], Node("repeat", "", <<0, 1>>, <<ret>>))
             [] OTHER                    -> Give(l, ret)

PrimaryToken ==
    /\ At("primary", "start")
    /\ LET l == Peek[lexer]
       IN  \/ l.peek.type = "LIT" /\ Give(Advance[l], Text("lit", l.peek.text))
           \/ l.peek.type = "CHARCLASS" /\ Give(Advance[l], Text("span", l.peek.text))
           \/ l.peek.type = "ANCHOR_START" /\ Give(Advance[l], Leaf("anchor_start"))
           \/ /\ l.peek.type = "ANCHOR_END"
              /\ IF TypeAt(Advance[l]) = "IDENT" THEN SetError
                 ELSE Give(Peek[Advance[l]], Leaf("anchor_end"))
           \/ l.peek.type \notin Primaries /\ SetError

PrimaryGroup ==
    /\ At("primary", "start") /\ TypeAt(lexer) = "LPAREN"
    /\ Descend(Advance[Peek[lexer]], Resume("group"), "alternation")
PrimaryGroupEnd == Returned("primary", "group") /\ ReturnAfter(lexer, "RPAREN", ret)

\* @name P: the register is taken before P is parsed.
PrimaryCapture ==
    /\ At("primary", "start") /\ TypeAt(lexer) = "AT"
    /\ LET name == Peek[Advance[Peek[lexer]]]
       IN  IF name.peek.type = "IDENT" /\ parser.regs < MAX_VARS
             THEN /\ lexer' = Advance[name] /\ parser' = NewRegister(name.peek.text)
                  /\ CallFrom([Resume("capture") EXCEPT !.parts = <<Nums("cap", <<parser.regs>>)>>], "primary")
                  /\ UNCHANGED src
             ELSE SetError
PrimaryCaptureEnd ==
    /\ Returned("primary", "capture")
    /\ Give(lexer, [Top.parts[1] EXCEPT !.kids = <<ret>>])

(***************************************************************************)
(* Identifiers: assignments, tables, bare primitives and calls.            *)
(***************************************************************************)
AtIdent == At("primary", "start") /\ TypeAt(lexer) = "IDENT"
Ident == Peek[lexer].peek.text
BehindIdent == Peek[Advance[Peek[lexer]]]

\* vN = n or name = n.
Assign ==
    /\ AtIdent /\ BehindIdent.peek.type = "EQUALS"
    /\ LET value == Peek[Advance[BehindIdent]]
           var   == IF IsVRegister(Ident) THEN VNumber[Ident] ELSE FindCapture(Ident)
       IN  IF var >= 0 /\ value.peek.type = "INTEGER" /\ value.peek.num \in 0 .. MAX_VARS - 1
             THEN Give(Advance[value], Nums("assign", <<var, value.peek.num>>))
             ELSE SetError

\* The key of a table operation and the lexer behind it: a literal or $vN.
TableKey(l) ==
    LET v == Peek[Advance[Peek[l]]]
    IN  IF TypeAt(l) = "LIT"
          THEN [key |-> Text("lit", Peek[l].peek.text), lexer |-> Advance[Peek[l]]]
        ELSE IF /\ TypeAt(l) = "ANCHOR_END" /\ v.peek.type = "IDENT"
                /\ IsVRegister(v.peek.text) /\ VNumber[v.peek.text] < MAX_VARS
          THEN [key |-> Nums("regref", <<VNumber[v.peek.text]>>), lexer |-> Advance[v]]
          ELSE [key |-> Null, lexer |-> l]

\* T[key], or T[key] = value.
Table ==
    /\ AtIdent /\ BehindIdent.peek.type = "LBRACKET"
    /\ LET k     == TableKey(Advance[BehindIdent])
           close == Peek[k.lexer]
           after == Peek[Advance[close]]
       IN  IF k.key = Null \/ close.peek.type # "RBRACKET" THEN SetError
           ELSE IF after.peek.type # "EQUALS" THEN Give(after, Node("table", Ident, <<>>, <<k.key>>))
           ELSE IF TypeAt(Advance[after]) = "EOF" THEN SetError
           ELSE Descend(Advance[after], [Resume("update") EXCEPT !.name = Ident, !.parts = <<k.key>>], "repetition")
TableUpdate ==
    /\ Returned("primary", "update")
    /\ Give(lexer, Node("table_update", Top.name, <<>>, <<Top.parts[1], ret>>))

\* Fault: the identifier is looked at and not consumed.
BareIdentKept ==
    /\ AtIdent /\ BehindIdent.peek.type \notin {"EQUALS", "LBRACKET", "LPAREN"}
    /\ IF BehindIdent.peek.type = "CHARCLASS" THEN SetError
       ELSE CASE Ident = "ARB"   -> Give(Peek[lexer], Arb)
              [] Ident = "FENCE" -> Give(Peek[lexer], Leaf("fence"))
              [] Ident = "REM"   -> Give(Peek[lexer], Leaf("rem"))
              [] OTHER           -> SetError

BareIdent ==
    /\ AtIdent /\ BehindIdent.peek.type \notin {"EQUALS", "LBRACKET", "LPAREN"}
    /\ IF BehindIdent.peek.type = "CHARCLASS" THEN SetError
       ELSE CASE Ident = "ARB"   -> Give(BehindIdent, Arb)
              [] Ident = "FENCE" -> Give(BehindIdent, Leaf("fence"))
              [] Ident = "REM"   -> Give(BehindIdent, Leaf("rem"))
              [] OTHER           -> SetError

\* The names parse_function_call compares with, in its order; the comparison
\* is over the length of the identifier, so a prefix is enough.
Builtins == <<"SPAN", "BREAK", "BREAKX", "ANY", "NOTANY", "LEN", "EVAL", "EMIT", "POS", "TAB",
              "ARB", "ARBNO", "BAL", "FENCE", "REM", "RPOS", "RTAB", "repeat",
              "ABORT", "FAIL", "SUCCEED">>
Builtin(name) ==
    LET fits == {i \in DOMAIN Builtins : name = Builtins[i] \/ <<name, Builtins[i]>> \in Abbreviates}
    IN  IF fits = {} THEN "unknown" ELSE Builtins[CHOOSE i \in fits : \A j \in fits : i <= j]

AtCall(names) == AtIdent /\ BehindIdent.peek.type = "LPAREN" /\ Builtin(Ident) \in names
Argument == Peek[Advance[BehindIdent]]

StringBuiltins == [SPAN |-> "span", BREAK |-> "break", BREAKX |-> "breakx", ANY |-> "any", NOTANY |-> "notany"]
CallString ==
    /\ AtCall(DOMAIN StringBuiltins)
    /\ IF Argument.peek.type \in {"LIT", "CHARCLASS"}
         THEN ReturnAfter(Advance[Argument], "RPAREN",
                          Text(StringBuiltins[Builtin(Ident)], Argument.peek.text))
       ELSE IF Builtin(Ident) = "ANY" /\ Argument.peek.type = "RPAREN"
         THEN Give(Advance[Argument], Leaf("any"))
         ELSE SetError

\* parse_integer_arg.
IsInteger(l) == l.peek.type = "INTEGER" /\ l.peek.num \in -INT32_MAX - 1 .. INT32_MAX

IntegerBuiltins == [LEN |-> "len", POS |-> "pos", TAB |-> "tab", RPOS |-> "rpos", RTAB |-> "rtab"]
CallInteger ==
    /\ AtCall(DOMAIN IntegerBuiltins)
    /\ IF IsInteger(Argument)
         THEN ReturnAfter(Advance[Argument], "RPAREN",
                          Nums(IntegerBuiltins[Builtin(Ident)], <<Argument.peek.num>>))
         ELSE SetError

PlainBuiltins == [ARB |-> Arb, FENCE |-> Leaf("fence"), REM |-> Leaf("rem"),
                  ABORT |-> Leaf("abort"), FAIL |-> Leaf("fail"), SUCCEED |-> Leaf("succeed")]
CallPlain ==
    /\ AtCall(DOMAIN PlainBuiltins)
    /\ ReturnAfter(Argument, "RPAREN", PlainBuiltins[Builtin(Ident)])

\* BAL(), BAL(open) or BAL(open, close).
CallBal ==
    /\ AtCall({"BAL"})
    /\ LET second == Peek[Advance[Argument]]
           close  == Peek[Advance[second]]
       IN  IF Argument.peek.type = "RPAREN" THEN Give(Advance[Argument], Tree("bal", <<Text("lit", "("), Text("lit", ")")>>))
           ELSE IF Argument.peek.type # "LIT" \/ Argument.peek.text = "" THEN SetError
           ELSE IF second.peek.type # "COMMA"
             THEN ReturnAfter(second, "RPAREN", Tree("bal", <<Text("lit", Argument.peek.text), Text("lit", ")")>>))
           ELSE IF close.peek.type # "LIT" \/ close.peek.text = "" THEN SetError
           ELSE ReturnAfter(Advance[close], "RPAREN", Tree("bal", <<Text("lit", Argument.peek.text), Text("lit", close.peek.text)>>))

\* parse_emit: a text, or the register of @vN or @name.
CallEmit ==
    /\ AtCall({"EMIT"})
    /\ LET name == Peek[Advance[Argument]]
           reg  == IF IsVRegister(name.peek.text) THEN VNumber[name.peek.text] ELSE FindCapture(name.peek.text)
       IN  IF Argument.peek.type = "LIT"
             THEN ReturnAfter(Advance[Argument], "RPAREN", Text("emit", Argument.peek.text))
           ELSE IF Argument.peek.type = "AT" /\ name.peek.type = "IDENT" /\ reg >= 0
             THEN ReturnAfter(Advance[name], "RPAREN", Nums("emit_reg", <<reg>>))
             ELSE SetError

\* The calls with a pattern inside.
CallPattern ==
    /\ AtCall({"ARBNO", "repeat", "EVAL"})
    /\ IF Builtin(Ident) # "EVAL" /\ Argument.peek.type = "RPAREN" THEN SetError
       ELSE Descend(Argument, Resume(Builtin(Ident)),
                    IF Builtin(Ident) = "EVAL" THEN "alternation" ELSE "repetition")
CallPatternEnd ==
    \/ Returned("primary", "ARBNO") /\ ReturnAfter(lexer, "RPAREN", Tree("arbno", <<ret>>))
    \/ Returned("primary", "EVAL") /\ ReturnAfter(lexer, "RPAREN", Tree("dynamic_eval", <<ret>>))

\* repeat(P, min, max) with 0 <= min <= max.
CallRepeatEnd ==
    /\ Returned("primary", "repeat")
    /\ LET comma1 == Peek[lexer]
           min    == Peek[Advance[comma1]]
           comma2 == Peek[Advance[min]]
           max    == Peek[Advance[comma2]]
       IN  IF /\ comma1.peek.type = "COMMA" /\ IsInteger(min)
              /\ comma2.peek.type = "COMMA" /\ IsInteger(max)
              /\ 0 <= min.peek.num /\ min.peek.num <= max.peek.num
             THEN ReturnAfter(Advance[max], "RPAREN",
                              Node("repeat", "", <<min.peek.num, max.peek.num>>, <<ret>>))
             ELSE SetError

CallUnknown == AtCall({"unknown"}) /\ SetError

\* Fault: what follows the pattern is ignored.
FinishAnywhere ==
    /\ stack = <<>> /\ ~parser.done
    /\ parser' = [parser EXCEPT !.done = TRUE]
    /\ UNCHANGED <<src, lexer, stack, ret>>

\* snobol_parser_parse after the statement: nothing may be left.
Finish ==
    /\ stack = <<>> /\ ~parser.done
    /\ LET left == ~parser.err /\ TypeAt(lexer) # "EOF"
       IN  /\ parser' = [parser EXCEPT !.done = TRUE, !.err = @ \/ left]
           /\ ret' = IF left THEN Null ELSE ret
    /\ UNCHANGED <<src, lexer, stack>>

ParserNext ==
    \/ Propagate
    \/ Statement \/ StatementLabel \/ StatementGoto
    \/ Alternation \/ AlternationBranch
    \/ ConcatenationName \/ ConcatenationElement \/ ConcatenationPart
    \/ Repetition \/ RepetitionSuffix
    \/ PrimaryToken \/ PrimaryGroup \/ PrimaryGroupEnd \/ PrimaryCapture \/ PrimaryCaptureEnd
    \/ Assign \/ Table \/ TableUpdate \/ BareIdent
    \/ CallString \/ CallInteger \/ CallPlain \/ CallBal \/ CallEmit
    \/ CallPattern \/ CallPatternEnd \/ CallRepeatEnd \/ CallUnknown
    \/ Finish
=============================================================================
