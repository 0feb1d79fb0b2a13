-------------------------- MODULE MCPatternParser --------------------------
(***************************************************************************)
(* Instances of the parser.  A source is one of                            *)
(*   - all sequences of up to MAX_TOKENS lexemes, or words, of a small     *)
(*     alphabet, whose language is defined below without a parser;         *)
(*   - sources built together with the tree they stand for;                *)
(*   - those sources with one lexeme dropped or made unreadable.           *)
(***************************************************************************)
EXTENDS PatternParser, FiniteSets, SequencesExt

CONSTANTS MAX_TOKENS, Sources

VARIABLE want     \* the tree the source stands for, where it is known

allVars == <<parserVars, want>>

MCVNumber == [v0 |-> 0, v1 |-> 1, v2 |-> 2, v3 |-> 3]
MCAbbreviates == {<<"S", "SPAN">>, <<"S", "SUCCEED">>, <<"A", "ANY">>, <<"A", "ARB">>, <<"A", "ARBNO">>,
                  <<"A", "ABORT">>, <<"ARB", "ARBNO">>, <<"BREAK", "BREAKX">>}

T(type) == Token(type)
Id(name) == [Token("IDENT") EXCEPT !.text = name]
Lit(text) == [Token("LIT") EXCEPT !.text = text]
Num(n) == [Token("INTEGER") EXCEPT !.num = n]
Lp == T("LPAREN")
Rp == T("RPAREN")

(***************************************************************************)
(* Sources with their trees.                                               *)
(***************************************************************************)
Form(tokens, tree) == [tokens |-> tokens, tree |-> tree]
Elements == {Form(<<Lit("a")>>, Text("lit", "a")), Form(<<Id("ARB")>>, Arb),
             Form(<<Id("LEN"), Lp, Num(1), Rp>>, Nums("len", <<1>>))}
Suffixed(F) == F
    \cup {Form(f.tokens \o <<T("STAR")>>, Tree("arbno", <<f.tree>>)) : f \in F}
    \cup {Form(f.tokens \o <<T("PLUS")>>, Tree("concat", <<f.tree, Tree("arbno", <<f.tree>>)>>)) : f \in F}
    \cup {Form(f.tokens \o <<T("QUESTION")>>, Node("repeat", "", <<0, 1>>, <<f.tree>>)) : f \in F}
\* A bare identifier in front of '(' would be a call.
Joins(f, g) == ~(f.tokens[Len(f.tokens)].type = "IDENT" /\ g.tokens[1].type = "LPAREN")
Pairs(F, G) == {Form(fg[1].tokens \o fg[2].tokens, Tree("concat", <<fg[1].tree, fg[2].tree>>))
                  : fg \in {x \in F \X G : Joins(x[1], x[2])}}
Alts(F, G) == {Form(f.tokens \o <<T("PIPE")>> \o g.tokens, Tree("alt", <<f.tree, g.tree>>)) : f \in F, g \in G}
Groups(F) == {Form(<<Lp>> \o f.tokens \o <<Rp>>, f.tree) : f \in F}

Composed ==
    LET reps   == Suffixed(Elements)
        pairs  == Pairs(reps, Elements)
        alts   == Alts(Elements, Elements)
        groups == Groups(alts \cup Pairs(Elements, Elements))
    IN  reps \cup pairs \cup Alts(alts, Elements) \cup Alts(pairs, Elements)
        \cup Suffixed(groups) \cup Pairs(groups, Elements) \cup Pairs(Elements, Suffixed(groups))

A == Text("lit", "a")
B == Text("lit", "b")
Cap(r, t) == Node("cap", "", <<r>>, <<t>>)
Special == {
    \* 'a' 'b' . @x | 'b': naming binds to the last part
    Form(<<Lit("a"), Lit("b"), T("DOT"), T("AT"), Id("x"), T("PIPE"), Lit("b")>>,
         Tree("alt", <<Tree("concat", <<A, Cap(0, B)>>), B>>)),
    \* 'a' . @x 'b' . @x EMIT(@x): the name is its last register
    Form(<<Lit("a"), T("DOT"), T("AT"), Id("x"), Lit("b"), T("DOT"), T("AT"), Id("x"),
           Id("EMIT"), Lp, T("AT"), Id("x"), Rp>>,
         Tree("concat", <<Cap(0, A), Cap(1, B), Nums("emit_reg", <<1>>)>>)),
    \* @x ('a' | @y 'b') y = 0: registers in the order of the names
    Form(<<T("AT"), Id("x"), Lp, Lit("a"), T("PIPE"), T("AT"), Id("y"), Lit("b"), Rp, Id("y"), T("EQUALS"), Num(0)>>,
         Tree("concat", <<Cap(0, Tree("alt", <<A, Cap(1, B)>>)), Nums("assign", <<1, 0>>)>>)),
    \* 'a' $ v1 . v0 $: naming twice, and the end anchor
    Form(<<Lit("a"), T("ANCHOR_END"), Id("v1"), T("DOT"), Id("v0"), T("ANCHOR_END")>>,
         Tree("concat", <<Cap(0, Cap(1, A)), Leaf("anchor_end")>>)),
    \* ^ T['a'] = 'b' + T[$v0]
    Form(<<T("ANCHOR_START"), Id("T"), T("BRACKET"), Lit("a"), T("RBRACKET"), T("EQUALS"), Lit("b"), T("STAR"),
           Id("T"), T("BRACKET"), T("ANCHOR_END"), Id("v0"), T("RBRACKET")>>,
         Tree("concat", <<Leaf("anchor_start"),
                          Node("table_update", "T", <<>>, <<A, Tree("arbno", <<B>>)>>),
                          Node("table", "T", <<>>, <<Nums("regref", <<0>>)>>)>>)),
    \* L: M: [..] 'a' :(L)
    Form(<<Id("L"), T("COLON"), Id("M"), T("COLON"), T("BRACKET"), Id("q"), T("RBRACKET"), Lit("a"),
           T("COLON"), Lp, Id("L"), Rp>>,
         Node("label", "L", <<>>, <<Node("label", "M", <<>>,
              <<Tree("concat", <<Tree("concat", <<Leaf("span"), A>>), Text("goto", "L")>>)>>)>>)),
    \* ARBNO('a' ?) repeat('b', 1, 2) EVAL('a' | 'b')
    Form(<<Id("ARBNO"), Lp, Lit("a"), T("QUESTION"), Rp,
           Id("repeat"), Lp, Lit("b"), T("COMMA"), Num(1), T("COMMA"), Num(2), Rp,
           Id("EVAL"), Lp, Lit("a"), T("PIPE"), Lit("b"), Rp>>,
         Tree("concat", <<Tree("arbno", <<Node("repeat", "", <<0, 1>>, <<A>>)>>),
                          Node("repeat", "", <<1, 2>>, <<B>>),
                          Tree("dynamic_eval", <<Tree("alt", <<A, B>>)>>)>>)),
    \* BAL() BAL('a', 'b') S('a') BREAKX('b') A() FENCE REM FAIL()
    Form(<<Id("BAL"), Lp, Rp, Id("BAL"), Lp, Lit("a"), T("COMMA"), Lit("b"), Rp,
           Id("S"), Lp, Lit("a"), Rp, Id("BREAKX"), Lp, Lit("b"), Rp, Id("A"), Lp, Rp,
           Id("FENCE"), Id("REM"), Id("FAIL"), Lp, Rp, Id("EMIT"), Lp, Lit("b"), Rp>>,
         Tree("concat", <<Tree("bal", <<Text("lit", "("), Text("lit", ")")>>), Tree("bal", <<A, B>>),
                          Text("span", "a"), Text("breakx", "b"), Leaf("any"),
                          Leaf("fence"), Leaf("rem"), Leaf("fail"), Text("emit", "b")>>))}

Unknown == {Form(<<Lit("a"), Id("LEN"), Lp, Num(9), Rp>>, None), Form(<<Id("foo"), Lp, Rp>>, None),
            Form(<<Id("v3"), T("EQUALS"), Num(0)>>, None), Form(<<Id("ARB"), T("BRACKET"), Id("q")>>, None),
            Form(<<Id("L"), T("COLON"), Id("L"), T("COLON"), Lit("a")>>, None)}

\* One lexeme dropped, or unreadable.
Dropped(s, i) == SubSeq(s, 1, i - 1) \o SubSeq(s, i + 1, Len(s))
Spoiled(F) == UNION {UNION {{Form(Dropped(f.tokens, i), None), Form([f.tokens EXCEPT ![i] = T("BAD")], None)}
                              : i \in DOMAIN f.tokens} : f \in F}

Alphabet == {Lit("a"), Id("ARB"), T("PIPE"), Lp, Rp, T("STAR"), T("DOT"), T("AT"), T("ANCHOR_END")}
UpTo(n, set) == UNION {[1 .. k -> set] : k \in 0 .. n}
Short == {Form(s, None) : s \in UpTo(MAX_TOKENS, Alphabet)}

\* Longer ones, over words: naming and capturing are words of their own.
Words == {<<Lit("a")>>, <<Id("ARB")>>, <<T("PIPE")>>, <<Lp>>, <<Rp>>, <<T("STAR")>>, <<T("ANCHOR_END")>>,
          <<T("DOT"), T("AT"), Id("ARB")>>, <<T("AT"), Id("ARB")>>}
Worded == {Form(FlattenSeq(s), None) : s \in UpTo(MAX_TOKENS, Words)}

MCSources == Short \cup Worded \cup Composed \cup Special \cup Spoiled(Special) \cup Unknown
\* An unreadable character behind a bare primitive.
MCStuck == {Form(<<Id("ARB"), T("BAD")>>, None)}

Init == /\ \E f \in Sources : src = f.tokens /\ want = f.tree
        /\ ParserInit
Next == ParserNext /\ UNCHANGED want
Spec == Init /\ [][Next]_allVars /\ WF_allVars(Next)

(***************************************************************************)
(* The language over Alphabet, as a grammar: the lexemes i to j of src are *)
(* an alternation, a concatenation and so on.                              *)
(***************************************************************************)
Is(i, type) == i \in DOMAIN src /\ src[i].type = type

RECURSIVE IsAlternation(_, _), IsConcatenation(_, _), IsNamed(_, _), IsPrimary(_, _)
IsPrimary(i, j) ==
    \/ i = j /\ (Is(i, "LIT") \/ Is(i, "IDENT") \/ Is(i, "ANCHOR_END"))
    \/ j = i + 2 /\ Is(i, "IDENT") /\ Is(i + 1, "LPAREN") /\ Is(j, "RPAREN")
    \/ i < j /\ Is(i, "LPAREN") /\ Is(j, "RPAREN") /\ IsAlternation(i + 1, j - 1)
    \/ i + 1 < j /\ Is(i, "AT") /\ Is(i + 1, "IDENT") /\ IsPrimary(i + 2, j)
IsNamed(i, j) ==
    \/ IsPrimary(i, j)
    \/ i < j /\ Is(j, "STAR") /\ IsPrimary(i, j - 1)
    \/ /\ i + 2 < j /\ (Is(j - 2, "DOT") \/ Is(j - 2, "ANCHOR_END")) /\ Is(j - 1, "AT") /\ Is(j, "IDENT")
       /\ IsNamed(i, j - 3)
IsConcatenation(i, j) ==
    \/ IsNamed(i, j)
    \/ \E k \in i + 1 .. j : IsConcatenation(i, k - 1) /\ IsNamed(k, j)
IsAlternation(i, j) ==
    \/ IsConcatenation(i, j)
    \/ \E k \in i + 1 .. j - 1 : Is(k, "PIPE") /\ IsAlternation(i, k - 1) /\ IsConcatenation(k + 1, j)

\* '$' in front of a name is a reference, which there is not; a name that is
\* not a capture's and has a '(' behind it is a call without arguments.
IsAllowed(i) ==
    /\ Is(i, "ANCHOR_END") => ~Is(i + 1, "IDENT")
    /\ Is(i, "IDENT") /\ ~Is(i - 1, "AT") /\ Is(i + 1, "LPAREN") => Is(i + 2, "RPAREN")
InLanguage == /\ IsAlternation(1, Len(src))
              /\ \A i \in DOMAIN src : IsAllowed(i)
              /\ Cardinality({i \in DOMAIN src : Is(i, "AT")}) <= MAX_VARS

-----------------------------------------------------------------------------
\* snobol_parser_parse accepts exactly the patterns of the grammar: over all
\* short sources, it returns a tree if and only if the source is one, and it
\* reports an error if and only if it returns none.
AcceptsLanguage ==
    parser.done => /\ parser.err <=> ret = Null
                   /\ (\A i \in DOMAIN src : src[i] \in Alphabet) => (ret # Null <=> InLanguage)

\* The tree is the one the source stands for: precedence and association of
\* '|', concatenation, suffixes and naming, the register each capture gets
\* and the one a name refers to, calls by their abbreviated names, tables.
ParsesToTree == parser.done /\ want # None => ret = want

\* Every parse returns.  The one exception: the lexer met an unreadable
\* character while the parser looked behind a token and then put it back.
ReturnsUnlessStuck ==
    \/ <>parser.done
    \/ <>[](lexer.err /\ lexer.peek.type \notin {"NONE", "ERROR"})

\* parser.h: snobol_parser_parse returns a tree, "or NULL on error".
Returns == <>parser.done
=============================================================================
