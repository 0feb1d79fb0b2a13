---------------------------- MODULE PatternLexer ----------------------------
(***************************************************************************)
(* The lexer of pattern source: one token of look-ahead, a context for     *)
(* '[', a sticky error, and save/restore.  core/src/lexer.c.               *)
(*                                                                         *)
(* The source is a sequence of lexemes [type, text, num]: num is the value *)
(* of an integer, text the name or literal.  The type "BRACKET" is a '['   *)
(* before its meaning is known and "BAD" what is no token.                 *)
(***************************************************************************)
EXTENDS Integers, Sequences

CONSTANT VNumber    \* the names 'v' digits, with their number

VARIABLE src        \* the source

Token(type) == [type |-> type, text |-> "", num |-> 0]
NoToken == Token("NONE")
Tokens == [type : STRING, text : STRING, num : Int]

Lexers == [pos : Nat, peek : Tokens, prev : STRING, err : BOOLEAN]

\* lexer_create: peek_token is NoToken while has_peek is false.
NewLexer == [pos |-> 1, peek |-> NoToken, prev |-> "EOF", err |-> FALSE]

Lexeme(i) == IF i <= Len(src) THEN src[i] ELSE Token("EOF")

\* bracket_is_table_key: a quoted literal or $vN behind the '['.  The code
\* looks at characters: a closing quote must come before the next ']', and 'v'
\* and a digit directly behind the '$'.  The literals of the sources here
\* hold no ']', and '$' and the name behind it are written without a blank.
IsTableKey(i) ==
    \/ Lexeme(i + 1).type = "LIT"
    \/ Lexeme(i + 1).type = "ANCHOR_END" /\ Lexeme(i + 2).text \in DOMAIN VNumber

\* scan_charclass: everything up to the ']', or to the end.
ClassEnd(i) ==
    LET close == {j \in i + 1 .. Len(src) : src[j].type = "RBRACKET"}
    IN  IF close = {} THEN Len(src) + 1
        ELSE (CHOOSE j \in close : \A k \in close : j <= k) + 1

Scanned(lx, token, pos) == [token |-> token, lexer |-> [lx EXCEPT !.pos = pos, !.prev = token.type]]

\* snobol_lexer_next without a token in hand.
Scan[lx \in Lexers] ==
    LET c == Lexeme(lx.pos)
    IN  CASE c.type = "EOF"     -> [token |-> c, lexer |-> lx]
          [] c.type = "BAD"     -> [token |-> Token("ERROR"),
                                    lexer |-> [lx EXCEPT !.err = TRUE, !.prev = "ERROR"]]
          [] c.type = "BRACKET" -> IF lx.prev = "IDENT" /\ IsTableKey(lx.pos)
                                     THEN Scanned(lx, Token("LBRACKET"), lx.pos + 1)
                                     ELSE Scanned(lx, Token("CHARCLASS"), ClassEnd(lx.pos))
          [] OTHER              -> Scanned(lx, c, lx.pos + 1)

\* snobol_lexer_next: an error is reported for ever, before a token in hand.
LexerNext[lx \in Lexers] ==
    IF lx.err THEN [token |-> Token("ERROR"), lexer |-> lx]
    ELSE IF lx.peek # NoToken
      THEN [token |-> lx.peek, lexer |-> [lx EXCEPT !.peek = NoToken, !.prev = lx.peek.type]]
      ELSE Scan[lx]

\* snobol_lexer_peek: the lexer with the token in hand.
Peek[lx \in Lexers] ==
    IF lx.peek # NoToken THEN lx
    ELSE LET n == LexerNext[lx] IN [n.lexer EXCEPT !.peek = n.token]

Advance[lx \in Lexers] == LexerNext[lx].lexer
TypeAt(lx) == Peek[lx].peek.type

\* snobol_lexer_save is the lexer itself; snobol_lexer_restore brings back
\* all of it but the error.
Restore(lx, saved) == [saved EXCEPT !.err = lx.err]
=============================================================================
