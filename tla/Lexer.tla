------------------------------- MODULE Lexer -------------------------------
(***************************************************************************)
(* The lexer of the Arena front end (the TokenIterator of parse.cpp): a    *)
(* text in, its tokens out.  A text is a sequence of symbols.  A symbol is *)
(* a punctuation character, a digit, white space, or a whole word: what is *)
(* inside a word never matters to the lexer.                               *)
(*                                                                         *)
(* A token is a record of its type, its spelling, the offset of its first  *)
(* symbol (from 0, as the code counts), the offset behind its last one and *)
(* the token that take() returns for it.  That is seldom but sometimes not *)
(* the token itself: see TakenAs.                                          *)
(***************************************************************************)
EXTENDS Naturals, Sequences, TLC

Blank == {" ", "nl"}
Digits == {"0", "1", "2", "3", "4", "5", "6", "7", "8", "9"}
Quotes == {"'", "q"}

\* What the lexer tries on an operator's first character, in that order.
Tried ==
  [c \in {"+"} |-> << <<<<"+", "=">>, "PLUS_EQUAL">>, <<<<"+", "+">>, "INC">>,
                      <<<<"+">>, "PLUS">> >>]
  @@ [c \in {"-"} |-> << <<<<"-", ">">>, "ARROW">>, <<<<"-", "=">>, "MINUS_EQUAL">>,
                         <<<<"-", "-">>, "DEC">>, <<<<"-">>, "MINUS">> >>]
  @@ [c \in {"*"} |-> << <<<<"*", "=">>, "STAR_EQUAL">>, <<<<"*">>, "STAR">> >>]
  @@ [c \in {"/"} |-> << <<<<"/", "=">>, "SLASH_EQUAL">>, <<<<"/">>, "SLASH">> >>]
  @@ [c \in {"="} |-> << <<<<"=", "=">>, "EQUAL_EQUAL">>, <<<<"=">>, "EQUAL">> >>]
  @@ [c \in {"<"} |-> << <<<<"<", "=">>, "LESS_EQUAL">>,
                         <<<<"<", "<", "=">>, "SHIFT_LEFT_EQUAL">>,
                         <<<<"<", "<">>, "SHIFT_LEFT">>, <<<<"<">>, "LESS">> >>]
  @@ [c \in {">"} |-> << <<<<">", "=">>, "GREATER_EQUAL">>,
                         <<<<">", ">", "=">>, "SHIFT_RIGHT_EQUAL">>,
                         <<<<">", ">">>, "SHIFT_RIGHT">>, <<<<">">>, "GREATER">> >>]
  @@ [c \in {"!"} |-> << <<<<"!", "=">>, "NOT_EQUAL">>, <<<<"!">>, "NOT">> >>]
  @@ [c \in {"&"} |-> << <<<<"&", "&">>, "AND">>, <<<<"&", "=">>, "AMP_EQUAL">>,
                         <<<<"&">>, "AMP">> >>]
  @@ [c \in {"|"} |-> << <<<<"|", "|">>, "OR">>, <<<<"|", "=">>, "PIPE_EQUAL">>,
                         <<<<"|">>, "PIPE">> >>]
  @@ [c \in {"%"} |-> << <<<<"%", "=">>, "PERC_EQUAL">>, <<<<"%">>, "PERC">> >>]

Single ==
  [c \in {"("} |-> "OPEN_PAREN"] @@ [c \in {")"} |-> "CLOSE_PAREN"]
  @@ [c \in {"["} |-> "OPEN_BRACKET"] @@ [c \in {"]"} |-> "CLOSE_BRACKET"]
  @@ [c \in {"{"} |-> "OPEN_BRACE"] @@ [c \in {"}"} |-> "CLOSE_BRACE"]
  @@ [c \in {":"} |-> "COLON"] @@ [c \in {";"} |-> "SEMICOLON"] @@ [c \in {","} |-> "COMMA"]

Keyword ==
  [w \in {"as"} |-> "AS"] @@ [w \in {"const"} |-> "CONST"] @@ [w \in {"else"} |-> "ELSE"]
  @@ [w \in {"fun"} |-> "FUN"] @@ [w \in {"false"} |-> "FALSE"] @@ [w \in {"import"} |-> "IMPORT"]
  @@ [w \in {"if"} |-> "IF"] @@ [w \in {"let"} |-> "LET"] @@ [w \in {"ret"} |-> "RET"]
  @@ [w \in {"struct"} |-> "STRUCT"] @@ [w \in {"true"} |-> "TRUE"] @@ [w \in {"while"} |-> "WHILE"]

Invalid == {"#", "$", "\\"}
IsWord(c) ==
  c \notin Blank \cup Digits \cup Quotes \cup Invalid \cup {".", "@"}
           \cup DOMAIN Tried \cup DOMAIN Single

SymbolAt(s, i) == IF i \in DOMAIN s THEN s[i] ELSE "end"

\* The first position from i on at which there is no symbol of kind Is.
RECURSIVE RunEnd(_, _, _)
RunEnd(s, i, kind) ==
  IF /\ i \in DOMAIN s
     /\ \/ kind = "ident" /\ (IsWord(s[i]) \/ s[i] \in Digits)
        \/ kind = "number" /\ s[i] \in Digits \cup {"'"}
        \/ kind = "dots" /\ s[i] = "."
        \/ kind = "line" /\ s[i] # "nl"
  THEN RunEnd(s, i + 1, kind)
  ELSE i

-----------------------------------------------------------------------------
\* Comments.  The result is the position behind the comment; Len(s) + 1 is the
\* end of the text, and Beyond(s) is an iterator that has passed the end, which
\* the loop's test for equality never stops again.
Beyond(s) == Len(s) + 2

RECURSIVE CommentEnd(_, _), CommentRest(_, _)
StartsComment(s, i) == SymbolAt(s, i) = "/" /\ SymbolAt(s, i + 1) = "*"

\* lex_multiline_comment_nestable, called where a comment starts.
CommentEnd(s, i) == CommentRest(s, i + 2)

\* A star that closes nothing takes the symbol behind it along.
StarInComment(s, j) ==
  CASE SymbolAt(s, j + 1) = "/" -> j + 2
    [] j + 1 > Len(s) -> Beyond(s)
    [] OTHER -> CommentRest(s, j + 2)

\* A slash: over the comment that starts there, or over the slash alone; what
\* comes then is not looked at as a slash.
BehindSlash(s, j) ==
  CASE s[j] # "/" -> j
    [] StartsComment(s, j) -> CommentEnd(s, j)
    [] OTHER -> j + 1

CommentStep(s, j) ==
  CASE j > Len(s) -> Beyond(s)
    [] s[j] = "*" -> StarInComment(s, j)
    [] OTHER -> CommentRest(s, j + 1)

CommentRest(s, i) ==
  IF i > Len(s) THEN i ELSE CommentStep(s, BehindSlash(s, i))

\* White space and comments, up to the next symbol that belongs to a token.
RECURSIVE SkipBlank(_, _)
SkipBlank(s, i) ==
  CASE SymbolAt(s, i) \in Blank -> SkipBlank(s, i + 1)
    [] SymbolAt(s, i) = "/" /\ SymbolAt(s, i + 1) = "/" -> SkipBlank(s, RunEnd(s, i, "line"))
    [] StartsComment(s, i) -> SkipBlank(s, CommentEnd(s, i))
    [] OTHER -> i

-----------------------------------------------------------------------------
\* lex_quoted_string: behind the closing quote, or the end of the text.
RECURSIVE StringEnd(_, _, _)
StringEnd(s, i, quote) ==
  CASE i > Len(s) -> Len(s) + 1
    [] s[i] = "\\" -> StringEnd(s, i + 2, quote)
    [] s[i] = quote -> i + 1
    [] OTHER -> StringEnd(s, i + 1, quote)

\* lex_number: digits and their separators, one decimal point and digits.
NumberEnd(s, i) ==
  LET whole == RunEnd(s, i, "number")
  IN  IF SymbolAt(s, whole) = "." THEN RunEnd(s, whole + 1, "number") ELSE whole

Token(s, type, i, j) ==
  [type |-> type, text |-> SubSeq(s, i, IF j > Len(s) THEN Len(s) ELSE j - 1),
   at |-> i - 1, to |-> j - 1]

\* lex_match: the first of the spellings tried that the text has here.
Spells(s, i, w) == i + Len(w) - 1 <= Len(s) /\ SubSeq(s, i, i + Len(w) - 1) = w
LexOperator(s, i) ==
  LET tried == Tried[s[i]]
      k == CHOOSE n \in DOMAIN tried :
             /\ Spells(s, i, tried[n][1])
             /\ \A m \in 1..(n - 1) : ~Spells(s, i, tried[m][1])
  IN  Token(s, tried[k][2], i, i + Len(tried[k][1]))

LexIdent(s, i) ==
  LET j == RunEnd(s, i, "ident")
  IN  Token(s, IF j = i + 1 /\ s[i] \in DOMAIN Keyword THEN Keyword[s[i]] ELSE "IDENTIFIER", i, j)

LexAnnotation(s, i) ==
  Token(s, "ANNOTATION", i,
        IF SymbolAt(s, i + 1) \in Digits THEN i + 1 ELSE RunEnd(s, i + 1, "ident"))

\* A minus in front of a digit belongs to the number, whatever precedes it: to
\* its value, which the spelling stands for here, and not to the text it covers.
NegativeNumber(s, i) == s[i] = "-" /\ SymbolAt(s, i + 1) \in Digits

\* TokenIterator::next, at a symbol that is neither white space nor a comment.
LexToken(s, i) ==
  CASE i = Len(s) + 1 -> Token(s, "END", i, i)
    [] i > Len(s) + 1 -> Token(s, "UNDEFINED", i, i)
    [] NegativeNumber(s, i) ->
         [Token(s, "INTEGER", i, NumberEnd(s, i + 1)) EXCEPT !.at = i]
    [] s[i] \in DOMAIN Tried -> LexOperator(s, i)
    [] s[i] \in DOMAIN Single -> Token(s, Single[s[i]], i, i + 1)
    [] s[i] = "." -> Token(s, "DOTS", i, RunEnd(s, i, "dots"))
    [] s[i] = "@" -> LexAnnotation(s, i)
    [] s[i] \in Quotes -> Token(s, "STRING", i, StringEnd(s, i + 1, s[i]))
    [] s[i] \in Digits -> Token(s, "INTEGER", i, NumberEnd(s, i))
    [] IsWord(s[i]) -> LexIdent(s, i)
    [] OTHER -> Token(s, "INVALID", i, i + 1)

\* next() makes a token of a comment too, before it makes the next real one, and
\* take() returns the token in front of the new head: the last comment behind a
\* token is what the parser gets in the token's place.  cs are the places of the
\* comments between two tokens.
TakenAs(s, tok, cs) ==
  IF cs = <<>> THEN tok ELSE Token(s, "COMMENT", cs[Len(cs)][1], cs[Len(cs)][2])

RECURSIVE CommentsAt(_, _)
CommentsAt(s, i) ==
  CASE SymbolAt(s, i) \in Blank -> CommentsAt(s, i + 1)
    [] SymbolAt(s, i) = "/" /\ SymbolAt(s, i + 1) = "/" ->
         <<<<i, RunEnd(s, i, "line")>>>> \o CommentsAt(s, RunEnd(s, i, "line"))
    [] StartsComment(s, i) -> <<<<i, CommentEnd(s, i)>>>> \o CommentsAt(s, CommentEnd(s, i))
    [] OTHER -> <<>>

\* All the tokens of a text; the last one is the end of the input.
RECURSIVE LexFrom(_, _)
LexFrom(s, i) ==
  LET tok == LexToken(s, SkipBlank(s, i))
      taken == [as |-> TakenAs(s, tok, CommentsAt(s, tok.to + 1))] @@ tok
  IN  IF tok.type \in {"END", "UNDEFINED"} THEN <<taken>>
      ELSE <<taken>> \o LexFrom(s, tok.to + 1)

Tokens(s) == LexFrom(s, 1)
=============================================================================
