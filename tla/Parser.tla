------------------------------ MODULE Parser ------------------------------
(***************************************************************************)
(* The recursive descent parser of the Arena front end (class Parser of    *)
(* parse.cpp), with its recovery from errors: the tokens of a text in, a   *)
(* syntax tree and the errors out, or a parser that never ends.            *)
(*                                                                         *)
(* The parser's state is a record: the tokens ts, the index i of the head, *)
(* the errors e, each the offsets it covers, how it failed to end (d), and *)
(* v, what the rule that was just applied returns.  A rule is a record of  *)
(* its name r and of its arguments; Go applies it.  A node of the tree is  *)
(* its kind, the text of the token that names it, and its children.        *)
(*                                                                         *)
(* The code's loops end when a token they wait for is at the head.  A turn *)
(* of a loop that takes no token and leaves the loop's own state as it was *)
(* is taken again forever: that is d = "hangs".                            *)
(***************************************************************************)
EXTENDS Lexer

Node(k, w, c) == [k |-> k, w |-> w, c |-> c]
None == Node("none", <<>>, <<>>)

R(name) == [r |-> name]

RECURSIVE Go(_, _)

-----------------------------------------------------------------------------
\* The token iterator.
Ahead(p) == p.ts[p.i]
Peek(p) == Ahead(p).type

Result(p, v) == [p EXCEPT !.v = v]

\* The tokens of a text end at "END", which is never left behind.  Where an
\* unclosed comment ran past the end of the text the program is lost.
Skip(p) ==
  LET i == IF p.i = Len(p.ts) THEN p.i ELSE p.i + 1
  IN  [p EXCEPT !.i = i, !.d = IF p.ts[i].type = "UNDEFINED" /\ @ = "" THEN "crashes" ELSE @]

Take(p) == Result(Skip(p), Ahead(p).as)

Report(p, from, to) == [p EXCEPT !.e = Append(@, <<from.at, to.to>>)]

\* A token that is missing is made up.
Synthetic(type) == [type |-> type, text |-> <<>>]
Require(p, type) ==
  IF Peek(p) = type THEN Take(p)
  ELSE Result(Report(p, Ahead(p), Ahead(p)), Synthetic(type))

\* What was in front stays the result.
Expect(p, type) == Result(Require(p, type), p.v)

Hang(p) == [p EXCEPT !.d = IF @ = "" THEN "hangs" ELSE @]

\* An assertion of the code, which its builds keep.
Asserted(p, holds) == IF holds \/ p.d # "" THEN p ELSE [p EXCEPT !.d = "aborts"]

\* error_until: at least one token is skipped.
RECURSIVE SkipTo(_, _)
SkipTo(p, stop) ==
  IF Peek(p) \in stop THEN p
  ELSE LET q == Take(p) IN IF Peek(q) = "END" \/ q.d # "" THEN q ELSE SkipTo(q, stop)

ErrorUntil(p, stop) ==
  LET q == SkipTo(Take(p), stop) IN Report(q, Ahead(p), q.v)

\* A bug to find: what is skipped is not reported.
ConsumeUntilSilently(p, stop) == IF Peek(p) \in stop THEN p ELSE SkipTo(Take(p), stop)

\* require_consume_until
ConsumeUntil(p, stop) == IF Peek(p) \in stop THEN p ELSE ErrorUntil(p, stop)

Annotated(p) == IF Peek(p) = "ANNOTATION" THEN Skip(p) ELSE p

-----------------------------------------------------------------------------
\* Types.
Type(p) ==
  LET name == Require(p, "IDENTIFIER")
      args == IF Peek(name) = "LESS"
              THEN Go([r |-> "generic args", acc |-> <<>>], Skip(name))
              ELSE Result(name, <<>>)
  IN  Go(R("type suffix"), Result(args, Node("type", name.v.text, args.v)))

ArraySize(p) ==
  IF Peek(p) \in {"INTEGER", "STRING", "TRUE", "FALSE"} THEN Take(p)
  ELSE Result(p, Synthetic("INTEGER"))

TypeSuffix(p) ==
  LET q == Skip(p)
  IN  CASE p.d # "" -> p
        [] Peek(p) = "STAR" /\ Peek(q) = "IDENTIFIER" ->
             Go(R("type suffix"), Result(Skip(q), Node("ptr", Ahead(q).as.text, <<p.v>>)))
        [] Peek(p) = "STAR" /\ Peek(q) # "IDENTIFIER" ->
             Go(R("type suffix"), Result(q, Node("ptr", <<>>, <<p.v>>)))
        [] Peek(p) = "OPEN_BRACKET" ->
             LET size == ArraySize(q)
             IN  Go(R("type suffix"), Result(Require(size, "CLOSE_BRACKET"),
                                             Node("array", size.v.text, <<p.v>>)))
        [] Peek(p) = "CONST" -> Go(R("type suffix"), Result(q, Node("const", <<>>, <<p.v>>)))
        [] OTHER -> p

GenericStop == {"STAR", "IDENTIFIER", "GREATER", "OPEN_PAREN", "OPEN_BRACE", "SEMICOLON"}

\* One turn behind the tests for an end: a comma but before the first argument,
\* and an argument.
GenericArg(acc, p) ==
  LET comma == IF acc = <<>> THEN p ELSE Require(p, "COMMA")
      arg == IF Peek(comma) = "STAR"
             THEN LET name == Require(Skip(comma), "IDENTIFIER")
                  IN  Result(name, Node("lifetime", name.v.text, <<>>))
             ELSE Go(R("type"), comma)
  IN  IF arg.i = p.i /\ acc # <<>> THEN Hang(arg)
      ELSE Go([r |-> "generic args", acc |-> Append(acc, arg.v)], arg)

GenericArgs(acc, from) ==
  LET p == ConsumeUntil(from, GenericStop)
  IN  CASE p.d # "" -> p
        [] Peek(p) = "GREATER" ->
             LET q == Take(p)
             IN  Result(IF acc = <<>> THEN Report(q, q.v, q.v) ELSE q, acc)
        [] Peek(p) \in {"OPEN_PAREN", "OPEN_BRACE", "SEMICOLON"} ->
             Result(Report(p, Ahead(p), Ahead(p)), acc)
        [] OTHER -> GenericArg(acc, p)

-----------------------------------------------------------------------------
\* Expressions.
Expression(p) == Go(R("assignment"), p)

Primary(p) ==
  CASE Peek(p) = "OPEN_PAREN" -> Expect(Expression(Skip(p)), "CLOSE_PAREN")
    [] Peek(p) \in {"INTEGER", "STRING", "TRUE", "FALSE"} ->
         LET q == Take(p) IN Result(q, Node("lit", q.v.text, <<>>))
    [] OTHER -> LET q == Require(p, "IDENTIFIER")
                IN  Annotated(Result(q, Node("id", q.v.text, <<>>)))

\* Behind the dot: an operator, a cast, or the name of a member.
Dot(p) ==
  LET q == Skip(p)
  IN  CASE Peek(q) \in {"STAR", "AMP"} ->
             Annotated(Result(Skip(q), Node("dot", Ahead(q).as.text, <<p.v>>)))
        [] Peek(q) = "AS" ->
             LET type == Go(R("type"), Require(Skip(q), "OPEN_PAREN"))
             IN  Annotated(Result(Require(type, "CLOSE_PAREN"),
                                  Node("cast", <<>>, <<p.v, type.v>>)))
        [] OTHER -> LET name == Require(q, "IDENTIFIER")
                    IN  Annotated(Result(name, Node("member", name.v.text, <<p.v>>)))

\* parse_call_expression behind its parenthesis: acc are the callee and the
\* arguments so far.
CallArgs(acc, allowed, p) ==
  LET reported == IF allowed THEN p ELSE Report(p, Ahead(p), Ahead(p))
      arg == Expression(reported)
      comma == Peek(arg) = "COMMA"
      next == IF comma THEN Skip(arg) ELSE arg
  IN  CASE p.d # "" -> p
        [] Peek(p) = "CLOSE_PAREN" -> Annotated(Result(Skip(p), Node("call", <<>>, acc)))
        [] /\ Peek(p) # "CLOSE_PAREN" /\ ~allowed
           /\ Peek(p) \in {"END", "SEMICOLON", "CLOSE_BRACE"} ->
             Result(reported, Node("call", <<>>, acc))
        [] OTHER ->
             IF next.i = p.i /\ ~allowed THEN Hang(next)
             ELSE Go([r |-> "call args", acc |-> Append(acc, arg.v), allowed |-> comma], next)

Index(p) ==
  LET offset == Expression(Skip(p))
  IN  Annotated(Result(Require(offset, "CLOSE_BRACKET"), Node("index", <<>>, <<p.v, offset.v>>)))

Postfix(p) ==
  CASE p.d # "" -> p
    [] Peek(p) = "DOTS" -> Go(R("postfix"), Dot(p))
    [] Peek(p) = "OPEN_PAREN" ->
         Go(R("postfix"), Go([r |-> "call args", acc |-> <<p.v>>, allowed |-> TRUE], Skip(p)))
    [] Peek(p) = "OPEN_BRACKET" -> Go(R("postfix"), Index(p))
    [] OTHER -> p

Unary(p) ==
  IF Peek(p) \in {"NOT", "MINUS"}
  THEN LET operand == Go(R("unary"), Annotated(Skip(p)))
       IN  Result(operand, Node("un", Ahead(p).as.text, <<operand.v>>))
  ELSE Go(R("postfix"), Primary(p))

\* get_binary_precedence
Precedence(type) ==
  CASE type \in {"IDENTIFIER", "INTEGER", "STRING", "OPEN_PAREN", "OPEN_BRACKET",
                 "NOT", "DOTS", "INC", "DEC"} -> 0
    [] type \in {"STAR", "SLASH", "PERC"} -> 1
    [] type \in {"PLUS", "MINUS"} -> 2
    [] type \in {"SHIFT_LEFT", "SHIFT_RIGHT"} -> 3
    [] type \in {"LESS", "LESS_EQUAL", "GREATER", "GREATER_EQUAL"} -> 4
    [] type \in {"EQUAL_EQUAL", "NOT_EQUAL"} -> 5
    [] type = "AMP" -> 6
    [] type = "PIPE" -> 7
    [] type = "AND" -> 8
    [] type = "OR" -> 9
    [] OTHER -> 10

\* A bug to find: an operator of the same level ends the level.
BinaryRestTight(level, p) ==
  IF p.d # "" \/ Precedence(Peek(p)) >= level THEN p
  ELSE LET right == Go([r |-> "binary", level |-> level - 1], Annotated(Skip(p)))
       IN  Go([r |-> "binary rest", level |-> level],
              Result(right, Node("bin", Ahead(p).as.text, <<p.v, right.v>>)))

\* The rest of a level's operands: whatever binds at least as tightly is taken
\* for an operator.
BinaryRest(level, p) ==
  IF p.d # "" \/ Precedence(Peek(p)) > level THEN p
  ELSE LET right == Go([r |-> "binary", level |-> level - 1], Annotated(Skip(p)))
       IN  Go([r |-> "binary rest", level |-> level],
              Result(right, Node("bin", Ahead(p).as.text, <<p.v, right.v>>)))

Binary(level, p) ==
  IF level < 1 THEN Go(R("unary"), p)
  ELSE Go([r |-> "binary rest", level |-> level], Go([r |-> "binary", level |-> level - 1], p))

AssignmentOperators ==
  {"EQUAL", "AMP_EQUAL", "PIPE_EQUAL", "PLUS_EQUAL", "MINUS_EQUAL", "STAR_EQUAL",
   "SLASH_EQUAL", "PERC_EQUAL", "SHIFT_LEFT_EQUAL", "SHIFT_RIGHT_EQUAL"}

Assignment(p) ==
  LET left == Go([r |-> "binary", level |-> Precedence("OR")], p)
  IN  IF left.d # "" \/ Peek(left) \notin AssignmentOperators THEN left
      ELSE LET right == Go(R("assignment"), Skip(left))
           IN  Result(right, Node("bin", Ahead(left).as.text, <<left.v, right.v>>))

-----------------------------------------------------------------------------
\* Statements.
If(p) ==
  LET condition == Expression(Require(Skip(p), "OPEN_PAREN"))
      then == Go(R("statement"), Require(condition, "CLOSE_PAREN"))
      else == IF then.d = "" /\ Peek(then) = "ELSE" THEN Go(R("statement"), Skip(then))
              ELSE Result(then, None)
  IN  Result(else, Node("if", <<>>, <<condition.v, then.v, else.v>>))

While(p) ==
  LET condition == Expression(Require(Skip(p), "OPEN_PAREN"))
      body == Go(R("statement"), Require(condition, "CLOSE_PAREN"))
  IN  Result(body, Node("while", <<>>, <<condition.v, body.v>>))

Let(p) ==
  LET name == Require(Skip(p), "IDENTIFIER")
      type == IF Peek(name) = "COLON" THEN Go(R("type"), Skip(name)) ELSE Result(name, None)
      init == IF Peek(type) = "EQUAL" THEN Expression(Skip(type)) ELSE Result(type, None)
  IN  Result(Require(init, "SEMICOLON"), Node("let", name.v.text, <<type.v, init.v>>))

Return(p) ==
  LET value == Expression(Skip(p))
  IN  Result(Require(value, "SEMICOLON"), Node("ret", <<>>, <<value.v>>))

\* parse_block_statement behind its brace: acc are the statements so far.
Block(acc, p) ==
  IF p.d # "" \/ Peek(p) = "CLOSE_BRACE" THEN Result(Skip(p), Node("block", <<>>, acc))
  ELSE LET statement == Go(R("statement"), p)
       IN  IF statement.i = p.i THEN Hang(statement)
           ELSE Go([r |-> "block", acc |-> Append(acc, statement.v)], statement)

BlockStatement(p) == Go([r |-> "block", acc |-> <<>>], Require(p, "OPEN_BRACE"))

Statement(p) ==
  CASE p.d # "" -> p
    [] Peek(p) = "IF" -> If(p)
    [] Peek(p) = "WHILE" -> While(p)
    [] Peek(p) = "LET" -> Let(p)
    [] Peek(p) = "RET" -> Return(p)
    [] Peek(p) = "OPEN_BRACE" -> BlockStatement(p)
    [] Peek(p) = "IDENTIFIER" /\ Ahead(p).text = <<"arena">> ->
         LET block == BlockStatement(Asserted(Skip(p), Ahead(p).as.type = "IDENTIFIER"))
         IN  Result(block, Node("arena", <<>>, <<block.v>>))
    [] OTHER -> LET value == Expression(p)
                IN  Result(Require(value, "SEMICOLON"), Node("expr", <<>>, <<value.v>>))

-----------------------------------------------------------------------------
\* Declarations.
ParamStop ==
  {"IDENTIFIER", "CLOSE_PAREN", "CLOSE_BRACE", "OPEN_BRACE", "COLON", "SEMICOLON", "COMMA",
   "ARROW", "DOTS"}
ParamEnd == {"CLOSE_PAREN", "ARROW", "CLOSE_BRACE", "OPEN_BRACE", "SEMICOLON"}

Param(acc, p) ==
  LET comma == IF acc = <<>> THEN p ELSE Require(p, "COMMA")
      name == Require(comma, "IDENTIFIER")
      type == Go(R("type"), Require(name, "COLON"))
      dots == Take(comma)
  IN  CASE Peek(comma) = "DOTS" ->
             Result(IF Len(dots.v.text) = 3 THEN dots ELSE Report(dots, dots.v, dots.v),
                    Node("params", dots.v.text, acc))
        [] Peek(comma) # "DOTS" /\ type.i = p.i /\ acc # <<>> -> Hang(type)
        [] OTHER -> Go([r |-> "params", acc |-> Append(acc, Node("param", name.v.text, <<type.v>>))],
                       type)

Params(acc, from) ==
  LET p == ConsumeUntil(from, ParamStop)
  IN  CASE p.d # "" -> p
        [] Peek(p) \in ParamEnd -> Result(p, Node("params", <<>>, acc))
        [] OTHER -> Param(acc, p)

Function(p) ==
  LET name == Require(Skip(p), "IDENTIFIER")
      params == Go([r |-> "params", acc |-> <<>>], Require(name, "OPEN_PAREN"))
      head == ConsumeUntil(Require(params, "CLOSE_PAREN"),
                           {"SEMICOLON", "OPEN_BRACE", "CLOSE_BRACE", "ARROW"})
      type == IF Peek(head) = "ARROW" THEN Go(R("type"), Skip(head)) ELSE Result(head, None)
      body == IF Peek(type) = "SEMICOLON" THEN Result(Skip(type), None) ELSE BlockStatement(type)
  IN  IF params.d # "" THEN params
      ELSE Result(body, Node("fun", name.v.text, <<params.v, type.v, body.v>>))

\* The fields of a struct: a token that is no name is skipped with what follows.
Fields(acc, p) ==
  LET name == Take(p)
      type == Go(R("type"), Require(name, "COLON"))
  IN  CASE p.d # "" \/ Peek(p) \in {"CLOSE_BRACE", "END"} -> Result(p, acc)
        [] p.d = "" /\ Peek(p) \notin {"CLOSE_BRACE", "END"} /\ name.v.type # "IDENTIFIER" ->
             Go([r |-> "fields", acc |-> acc],
                ErrorUntil(name, {"IDENTIFIER", "SEMICOLON", "CLOSE_BRACE"}))
        [] OTHER -> Go([r |-> "fields", acc |-> Append(acc, Node("field", name.v.text, <<type.v>>))],
                       Require(type, "SEMICOLON"))

Struct(p) ==
  LET name == Require(Asserted(Skip(p), Ahead(p).as.type = "STRUCT"), "IDENTIFIER")
      fields == Go([r |-> "fields", acc |-> <<>>], Require(name, "OPEN_BRACE"))
  IN  IF Peek(name) = "SEMICOLON" THEN Result(Skip(name), Node("opaque", name.v.text, <<>>))
      ELSE Result(Require(fields, "CLOSE_BRACE"), Node("struct", name.v.text, fields.v))

Import(p) ==
  LET path == Require(Skip(p), "IDENTIFIER")
  IN  Result(Require(path, "SEMICOLON"), Node("import", path.v.text, <<>>))

\* Whatever starts no declaration is skipped, and is none.
Declaration(p) ==
  CASE Peek(p) = "IMPORT" -> Import(p)
    [] Peek(p) = "FUN" -> Function(p)
    [] Peek(p) = "STRUCT" -> Struct(p)
    [] OTHER -> Result(ErrorUntil(p, {"IMPORT", "FUN", "STRUCT", "CLOSE_BRACE"}), None)

Declarations(acc, p) ==
  LET q == Declaration(p)
      decls == IF q.v = None THEN acc ELSE Append(acc, q.v)
  IN  IF q.d # "" \/ Peek(q) = "END" THEN Result(q, decls)
      ELSE Go([r |-> "declarations", acc |-> decls], q)

Go(x, p) ==
  CASE x.r = "type" -> Type(p)
    [] x.r = "type suffix" -> TypeSuffix(p)
    [] x.r = "generic args" -> GenericArgs(x.acc, p)
    [] x.r = "assignment" -> Assignment(p)
    [] x.r = "binary" -> Binary(x.level, p)
    [] x.r = "binary rest" -> BinaryRest(x.level, p)
    [] x.r = "unary" -> Unary(p)
    [] x.r = "postfix" -> Postfix(p)
    [] x.r = "call args" -> CallArgs(x.acc, x.allowed, p)
    [] x.r = "statement" -> Statement(p)
    [] x.r = "block" -> Block(x.acc, p)
    [] x.r = "params" -> Params(x.acc, p)
    [] x.r = "fields" -> Fields(x.acc, p)
    [] x.r = "declarations" -> Declarations(x.acc, p)

\* parse(): the declarations of a text, the errors, and how the parser failed to
\* end ("" when it ended).
Start(ts) ==
  [ts |-> ts, i |-> 1, e |-> <<>>, v |-> None,
   d |-> IF ts[1].type = "UNDEFINED" THEN "crashes" ELSE ""]
Outcome(p) == [decls |-> p.v, errors |-> p.e, how |-> p.d]
Parse(s) == Outcome(Go([r |-> "declarations", acc |-> <<>>], Start(Tokens(s))))
=============================================================================
