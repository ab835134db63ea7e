------------------------- MODULE MCCompilerSession -------------------------
(***************************************************************************)
(* Programs and texts for the compiler: operators in every order, small    *)
(* programs of numbers, and texts with a word too few, too many or         *)
(* another.                                                                *)
(***************************************************************************)
EXTENDS CompilerSession

\* Trees, named as the kinds of their nodes are.
id(x) == Node("id", <<x>>, <<>>)
lit(x) == Node("lit", <<x>>, <<>>)
minus(x) == Node("lit", <<"-", x>>, <<>>)
type(x) == Node("type", <<x>>, <<>>)
bin(op, a, b) == Node("bin", op, <<a, b>>)
neg(a) == Node("un", <<"-">>, <<a>>)
not(a) == Node("un", <<"!">>, <<a>>)
call(f, args) == Node("call", <<>>, <<id(f)>> \o args)
cast(a, t) == Node("cast", <<>>, <<a, type(t)>>)
local(x, t, a) == Node("let", <<x>>, <<IF t = "" THEN None ELSE type(t), a>>)
expr(a) == Node("expr", <<>>, <<a>>)
assign(x, a) == expr(bin(<<"=">>, id(x), a))
ret(a) == Node("ret", <<>>, <<a>>)
block(statements) == Node("block", <<>>, statements)
arena(statements) == Node("arena", <<>>, <<block(statements)>>)
when(a, s) == Node("if", <<>>, <<a, s, None>>)
choose(a, s, t) == Node("if", <<>>, <<a, s, t>>)
loop(a, s) == Node("while", <<>>, <<a, s>>)
params(types) == Node("params", <<>>, types)
param(x, t) == Node("param", <<x>>, <<type(t)>>)
fun(f, ps, t, body) == Node("fun", <<f>>, <<params(ps), IF t = "" THEN None ELSE type(t), body>>)

Outer == fun("g", <<param("a", "int")>>, "int", None)
Main(statements) == fun("main", <<>>, "int", block(statements))

-----------------------------------------------------------------------------
\* Operators: each in front of and behind each other one.
SomeOps ==
  {<<"*">>, <<"%">>, <<"+">>, <<"-">>, <<"<", "<">>, <<"<">>, <<"=", "=">>, <<"&">>, <<"|">>,
   <<"&", "&">>, <<"|", "|">>, <<"=">>, <<"+", "=">>}

OperatorTrees ==
  LET a == id("a")
      b == id("b")
      c == id("c")
  IN  UNION {{bin(o, bin(p, a, b), c), bin(o, a, bin(p, b, c))} : o, p \in SomeOps}
      \cup UNION {{bin(o, neg(a), neg(b)), neg(bin(o, a, b)), cast(bin(o, a, b), "int"),
                   bin(o, a, cast(b, "int")), call("f", <<bin(o, a, b), b, c>>)} : o \in SomeOps}
      \cup {neg(cast(a, "int")), cast(neg(a), "int"), neg(neg(a)), not(neg(a)), neg(minus("3"))}

OperatorPrograms ==
  {<<fun("f", <<param("a", "int"), param("b", "int"), param("c", "int")>>, "",
         block(<<expr(tree)>>))>> : tree \in OperatorTrees}

-----------------------------------------------------------------------------
\* One operation on two numbers, of either type and at the ends of its range.
Pairs ==
  {<<"int", x, y>> : x \in {minus("4"), minus("3"), lit("2")}, y \in {minus("1"), lit("0"), lit("3")}}
  \cup {<<"uint", x, y>> : x \in {lit("1"), lit("5"), lit("7")}, y \in {lit("0"), lit("2"), lit("6")}}

Yields(op, a) == IF op \in Arithmetic THEN <<ret(cast(a, "int"))>> ELSE <<when(a, ret(lit("1"))), ret(lit("0"))>>

CalculationPrograms ==
  {<<Main(<<local("x", pair[1], pair[2]), local("y", pair[1], pair[3])>>
            \o Yields(op, bin(op, id("x"), id("y"))))>> :
     pair \in Pairs, op \in Arithmetic \cup Relations \cup Equalities}

-----------------------------------------------------------------------------
\* Two statements one behind the other, and what is left in x.
Statements ==
  LET x == id("x")
      y == id("y")
      less == bin(<<"<">>, x, lit("3"))
      same == bin(<<"=", "=">>, x, y)
      count == assign("x", bin(<<"+">>, x, lit("1")))
  IN  {count,
       assign("y", call("g", <<x>>)),
       assign("x", bin(<<"=">>, y, lit("2"))),
       local("x", "int", bin(<<"-">>, y, lit("2"))),
       local("z", "", same),
       local("y", "bool", bin(<<"<">>, x, y)),
       block(<<local("x", "int", lit("2")), assign("y", x)>>),
       when(less, local("x", "int", y)),
       when(same, ret(y)),
       when(not(less), count),
       when(x, count),
       choose(less, count, ret(y)),
       loop(less, count),
       loop(less, block(<<local("y", "int", lit("1")), assign("x", bin(<<"+">>, x, y))>>)),
       loop(same, ret(lit("2"))),
       loop(less, local("y", "", lit("1"))),
       arena(<<count>>),
       ret(same),
       expr(call("g", <<bin(<<"*">>, y, neg(x))>>))}

StatementPrograms ==
  {<<Outer, Main(<<local("x", t, lit("1")), local("y", t, lit("3")), s1, s2, ret(id("x"))>>)>> :
     t \in {"int", "uint"}, s1 \in Statements, s2 \in Statements}

-----------------------------------------------------------------------------
\* Functions of the program's own.
Half == fun("p", <<param("n", "int")>>, "int",
            block(<<when(bin(<<"<">>, id("n"), lit("1")), ret(lit("0"))),
                    ret(bin(<<"+">>, lit("1"), call("p", <<bin(<<"-">>, id("n"), lit("2"))>>)))>>))
Shows == fun("v", <<param("n", "uint"), param("b", "bool")>>, "",
             block(<<when(id("b"), expr(call("g", <<cast(id("n"), "int")>>)))>>))
Loops == fun("p", <<param("n", "int")>>, "int",
             block(<<loop(bin(<<"<">>, id("n"), lit("3")), ret(id("n")))>>))
Turned == fun("p", <<param("n", "int")>>, "uint", block(<<ret(neg(id("n")))>>))

Functions ==
  LET p == call("p", <<lit("3")>>)
  IN  {<<Outer, Half, Main(<<ret(p)>>)>>,
       <<Outer, Main(<<ret(p)>>), Half>>,
       <<Outer, Half, Main(<<local("p", "int", lit("1")), ret(id("p"))>>)>>,
       <<Outer, Half, Main(<<local("x", "", id("p")), ret(lit("1"))>>)>>,
       <<Outer, Half, Main(<<ret(call("p", <<>>))>>)>>,
       <<Outer, Half, Main(<<ret(call("p", <<p>>)), ret(id("p"))>>)>>,
       <<Outer, Half, Main(<<local("x", "int", id("x")), ret(id("x"))>>)>>,
       <<Outer, Half, Main(<<local("x", "int", None), assign("x", p), ret(id("x"))>>)>>,
       <<Outer, Shows, Main(<<expr(call("v", <<lit("7"), lit("true")>>)), ret(lit("1"))>>)>>,
       <<Outer, Shows, Main(<<ret(call("v", <<lit("7"), lit("true")>>))>>)>>,
       <<Outer, Shows, Main(<<local("x", "", call("v", <<lit("2"), lit("false")>>)), ret(lit("1"))>>)>>,
       <<Outer, Loops, Main(<<ret(p)>>)>>,
       <<Outer, Turned, Main(<<ret(cast(p, "int"))>>)>>,
       <<Outer, Turned, Main(<<when(bin(<<"<">>, p, cast(lit("1"), "uint")), ret(lit("1"))), ret(lit("2"))>>)>>,
       <<Outer, Main(<<assign("y", lit("1")), ret(id("x"))>>)>>,
       <<Outer, Main(<<local("x", "T", lit("1")), ret(lit("1"))>>)>>,
       <<Outer, Main(<<local("x", "bool", lit("true")), ret(cast(id("x"), "int"))>>)>>,
       <<Outer, Main(<<local("x", "uint", cast(lit("true"), "uint")), ret(cast(cast(id("x"), "bool"), "int"))>>)>>,
       <<Outer, Main(<<expr(call("g", <<lit("1")>>))>>)>>}

-----------------------------------------------------------------------------
\* Texts with one word left out, put in, or in the place of another.
Seed ==
  <<Node("struct", <<"S">>, <<Node("field", <<"m">>, <<Node("ptr", <<>>, <<type("int")>>)>>)>>),
    fun("f", <<param("a", "int"),
               Node("param", <<"b">>, <<Node("type", <<"A">>, <<type("S")>>)>>)>>, "int",
        block(<<local("x", "int", Node("index", <<>>, <<call("f", <<id("a"), id("b")>>), lit("1")>>)),
                loop(id("x"), expr(Node("member", <<"m">>, <<id("b")>>))),
                ret(id("x"))>>))>>

Damaged(words) ==
  LET at(i, middle) == SubSeq(words, 1, i - 1) \o middle
      odd == {<<")">>, <<"}">>, <<"fun">>, <<"y">>, <<"(">>}
  IN  {at(i, SubSeq(words, i + 1, Len(words))) : i \in DOMAIN words}
      \cup {at(i, <<w>> \o SubSeq(words, i + 1, Len(words))) : i \in DOMAIN words, w \in odd}
      \cup {at(i, <<w>> \o SubSeq(words, i, Len(words))) : i \in DOMAIN words, w \in odd}
      \cup {SubSeq(words, 1, i) : i \in 1..Len(words)}

DamagedTexts == {TextOf(words) : words \in Damaged(ProgramWords(Seed))}

-----------------------------------------------------------------------------
\* A statement that is commented out, with a comment or two in it, behind
\* any word of a program.
Opening == <<<<"/", "*">>>>
Closing == <<<<"*", "/">>>>
ClosingOpening == <<<<"*", "/", "/", "*">>>>

InnerComments ==
  {Opening \o W("one") \o Closing,
   Opening \o W("one") \o ClosingOpening \o W("two") \o Closing}

CommentTexts ==
  LET words == ProgramWords(<<fun("f", <<param("a", "int")>>, "int", block(<<ret(id("a"))>>))>>)
      out == Words(ret(id("b")))
  IN  {TextOf(SubSeq(words, 1, i) \o Opening \o out \o inner \o Closing
                \o SubSeq(words, i + 1, Len(words))) :
         i \in DOMAIN words, inner \in InnerComments}

-----------------------------------------------------------------------------
\* A return in a loop, with and without braces, and a statement behind it.
LoopPrograms ==
  LET less == bin(<<"<">>, id("x"), lit("3"))
  IN  {<<Outer, Main(<<local("x", "int", lit("1")), loop(less, body), ret(id("x"))>>)>> :
         body \in {ret(lit("2")), block(<<ret(id("x"))>>)}}

-----------------------------------------------------------------------------
\* A file that is changed: programs that run, that do not link, that return out
\* of a loop, that have an else, an error, and a text that the parser does not
\* end on.
Good == <<Outer, Main(<<ret(call("g", <<lit("1")>>))>>)>>
Better == <<Main(<<ret(lit("2"))>>)>>
Unlinked == <<fun("k", <<param("a", "int")>>, "int", None), Main(<<ret(call("k", <<lit("1")>>))>>)>>
Looping == <<Outer, Loops, Main(<<ret(call("p", <<lit("3")>>))>>)>>
Faulty == <<Main(<<ret(id("x"))>>)>>
Endless == TextOf(SubSeq(ProgramWords(Better), 1, 6))

MCEdited == {TextOf(ProgramWords(p)) : p \in {Good, Better, Unlinked, Looping, Faulty}} \cup {Endless}

MCPrograms ==
  OperatorPrograms \cup CalculationPrograms \cup StatementPrograms \cup Functions
    \cup {Seed, Good, Better, Unlinked, Looping, Faulty}
MCTexts == DamagedTexts \cup {Endless}
MCLibrary == {<<"g">>}
MCFiles == FilesOf(MCPrograms, MCTexts)
CommentFiles == FilesOf({}, CommentTexts)
LoopFiles == FilesOf(LoopPrograms, {})
NoTexts == {}
=============================================================================
