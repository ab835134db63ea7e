------------------------- MODULE CompilerReference -------------------------
(***************************************************************************)
(* What the parts of the compiler are held against, each said in another   *)
(* way than the code does it: the text of a tree, the scopes of names, the *)
(* programs the back end can do, and the place an offset is at.  The       *)
(* meaning of a program is in SourceMeaning.  None of this models code.    *)
(***************************************************************************)
EXTENDS SourceMeaning, SourcePositions

-----------------------------------------------------------------------------
\* The text of a tree, as words, with no more parentheses than it takes.  An
\* expression has a level: a tighter one stands where a looser one may.
OperatorLevel(op) ==
  CASE op \in {<<"*">>, <<"/">>, <<"%">>} -> 2
    [] op \in {<<"+">>, <<"-">>} -> 3
    [] op \in {<<"<", "<">>, <<">", ">">>} -> 4
    [] op \in Relations -> 5
    [] op \in Equalities -> 6
    [] op = <<"&">> -> 7
    [] op = <<"|">> -> 8
    [] op = <<"&", "&">> -> 9
    [] op = <<"|", "|">> -> 10
    [] OTHER -> 11

Level(n) == CASE n.k = "un" -> 1 [] n.k = "bin" -> OperatorLevel(n.w) [] OTHER -> 0

W(symbol) == << <<symbol>> >>
Separated(seqs) ==
  FlattenSeq([i \in DOMAIN seqs |-> IF i = 1 THEN seqs[i] ELSE W(",") \o seqs[i]])

RECURSIVE Words(_)
Within(n, level) ==
  IF Level(n) <= level THEN Words(n) ELSE W("(") \o Words(n) \o W(")")
WordsOf(nodes) == [i \in DOMAIN nodes |-> Words(nodes[i])]
Named(n) == IF n.w = <<>> THEN <<>> ELSE <<n.w>>

TypeWords(n) ==
  CASE n.k = "type" ->
         Named(n) \o (IF n.c = <<>> THEN <<>> ELSE W("<") \o Separated(WordsOf(n.c)) \o W(">"))
    [] n.k = "lifetime" -> W("*") \o Named(n)
    [] n.k = "ptr" -> Words(n.c[1]) \o W("*") \o Named(n)
    [] n.k = "array" -> Words(n.c[1]) \o W("[") \o Named(n) \o W("]")
    [] n.k = "const" -> Words(n.c[1]) \o W("const")

ExpressionWords(n) ==
  CASE n.k \in {"lit", "id"} -> Named(n)
    [] n.k \in {"dot", "member"} -> Within(n.c[1], 0) \o W(".") \o Named(n)
    [] n.k = "cast" ->
         Within(n.c[1], 0) \o W(".") \o W("as") \o W("(") \o Words(n.c[2]) \o W(")")
    [] n.k = "call" ->
         Within(n.c[1], 0) \o W("(") \o Separated(WordsOf(Tail(n.c))) \o W(")")
    [] n.k = "index" -> Within(n.c[1], 0) \o W("[") \o Words(n.c[2]) \o W("]")
    [] n.k = "un" -> Named(n) \o Within(n.c[1], 1)
    [] n.k = "bin" /\ Level(n) = 11 -> Within(n.c[1], 10) \o Named(n) \o Within(n.c[2], 11)
    [] n.k = "bin" /\ Level(n) # 11 ->
         Within(n.c[1], Level(n)) \o Named(n) \o Within(n.c[2], Level(n) - 1)

StatementWords(n) ==
  CASE n.k = "if" ->
         W("if") \o W("(") \o Words(n.c[1]) \o W(")") \o Words(n.c[2])
           \o (IF n.c[3] = None THEN <<>> ELSE W("else") \o Words(n.c[3]))
    [] n.k = "while" -> W("while") \o W("(") \o Words(n.c[1]) \o W(")") \o Words(n.c[2])
    [] n.k = "let" ->
         W("let") \o Named(n) \o (IF n.c[1] = None THEN <<>> ELSE W(":") \o Words(n.c[1]))
           \o (IF n.c[2] = None THEN <<>> ELSE W("=") \o Words(n.c[2])) \o W(";")
    [] n.k = "ret" -> W("ret") \o Words(n.c[1]) \o W(";")
    [] n.k = "block" -> W("{") \o FlattenSeq(WordsOf(n.c)) \o W("}")
    [] n.k = "arena" -> W("arena") \o Words(n.c[1])
    [] n.k = "expr" -> Words(n.c[1]) \o W(";")

DeclarationWords(n) ==
  CASE n.k \in {"param", "field"} -> Named(n) \o W(":") \o Words(n.c[1])
    [] n.k = "fun" ->
         LET dots == Named(n.c[1])
             params == WordsOf(n.c[1].c)
         IN  W("fun") \o Named(n) \o W("(")
               \o Separated(IF dots = <<>> THEN params ELSE Append(params, dots)) \o W(")")
               \o (IF n.c[2] = None THEN <<>> ELSE <<<<"-", ">">>>> \o Words(n.c[2]))
               \o (IF n.c[3] = None THEN W(";") ELSE Words(n.c[3]))
    [] n.k = "struct" ->
         W("struct") \o Named(n) \o W("{")
           \o FlattenSeq([i \in DOMAIN n.c |-> Words(n.c[i]) \o W(";")]) \o W("}")
    [] n.k = "opaque" -> W("struct") \o Named(n) \o W(";")
    [] n.k = "import" -> W("import") \o Named(n) \o W(";")

Words(n) ==
  CASE n.k \in {"type", "lifetime", "ptr", "array", "const"} -> TypeWords(n)
    [] n.k \in {"lit", "id", "dot", "member", "cast", "call", "index", "un", "bin"} ->
         ExpressionWords(n)
    [] n.k \in {"if", "while", "let", "ret", "block", "arena", "expr"} -> StatementWords(n)
    [] OTHER -> DeclarationWords(n)

ProgramWords(decls) == FlattenSeq([i \in DOMAIN decls |-> Words(decls[i])])

\* Words as a text: every word has a blank behind it, and the end of a line
\* where a statement ends or a block begins.
TextOf(words) ==
  FlattenSeq([i \in DOMAIN words |->
                words[i] \o (IF words[i] \in {<<";">>, <<"{">>} THEN <<"nl">> ELSE <<" ">>)])

\* The words that a tree cannot do without.  (A comma may stand behind the last
\* argument or parameter, and a parenthesis around anything.)
Unpunctuated(words) == SelectSeq(words, LAMBDA w : w \notin {<<"(">>, <<")">>, <<",">>})

-----------------------------------------------------------------------------
\* A text with blanks in the place of its comments.  A comment ends where as many
\* have been closed as were opened.
RECURSIVE Uncommented(_, _, _)
Uncommented(s, i, depth) ==
  LET pair == SubSeq(s, i, Min({i + 1, Len(s)}))
      opens == pair = <<"/", "*">>
      closes == depth > 0 /\ pair = <<"*", "/">>
  IN  CASE i > Len(s) -> <<>>
        [] i <= Len(s) /\ (opens \/ closes) ->
             <<" ", " ">> \o Uncommented(s, i + 2, IF opens THEN depth + 1 ELSE depth - 1)
        [] OTHER -> <<IF depth > 0 THEN " " ELSE s[i]>> \o Uncommented(s, i + 1, depth)

-----------------------------------------------------------------------------
\* Where an offset is: the ends of lines in front of it, and the symbols behind
\* the last of them.
PlaceOf(s, offset) ==
  LET ends == {i \in 1..offset : s[i] = "nl"}
  IN  [line |-> Cardinality(ends),
       column |-> offset - (IF ends = {} THEN 0 ELSE Max(ends))]

-----------------------------------------------------------------------------
\* Scopes by places in the tree.  A place is the path to a node; the list has
\* the nodes in the order of the text, each with the place of its scope: a
\* function, a block, the branch of an if or the body of a loop.
ScopeUnder(path, scope, n, i) ==
  CASE n.k = "if" /\ i \in {2, 3} -> Append(path, i)
    [] n.k = "while" /\ i = 2 -> Append(path, i)
    [] n.k \in {"fun", "block"} -> path
    [] OTHER -> scope

RECURSIVE NodesUnder(_, _, _)
NodesUnder(path, scope, n) ==
  <<[path |-> path, scope |-> scope, n |-> n]>>
    \o FlattenSeq([i \in DOMAIN n.c |->
                     NodesUnder(Append(path, i), ScopeUnder(path, scope, n, i), n.c[i])])

\* The declaration that a name at the i-th place is bound to: the last one in
\* front of it whose scope the place is in; 0 if there is none.
BindingOf(list, i) ==
  Max({0} \cup {j \in 1..(i - 1) : /\ list[j].n.k \in {"let", "param"}
                                   /\ list[j].n.w = list[i].n.w
                                   /\ IsPrefix(list[j].scope, list[i].path)})

\* What the id at the i-th place must be resolved to.
InfoOf(list, functions, i) ==
  LET binding == BindingOf(list, i)
      function == list[i].n.w \in functions
  IN  CASE binding # 0 /\ ~function -> list[binding].n.x
        [] binding = 0 /\ function -> FunctionInfo(list[i].n.w)
        [] OTHER -> Unresolved

NamesBound(list, functions) ==
  \A i \in DOMAIN list : list[i].n.k = "id" => list[i].n.x = InfoOf(list, functions, i)
NamesUnbound(list) ==
  Cardinality({i \in DOMAIN list : list[i].n.k = "id" /\ list[i].n.x = Unresolved})

-----------------------------------------------------------------------------
\* What the back end can do, by the typed tree of a function.

\* Control never comes out of the statement.  There is no way to say of an if
\* with two branches that it compiles at all.
RECURSIVE Exits(_)
Exits(n) ==
  CASE n.k = "ret" -> TRUE
    [] n.k = "block" -> \E i \in DOMAIN n.c : Exits(n.c[i])
    [] OTHER -> FALSE

\* The nodes of a statement or expression that code is emitted for.
RECURSIVE Reached(_)
Reached(n) ==
  LET first == IF n.k = "call" THEN 2 ELSE 1
      last == IF n.k = "block" /\ Exits(n) THEN Min({i \in DOMAIN n.c : Exits(n.c[i])})
              ELSE Len(n.c)
  IN  {n} \cup UNION {Reached(n.c[i]) : i \in {i \in first..last : n.c[i] # Bare}}

\* Without a counterpart in the back end: an else, an arena block, the operators
\* left out, a function that is no callee, a callee that is declared later, and
\* the value of a function that returns none.
Operators == Arithmetic \cup Relations \cup Equalities \cup {<<"=">>}

\* The children of a node whose values are used.
Used(n) ==
  CASE n.k \in {"let", "bin", "un"} -> DOMAIN n.c
    [] n.k \in {"if", "while"} -> {1}
    [] n.k = "call" -> 2..Len(n.c)
    [] OTHER -> {}

Unsupported(n, declared) ==
  \/ n.k \in {"none", "arena"}
  \/ n.k = "un" /\ n.w = <<"!">>
  \/ n.k = "bin" /\ n.w \notin Operators
  \/ n.k = "id" /\ n.x.is # "variable"
  \/ n.k = "call" /\ n.c[1].x.name \notin declared
  \/ n.k = "cast" /\ n.t # n.c[1].t /\ Void \in {n.t, n.c[1].t}
  \/ \E i \in Used(n) : n.c[i] # Bare /\ n.c[i].t = Void

\* How wide the value of an expression is in the code: an == or != is a bit,
\* whatever type it has been given, and stays one until it is stored.
RECURSIVE Carries(_)
Carries(n) ==
  CASE n.k = "bin" /\ n.w \in Relations \cup Equalities -> "bit"
    [] n.k = "bin" /\ n.w \in Arithmetic -> Carries(n.c[1])
    [] n.k = "bin" /\ n.w = <<"=">> -> Carries(n.c[2])
    [] n.k = "un" -> Carries(n.c[1])
    [] n.k = "cast" /\ LlvmType(n.t) = LlvmType(n.c[1].t) -> Carries(n.c[1])
    [] OTHER -> LlvmType(n.t)

\* A node that the verifier takes: a condition is a bit, and a value has the
\* width of what it meets.
Sound(n, ret, signatures) ==
  CASE n.k \in {"if", "while"} -> Carries(n.c[1]) = "bit"
    [] n.k = "bin" /\ n.w # <<"=">> -> Carries(n.c[1]) = Carries(n.c[2])
    [] n.k = "ret" -> Carries(n.c[1]) = LlvmType(ret)
    [] n.k = "call" ->
         LET params == signatures[n.c[1].x.name].params
         IN  \A i \in DOMAIN params : Carries(n.c[i + 1]) = LlvmType(params[i])
    [] OTHER -> TRUE

Bodies(decls) == {i \in DOMAIN decls : decls[i].k = "fun" /\ decls[i].c[2] # Bare}

Emittable(decls) ==
  \A i \in Bodies(decls) : \A n \in Reached(decls[i].c[2]) :
    ~Unsupported(n, NamesOf(SubSeq(decls, 1, i), {"fun"}))

Verifiable(decls, signatures) ==
  \A i \in Bodies(decls) :
    LET ret == signatures[decls[i].w].ret
    IN  /\ ret = Void \/ Exits(decls[i].c[2])
        /\ \A n \in Reached(decls[i].c[2]) : Sound(n, ret, signatures)

\* Control never comes out of the body of a loop.
LoopsReturn(decls) ==
  \E i \in Bodies(decls) : \E n \in Reached(decls[i].c[2]) :
    n.k = "while" /\ Exits(n.c[2])
=============================================================================
