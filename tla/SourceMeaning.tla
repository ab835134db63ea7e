--------------------------- MODULE SourceMeaning ---------------------------
(***************************************************************************)
(* What a program of numbers means, said without the compiler: the program *)
(* is run on its syntax tree, by the names in it.  This is what the code   *)
(* that the compiler emits is compared with; it models no code.            *)
(*                                                                         *)
(* A number has a type: int and uint wrap around at their width, and a     *)
(* bool is a signed number of one bit, as the type table has it, so that   *)
(* true is -1.  A literal is of whatever type it meets.                    *)
(*                                                                         *)
(* A run is a record of                                                    *)
(*   scopes    what each name stands for, the innermost scope last,        *)
(*   value     the value of the expression that was looked at last,        *)
(*   how       running, returned, or undefined: a variable without a value *)
(*             is read, a division has no result, or the steps are over,   *)
(*   log       the calls of outside functions so far,                      *)
(*   odd       whether the run did one of the two things whose meaning the *)
(*             compiler has a different idea of: compare numbers without   *)
(*             sign of which exactly one has its first bit set, or go on   *)
(*             counting with the outcome of an == or != of numbers.        *)
(***************************************************************************)
EXTENDS MachineCode

\* What a variable without a value has: no value of a type is that large.
Unset == 2^Width

NumberOf(type, n) == [type |-> type, n |-> n]
Wrapped(type, n) ==
  LET bits == IF type = "bool" THEN 1 ELSE Width
      m == n % 2^bits
  IN  NumberOf(type, IF type # "uint" /\ m >= 2^(bits - 1) THEN m - 2^bits ELSE m)

\* As a type that is given: that of a variable, a parameter or an operand.
Taking(type, v) ==
  IF v.type = "literal" THEN Wrapped(IF type = "literal" THEN "int" ELSE type, v.n) ELSE v
Truth(holds) == NumberOf("bool", IF holds THEN -1 ELSE 0)
Verdict(holds) == NumberOf("verdict", IF holds THEN -1 ELSE 0)

RECURSIVE Do(_, _, _)

Lost(s) == [s EXCEPT !.how = "undefined"]
Gives(s, v) == [s EXCEPT !.value = v]

\* A verdict is good for a condition, and as a bool; elsewhere it is odd.
AsNumber(s) == [s EXCEPT !.odd = @ \/ s.value.type = "verdict"]

Innermost(s, name) == Max({i \in DOMAIN s.scopes : name \in DOMAIN s.scopes[i]})
InScope(s, n, program) ==
  LET q == Do(n, [s EXCEPT !.scopes = Append(@, <<>>)], program)
  IN  [q EXCEPT !.scopes = SubSeq(@, 1, Len(s.scopes))]

-----------------------------------------------------------------------------
\* Expressions.
DoBinary(op, a, b) ==
  LET type == IF a.type # "literal" THEN a.type
              ELSE IF b.type # "literal" THEN b.type ELSE "int"
      x == Taking(type, a).n
      y == Taking(type, b).n
  IN  CASE op = <<"+">> -> Wrapped(type, x + y)
        [] op = <<"-">> -> Wrapped(type, x - y)
        [] op = <<"*">> -> Wrapped(type, x * y)
        [] op = <<"/">> -> Wrapped(type, Quotient(x, y))
        [] op = <<"%">> -> Wrapped(type, Remainder(x, y))
        [] op = <<"<">> -> Truth(x < y)
        [] op = <<"<", "=">> -> Truth(x <= y)
        [] op = <<">">> -> Truth(x > y)
        [] op = <<">", "=">> -> Truth(x >= y)
        [] op \in Equalities ->
             LET holds == (x = y) = (op = <<"=", "=">>)
             IN  IF type = "bool" THEN Truth(holds) ELSE Verdict(holds)

NoResult(op, a, b) ==
  /\ op \in {<<"/">>, <<"%">>}
  /\ b.n = 0 \/ (b.n = -1 /\ a.n = -(2^(Width - 1)))

Puzzling(op, a, b) ==
  \/ op \in Relations /\ "uint" \in {a.type, b.type}
     /\ (a.n >= 2^(Width - 1)) # (b.n >= 2^(Width - 1))
  \/ op \notin Equalities /\ "verdict" \in {a.type, b.type}
  \/ (a.type = "verdict") # (b.type = "verdict")

DoOperator(n, s, program) ==
  LET left == Do(n.c[1], s, program)
      right == Do(n.c[2], left, program)
      a == left.value
      b == right.value
  IN  IF right.how # "running" THEN right
      ELSE IF NoResult(n.w, a, b) THEN Lost(right)
      ELSE Gives([right EXCEPT !.odd = @ \/ Puzzling(n.w, a, b)], DoBinary(n.w, a, b))

DoAssign(n, s, program) ==
  LET name == n.c[1].w
      right == Do(n.c[2], s, program)
      i == Innermost(s, name)
      v == Taking(s.scopes[i][name].type, right.value)
  IN  IF right.how # "running" THEN right
      ELSE Gives([AsNumber(right) EXCEPT !.scopes[i][name] = v], v)

DoName(n, s) ==
  LET v == s.scopes[Innermost(s, n.w)][n.w]
  IN  IF v.n = Unset THEN Lost(s) ELSE Gives(s, v)

\* The arguments from left to right; then the function, with scopes of its own.
RECURSIVE DoArgs(_, _, _, _)
DoArgs(rest, acc, s, program) ==
  IF rest = <<>> \/ s.how # "running" THEN [s |-> s, args |-> acc]
  ELSE LET q == Do(Head(rest), s, program)
       IN  DoArgs(Tail(rest), Append(acc, q.value), AsNumber(q), program)

DoCall(n, s, program) ==
  LET decl == program[CHOOSE i \in DOMAIN program : program[i].w = n.c[1].w]
      ret == IF decl.c[2] = None THEN "void" ELSE decl.c[2].w[1]
      q == DoArgs(Tail(n.c), <<>>, s, program)
      params == decl.c[1].c
      given == [i \in DOMAIN params |-> Taking(params[i].c[1].w[1], q.args[i])]
      frame == [name \in {params[i].w : i \in DOMAIN params} |->
                  given[CHOOSE i \in DOMAIN params : params[i].w = name]]
      inner == Do(decl.c[3], [q.s EXCEPT !.scopes = <<frame>>], program)
  IN  CASE q.s.how # "running" -> q.s
        [] q.s.how = "running" /\ decl.c[3] = None ->
             Gives([q.s EXCEPT !.log = Append(@, <<decl.w, [i \in DOMAIN given |->
                                                       given[i].n % 2^Width]>>)],
                   Wrapped(ret, given[1].n + 1))
        [] OTHER ->
             IF inner.how = "undefined" \/ (ret # "void" /\ inner.how # "returned")
             THEN [inner EXCEPT !.how = "undefined", !.scopes = q.s.scopes]
             ELSE Gives([inner EXCEPT !.how = "running", !.scopes = q.s.scopes],
                        IF ret = "void" THEN NumberOf("void", 0) ELSE Wrapped(ret, inner.value.n))

DoCast(n, s, program) ==
  LET q == Do(n.c[1], s, program)
      to == n.c[2].w[1]
  IN  IF q.how # "running" THEN q
      ELSE Gives([q EXCEPT !.odd = @ \/ (q.value.type = "verdict" /\ to # "bool")],
                 Wrapped(to, q.value.n))

DoNegative(n, s, program) ==
  LET q == AsNumber(Do(n.c[1], s, program))
  IN  IF q.how # "running" THEN q ELSE Gives(q, Wrapped("int", -q.value.n))

-----------------------------------------------------------------------------
\* Statements.
DoAll(statements, s, program) ==
  FoldLeft(LAMBDA q, statement : IF q.how = "running" THEN Do(statement, q, program) ELSE q,
           s, statements)

DoIf(n, s, program) ==
  LET q == Do(n.c[1], s, program)
  IN  CASE q.how # "running" -> q
        [] q.how = "running" /\ q.value.n # 0 -> InScope(q, n.c[2], program)
        [] OTHER -> IF n.c[3] = None THEN q ELSE InScope(q, n.c[3], program)

DoWhile(n, s, program) ==
  LET q == Do(n.c[1], s, program)
      body == InScope(q, n.c[2], program)
  IN  IF q.how # "running" \/ q.value.n = 0 THEN q
      ELSE IF body.how # "running" THEN body ELSE Do(n, body, program)

\* A variable is there, without a value, before its initializer is looked at.
DoLet(n, s, program) ==
  LET i == Len(s.scopes)
      declared(type, v) == [s EXCEPT !.scopes[i] = (n.w :> NumberOf(type, v)) @@ @]
      type == IF n.c[1] = None THEN "literal" ELSE n.c[1].w[1]
      q == Do(n.c[2], declared(type, Unset), program)
      v == Taking(type, q.value)
  IN  IF n.c[2] = None THEN declared(type, Unset)
      ELSE IF q.how # "running" THEN q
      ELSE [AsNumber(q) EXCEPT !.scopes[i] = (n.w :> v) @@ @]

DoReturn(n, s, program) ==
  LET q == AsNumber(Do(n.c[1], s, program))
  IN  IF q.how # "running" THEN q ELSE [q EXCEPT !.how = "returned"]

Do(n, s, program) ==
  IF s.steps = 0 THEN Lost(s)
  ELSE LET t == [s EXCEPT !.steps = @ - 1]
       IN  CASE n.k = "lit" ->
                  Gives(t, IF IsIntegerText(n.w) THEN NumberOf("literal", ValueOf(n.w))
                           ELSE Truth(n.w = <<"true">>))
             [] n.k = "id" -> DoName(n, t)
             [] n.k = "call" -> DoCall(n, t, program)
             [] n.k = "bin" -> IF n.w = <<"=">> THEN DoAssign(n, t, program)
                               ELSE DoOperator(n, t, program)
             [] n.k = "un" -> DoNegative(n, t, program)
             [] n.k = "cast" -> DoCast(n, t, program)
             [] n.k = "block" -> InScope(t, [n EXCEPT !.k = "all"], program)
             [] n.k = "all" -> DoAll(n.c, t, program)
             [] n.k = "if" -> DoIf(n, t, program)
             [] n.k = "while" -> DoWhile(n, t, program)
             [] n.k = "let" -> DoLet(n, t, program)
             [] n.k = "ret" -> DoReturn(n, t, program)
             [] n.k = "expr" -> Do(n.c[1], t, program)

\* The meaning of a program: what its function main does.
Meaning(decls, steps) ==
  LET main == decls[CHOOSE i \in DOMAIN decls : decls[i].k = "fun" /\ decls[i].w = <<"main">>]
      q == Do(main.c[3], [scopes |-> << <<>> >>, value |-> NumberOf("void", 0),
                          how |-> "running", log |-> <<>>, odd |-> FALSE, steps |-> steps],
              decls)
  IN  [how |-> q.how, value |-> q.value, log |-> q.log, odd |-> q.odd]
=============================================================================
