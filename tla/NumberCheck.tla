---------------------------- MODULE NumberCheck ----------------------------
(***************************************************************************)
(* The type checker on programs of numbers (types/typecheck.cpp): the      *)
(* operators, calls and statements that TypeCheck, which is about          *)
(* pointers, leaves out.  It goes over resolved trees and gives every      *)
(* expression its type.  Contexts and what constrains them are those of    *)
(* TypeCheck; the checker has more parts,                                  *)
(*   signatures   what each function takes and returns,                    *)
(*   known        the names of types,                                      *)
(*   throws       whether the code has thrown an exception,                *)
(*   v            the typed node that was made last.                       *)
(***************************************************************************)
EXTENDS NameResolution, Integers

CONSTANT Width          \* bound: the bits of an int and of a uint, 32 in the code

ASSUME WidthAssumption == Width \in 2..8

\* There is no type inside the type of a number.
NothingInside(type) == FALSE
NothingAssignable(lhs, rhs, context) == FALSE

T == INSTANCE Inference WITH
       Unsafe <- "unsafe", NoLifetime <- "no lifetime", InnerStrict <- NothingInside,
       InnerDereference <- NothingInside, InnerIndexInto <- NothingInside,
       InnerLifetime <- NothingInside, InnerAssignable <- NothingAssignable

Number == [is |-> "int"]
Unsigned == [is |-> "uint"]
Bool == [is |-> "bool"]
Void == [is |-> "void"]

\* TypeTable::get_type.  Pointers, arrays and const types are not told apart.
TypeOf(symbol, known) ==
  CASE symbol = None -> T!NoType
    [] symbol # None /\ NamedIn(symbol) \notin known -> T!ErrorType
    [] symbol # None /\ NamedIn(symbol) \in known /\ symbol.k = "type" ->
         [is |-> symbol.w[1]]
    [] OTHER -> [is |-> "compound"]

IsInteger(type) == type \in {Number, Unsigned, T!ErrorType}

Values(type) ==
  IF type = Unsigned THEN 0 .. 2^Width - 1 ELSE -(2^(Width - 1)) .. 2^(Width - 1) - 1

DigitOf == [d \in Digits |-> CHOOSE n \in 0..9 : ToString(n) = d]
IsIntegerText(w) == \A i \in DOMAIN w : w[i] \in Digits \/ (i = 1 /\ w[i] = "-" /\ Len(w) > 1)
ValueOf(w) ==
  LET n == FoldLeft(LAMBDA m, d : IF d = "-" THEN m ELSE 10 * m + DigitOf[d], 0, w)
  IN  IF w[1] = "-" THEN -n ELSE n

Typed(n, type, children) == [k |-> n.k, w |-> n.w, c |-> children, x |-> n.x, t |-> type]
BareTyped == Typed(Bare, T!NoType, <<>>)

-----------------------------------------------------------------------------
RECURSIVE Check(_, _)

CheckList(acc, rest, tc) ==
  IF rest = <<>> THEN Result(tc, acc)
  ELSE LET head == Check(Head(rest), tc)
       IN  Check([k |-> "list", acc |-> Append(acc, head.v), rest |-> Tail(rest)], head)

\* An expression in a context of its own; Back goes back to the parent's.
In(context, tc, n) == Check(n, [tc EXCEPT !.context = context])

Made(n, children, tc) == Result(tc, Typed(n, tc.type, children))
Throw(n, tc) == [Result(tc, Typed(n, T!NoType, <<>>)) EXCEPT !.throws = TRUE]
Wrong(n, children, tc, error) ==
  Made(n, children, T!SetType(T!Report(tc, error), T!ErrorType))

-----------------------------------------------------------------------------
\* Expressions.
CheckId(n, tc) ==
  Made(n, <<>>,
       IF n.x.is = "variable"
       THEN T!SetTypeInfo(T!ConstrainVariable(tc, n.x.id), T!LValue("stack"))
       ELSE T!SetTypeInfo(T!Constrain(tc, T!ErrorType, "assignee"), T!RValue))

\* constrain_int_literal
ConstrainLiteral(tc) ==
  CASE tc.context.type = T!NoType -> T!Constrain(tc, Number, "suggestion")
    [] tc.context.kind = "suggestion" /\ ~IsInteger(tc.context.type)
       /\ tc.context.type # T!NoType -> [tc EXCEPT !.context.type = Number]
    [] OTHER -> tc

CheckInteger(n, tc) ==
  LET q == T!SetTypeInfo(ConstrainLiteral(tc), T!RValue)
  IN  CASE q.type = T!ErrorType -> Made(n, <<>>, q)
        [] q.type \in {Number, Unsigned} ->
             Made(n, <<>>, T!ReportUnless(ValueOf(n.w) \in Values(q.type), q, "E_T_LIT_OOR"))
        [] OTHER -> Made(n, <<>>, T!Report(q, "E_T_NOT_INTGL"))

\* A comment in the place of a literal has no value that the code knows.
CheckLiteral(n, tc) ==
  CASE n.w \in {<<"true">>, <<"false">>} -> Made(n, <<>>, T!SetType(tc, Bool))
    [] IsIntegerText(n.w) -> CheckInteger(n, tc)
    [] OTHER -> Throw(n, tc)

Arithmetic == {<<"+">>, <<"-">>, <<"*">>, <<"/">>, <<"%">>}
Bitwise == {<<"&">>, <<"|">>}
Relations == {<<"<">>, <<"<", "=">>, <<">">>, <<">", "=">>}
Equalities == {<<"=", "=">>, <<"!", "=">>}
Shifts == {<<"<", "<">>, <<">", ">">>}
Compound == {Append(op, "=") : op \in Arithmetic \cup Bitwise}
CompoundShifts == {Append(op, "=") : op \in Shifts}

CheckAssignment(n, tc) ==
  LET left == In(T!Unconstrained, tc, n.c[1])
      lvalue == T!ReportUnless(left.category.is = "lvalue", left, "E_T_ASGN_RV")
      right == In(T!Context(left.type, "assignee"), lvalue, n.c[2])
      checked == T!Require(T!Back(tc, right), left.type, right.type)
  IN  Made(n, <<left.v, right.v>>,
           T!SetTypeInfo(T!Constrain(checked, left.type, "assignee"), T!RValue))

\* What is asked of both operands once their types are known, and the type of
\* the result.
Operands(op, left, right) ==
  LET equal == T!ReportUnless(left.type = right.type \/ T!ErrorType \in {left.type, right.type},
                              right, "E_T_BIN_MIS")
      integers == IsInteger(left.type) /\ IsInteger(right.type)
  IN  CASE op \in Equalities -> T!SetType(equal, left.type)
        [] op \in Relations /\ integers -> T!SetType(equal, Bool)
        [] op \in Arithmetic \cup Bitwise /\ integers -> T!SetType(equal, left.type)
        [] op \in Shifts \cup CompoundShifts /\ integers ->
             T!SetType(T!Constrain(right, left.type, "assignee"), left.type)
        [] op \in Compound -> T!SetTypeInfo(T!Constrain(right, left.type, "assignee"), T!RValue)
        [] OTHER -> T!SetType(T!Report(right, "E_T_NOT_NUM"), T!ErrorType)

\* The right operand is suggested the type of the left one.
CheckBinary(n, tc) ==
  LET left == In(T!Unconstrained, tc, n.c[1])
      right == In(T!Context(left.type, "suggestion"), left, n.c[2])
      done == Operands(n.w, left, T!Back(tc, right))
      assigns == n.w \in Compound \cup CompoundShifts
  IN  CASE n.w = <<"=">> -> CheckAssignment(n, tc)
        [] n.w \in Arithmetic \cup Bitwise \cup Relations \cup Equalities \cup Shifts
                   \cup Compound \cup CompoundShifts ->
             Made(n, <<left.v, right.v>>,
                  T!ReportUnless(~assigns \/ left.category.is = "lvalue", done, "E_T_ASGN_RV"))
        [] OTHER -> Throw(n, tc)

CheckUnary(n, tc) ==
  LET not == T!Constrain(tc, Bool, "assignee")
      negated == In(T!Context(Bool, "assignee"), not, n.c[1])
      operand == In(T!Unconstrained, tc, n.c[1])
      back == T!Back(tc, operand)
  IN  CASE n.w = <<"!">> ->
             Made(n, <<negated.v>>, T!SetTypeInfo(T!Back(not, negated), T!RValue))
        [] n.w = <<"-">> /\ operand.type \in {Number, Unsigned} ->
             Made(n, <<operand.v>>,
                  T!SetTypeInfo(T!Constrain(back, Number, "assignee"), T!RValue))
        [] n.w = <<"-">> /\ operand.type \notin {Number, Unsigned} ->
             Wrong(n, <<operand.v>>, back, "E_T_CANT_INTNEG")
        [] OTHER -> Throw(n, tc)

\* One argument behind the other, each an assignee of its parameter.
CheckArgs(acc, rest, types, tc) ==
  IF rest = <<>> THEN Result(tc, acc)
  ELSE LET context == IF types = <<>> THEN T!Unconstrained ELSE T!Context(Head(types), "assignee")
           head == In(context, tc, Head(rest))
       IN  Check([k |-> "args", acc |-> Append(acc, head.v), rest |-> Tail(rest),
                  types |-> IF types = <<>> THEN <<>> ELSE Tail(types)], T!Back(tc, head))

CheckCall(n, tc) ==
  LET callee == n.c[1]
      signature == tc.signatures[callee.x.name]
      count == Len(n.c) - 1
      args == Check([k |-> "args", acc |-> <<BareTyped>>, rest |-> Tail(n.c),
                     types |-> signature.params], tc)
      children == <<Typed(callee, T!NoType, <<>>)>> \o Tail(args.v)
  IN  CASE callee.x.is = "unresolved" -> Made(n, <<>>, T!SetType(tc, T!ErrorType))
        [] callee.x.is = "variable" -> Wrong(n, <<>>, tc, "E_R_UNKN_FUNC")
        [] callee.x.is = "function" /\ count # Len(signature.params)
           /\ ~(signature.variadic /\ count > Len(signature.params)) ->
             Wrong(n, <<>>, tc, "E_T_CALL_WRG_ARGC")
        [] OTHER -> Made(n, children, T!SetTypeInfo(T!Constrain(args, signature.ret, "assignee"),
                                                    T!RValue))

CheckCast(n, tc) ==
  LET target == T!Constrain(tc, TypeOf(n.c[2], tc.known), "assignee")
      operand == In(T!Unconstrained, target, n.c[1])
  IN  Made(n, <<operand.v>>, T!SetTypeInfo(T!Back(target, operand), T!RValue))

-----------------------------------------------------------------------------
\* Statements.
Root(n, tc) == In(T!Unconstrained, tc, n)

\* The copy of an else branch is made and left empty (transform_if_else).
CheckIf(n, tc) ==
  LET condition == Root(n.c[1], tc)
      then == Check(n.c[2], condition)
  IN  Result(then, Typed(n, T!NoType, <<condition.v, then.v,
                                        IF n.c[3] = Bare THEN Bare ELSE BareTyped>>))

CheckWhile(n, tc) ==
  LET condition == Root(n.c[1], tc)
      body == Check(n.c[2], condition)
  IN  Result(body, Typed(n, T!NoType, <<condition.v, body.v>>))

CheckLet(n, tc) ==
  LET x == n.x.id
      fresh == [tc EXCEPT !.context = T!Unconstrained]
      known == IF tc.scope[x].type = T!NoType THEN fresh ELSE T!ConstrainVariable(fresh, x)
      init == Check(n.c[2], known)
  IN  IF n.c[2] = Bare THEN Result(tc, Typed(n, T!NoType, <<Bare>>))
      ELSE Result(T!ConstrainVariable(init, x), Typed(n, T!NoType, <<init.v>>))

CheckSimple(n, tc) ==
  LET value == Root(n.c[1], tc) IN Result(value, Typed(n, T!NoType, <<value.v>>))

CheckBlock(n, tc) ==
  LET q == Check([k |-> "list", acc |-> <<>>, rest |-> n.c], tc)
  IN  Result(q, Typed(n, T!NoType, q.v))

CheckFunction(n, tc) ==
  LET body == IF n.c[3] = Bare THEN Result(tc, Bare) ELSE Check(n.c[3], tc)
  IN  Result(body, Typed(n, T!NoType, <<n.c[1], body.v>>))

Check(n, tc) ==
  CASE n.k = "list" -> CheckList(n.acc, n.rest, tc)
    [] n.k = "args" -> CheckArgs(n.acc, n.rest, n.types, tc)
    [] n.k = "id" -> CheckId(n, tc)
    [] n.k = "lit" -> CheckLiteral(n, tc)
    [] n.k = "bin" -> CheckBinary(n, tc)
    [] n.k = "un" -> CheckUnary(n, tc)
    [] n.k = "call" -> CheckCall(n, tc)
    [] n.k = "cast" -> CheckCast(n, tc)
    [] n.k = "if" -> CheckIf(n, tc)
    [] n.k = "while" -> CheckWhile(n, tc)
    [] n.k = "let" -> CheckLet(n, tc)
    [] n.k \in {"ret", "expr"} -> CheckSimple(n, tc)
    [] n.k \in {"block", "arena"} -> CheckBlock(n, tc)
    [] n.k = "fun" -> CheckFunction(n, tc)

-----------------------------------------------------------------------------
\* The function table: what the declaration of a function says.
Signature(decl, known) ==
  [params |-> [i \in DOMAIN decl.c[1].c |-> TypeOf(decl.c[1].c[i].c[1], known)],
   variadic |-> decl.c[1].w # <<>>,
   ret |-> IF decl.c[2] = None THEN Void ELSE TypeOf(decl.c[2], known)]

Signatures(decls, known) ==
  [name \in NamesOf(decls, {"fun"}) |->
     Signature(decls[CHOOSE i \in DOMAIN decls : decls[i].k = "fun" /\ decls[i].w = name], known)]

\* TypeChecker::type_check, on what Resolve returns.
TypeChecked(resolved) ==
  LET known == resolved.types \cup {<<"void">>}
      scope == [x \in DOMAIN resolved.vars |->
                  [type |-> TypeOf(resolved.vars[x].type, known), lifetime |-> "stack"]]
      tc == Check([k |-> "list", acc |-> <<>>, rest |-> resolved.decls],
                  T!NewChecker(scope) @@ [signatures |-> Signatures(resolved.decls, known),
                                          known |-> known, throws |-> FALSE, v |-> None])
  IN  [decls |-> tc.v, types |-> [x \in DOMAIN scope |-> tc.scope[x].type],
       errors |-> tc.errors, throws |-> tc.throws]
=============================================================================
