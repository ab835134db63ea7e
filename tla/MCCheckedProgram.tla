-------------------------- MODULE MCCheckedProgram --------------------------
(* Programs of an outer scope and one in it: values in both, a pointer in  *)
(* each, and pointers to pointers.                                         *)
EXTENDS CheckedProgram

\* The constants Inner... stand for the operators themselves.  The LET is for
\* TLC, which follows a definition when it prepares to count what it costs,
\* but only up to there.
MCStrict(type) == LET inner == IsStrict(type) IN inner
MCDereference(type) == LET inner == Dereference(type) IN inner
MCIndexInto(type) == LET inner == IndexInto(type) IN inner
MCLifetime(type) == LET inner == PointedLifetime(type) IN inner
MCAssignable(l, r, c) == LET inner == RequireAssignable(l, r, c) IN inner
MCCheck(tc, e) == LET inner == Check(tc, e) IN inner
MCShape(type) == LET inner == Shape(type) IN inner
MCSame(to, own) == LET inner == SameUpToConst(to, own) IN inner
MCUnmarked(declared, e) == LET inner == UnsafeUnmarked(declared, e) IN inner

MCVariables == <<"x", "p", "s", "y", "r">>

\* "new" is a name for the variable of InferredFits.
MCLifetimeOf(x) == IF x \in {"x", "p"} THEN 0 ELSE 1

PointersTo(S) == {PointerTo(type, l) : type \in S, l \in Lifetimes}
WithConst(S) == S \cup {ConstOf(type) : type \in S}

Values == WithConst({Integral})

\* The types with which pointers to pointers are declared in the inner scope.
Deep == {PointerTo(type, 1) : type \in PointersTo(Values)}

\* The same with a pointer that is itself const behind the first.
DeepConst == {PointerTo(ConstOf(PointerTo(type, 1)), 1) : type \in Values}

MCDeclarable(x) ==
    CASE x = "x" -> Values
      [] x = "y" -> {Integral}
      [] x = "p" -> PointersTo({Integral}) \cup {PointerTo(ConstOf(Integral), 0)}
                                           \cup {ConstOf(PointerTo(ConstOf(Integral), 0))}
      [] x = "r" -> Deep
      [] OTHER -> Deep \cup DeepConst \cup {PointerTo(type, 1) : type \in Values}
                       \cup {ConstOf(PointerTo(Integral, 1))}

AnyAssigned(type, declared, e) == TRUE

\* No const at all, and only lifetimes of scopes around the variable.
PlainDeclarable(x) ==
    LET surrounding == {l \in Lifetimes : l <= MCLifetimeOf(x)}
        To(S) == {PointerTo(type, l) : type \in S, l \in surrounding}
    IN  CASE x \in {"x", "y"} -> {Integral}
          [] x = "p" -> To({Integral})
          [] OTHER -> To(To({Integral}))

\* One lifetime, and no variable, nor what a pointer points to, is const but
\* for a plain value.
FlatDeclarable(x) ==
    LET To(S) == {PointerTo(type, 1) : type \in S}
    IN  CASE x = "x" -> {ConstOf(Integral)}
          [] x = "y" -> {Integral}
          [] x = "p" -> To({Integral})
          [] OTHER -> To(To(Values))

\* The address of a variable is taken of exactly the type that is expected.
ExactAddresses(type, declared, e) ==
    e.op = ".&" => Dereference(type) = CheckExpression(Scope(declared), e.of).type
=============================================================================
