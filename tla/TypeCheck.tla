------------------------------ MODULE TypeCheck ------------------------------
(***************************************************************************)
(* The types of expressions and statements (types/typecheck.cpp): in which *)
(* context each operand is checked, and what the operator asks of it.      *)
(***************************************************************************)
EXTENDS Inference

CONSTANT InnerCheck(_, _)       \* Check, for the operands of an expression

\* A bug to find: an operation that was reported stays unsafe.
VerifySafetyOnce(tc, e) ==
    IF e.unsafe THEN [tc EXCEPT !.safety = "safe"]
    ELSE ReportUnless(tc.safety = "safe", tc, "unsafe")

\* verify_safety: the annotation of an expression covers its own operation.
VerifySafety(tc, e) ==
    [ReportUnless(tc.safety = "safe" \/ e.unsafe, tc, "unsafe") EXCEPT !.safety = "safe"]

\* resolve_child: what the child's context is in the end stays in the
\* result, the parent goes back to its own.
ResolveChild(tc, child, context) ==
    VerifySafety(InnerCheck([tc EXCEPT !.safety = "safe", !.context = context], child), child)

CheckVariable(tc, e) ==
    SetTypeInfo(ConstrainVariable(tc, e.name), LValue(tc.scope[e.name].lifetime))

CheckLiteral(tc) ==
    LET typed == SetTypeInfo(ConstrainIntLiteral(tc), RValue)
    IN  ReportUnless(typed.type \in {Integral, ErrorType}, typed, "not integral")

CheckAssignment(tc, e) ==
    LET left == ResolveChild(tc, e.left, Unconstrained)
        lvalue == ReportUnless(left.category.is = "lvalue", left, "assigns to rvalue")
        right == ResolveChild(lvalue, e.right, Context(left.type, "assignee"))
        checked == Require(Back(tc, right), left.type, right.type)
    IN  SetTypeInfo(Constrain(checked, left.type, "assignee"), RValue)

CheckDereference(tc, e) ==
    LET expected == IF tc.context.type = NoType THEN Unconstrained
                    ELSE Context(PointerTo(tc.context.type, Unsafe), "suggestion")
        operand == ResolveChild(tc, e.of, expected)
        reached == IF operand.context.type = NoType THEN Back(tc, operand)
                   ELSE ConstrainReached(Back(tc, operand),
                                         Dereference(operand.context.type),
                                         "cannot dereference")
        lifetime == PointedLifetime(operand.type)
    IN  SetTypeInfo(reached, IF lifetime = NoLifetime THEN RValue ELSE LValue(lifetime))

\* The operand is an assignee of what the context's pointer points to.
ExpectPointee(tc, context) ==
    IF context.type = NoType THEN [tc EXCEPT !.context = Unconstrained]
    ELSE ConstrainReached([tc EXCEPT !.context = Unconstrained],
                          Dereference(context.type), "cannot dereference")

\* The pointer is to the type that the operand's context has in the end.
PointTo(tc, operand) ==
    LET lvalue == operand.category.is = "lvalue"
        lifetime == IF lvalue THEN operand.category.lifetime ELSE Unsafe
        back == ReportUnless(lvalue, Back(tc, operand), "address of rvalue")
    IN  SetTypeInfo(IF operand.context.type = NoType THEN back
                    ELSE Constrain(back, PointerTo(operand.context.type, lifetime),
                                   "assignee"),
                    RValue)

CheckOperand(expected, e) == ResolveChild(expected, e, expected.context)

\* A bug to find: the operand is expected to be in the context of the address.
CheckAddressInPlace(tc, e) ==
    PointTo(tc, CheckOperand(IF tc.context.type = NoType THEN tc
                             ELSE ConstrainReached(tc, Dereference(tc.context.type),
                                                   "cannot dereference"),
                             e.of))

CheckAddress(tc, e) == PointTo(tc, CheckOperand(ExpectPointee(tc, tc.context), e.of))

CheckIndex(tc, e) ==
    LET expected == IF tc.context.type = NoType THEN Unconstrained
                    ELSE Context(ArrayOf(tc.context.type, 0), "suggestion")
        base == ResolveChild(tc, e.base, expected)
        reached == IF base.context.type = NoType THEN Back(tc, base)
                   ELSE ConstrainReached(Back(tc, base), IndexInto(base.context.type),
                                         "cannot index")
        offset == ResolveChild(reached, e.offset, Context(Integral, "suggestion"))
        checked == ReportUnless(offset.type = Integral, Back(reached, offset), "offset")
        lifetime == PointedLifetime(base.type)
    IN  SetTypeInfo([checked EXCEPT !.safety = IF IsPointer(base.type) THEN "pointer index"
                                               ELSE @],
                    LValue(IF lifetime = NoLifetime THEN Unsafe ELSE lifetime))

IsInt(type) == type \in {Integral, ErrorType}

\* handle_bin_arithmetic_operation, with handle_bin_pointermath_operation
\* once one operand is a pointer.
CheckArithmetic(tc, e) ==
    LET left == ResolveChild(tc, e.left, Unconstrained)
        right == ResolveChild(left, e.right, Context(left.type, "suggestion"))
        types == {left.type, right.type}
        both == Back(tc, right)
        done == IF \E type \in types : IsPointer(type)
                THEN [both EXCEPT !.safety = "pointer math"] ELSE both
        equal == ReportUnless(left.type = right.type \/ ErrorType \in types, done,
                              "operands differ")
    IN  CASE \/ \A type \in types : IsInt(type)
             \/ /\ \E type \in types : IsPointer(type)
                /\ \A type \in types : IsPointer(type) \/ IsError(type) -> SetType(equal, left.type)
          [] IsPointer(left.type) /\ right.type = Integral -> SetType(done, left.type)
          [] IsPointer(right.type) /\ left.type = Integral -> SetType(done, right.type)
          [] OTHER -> SetType(Report(done, "not a number"), ErrorType)

\* No cast is refused.
CheckCast(tc, e) ==
    LET target == Constrain(tc, e.type, "assignee")
    IN  SetTypeInfo(Back(target, ResolveChild(target, e.of, Unconstrained)), RValue)

Check(tc, e) ==
    CASE e.op = "variable" -> CheckVariable(tc, e)
      [] e.op = "literal" -> CheckLiteral(tc)
      [] e.op = "=" -> CheckAssignment(tc, e)
      [] e.op = ".*" -> CheckDereference(tc, e)
      [] e.op = ".&" -> CheckAddress(tc, e)
      [] e.op = "[]" -> CheckIndex(tc, e)
      [] e.op = "+" -> CheckArithmetic(tc, e)
      [] e.op = "as" -> CheckCast(tc, e)

-----------------------------------------------------------------------------
(* Statements                                                              *)

\* typecheck_root
CheckRoot(tc, e) == VerifySafety(Check([tc EXCEPT !.safety = "safe"], e), e)

\* An expression statement; a return statement is checked no differently.
CheckExpression(scope, e) == CheckRoot(NewChecker(scope), e)

CheckLet(scope, x, e) ==
    LET tc == NewChecker(scope)
        known == IF scope[x].type = NoType THEN tc ELSE ConstrainVariable(tc, x)
    IN  ConstrainVariable(CheckRoot(known, e), x)

=============================================================================
