------------------------------ MODULE Inference ------------------------------
(***************************************************************************)
(* Inference contexts (types/inference.cpp).  Types are inferred in both   *)
(* directions: every expression is checked in an inference context, which  *)
(* may already know the type (as an assignee that must be met, or as a     *)
(* suggestion), and the type the expression gets is the one its context    *)
(* has in the end.                                                         *)
(*                                                                         *)
(* A checker, as it is passed along, is a record of                        *)
(*   scope        each variable's type, or NoType, and lifetime,           *)
(*   errors       what has been reported, in order,                        *)
(*   constraints  the lifetime constraints added to the group,             *)
(*   context      the inference context of the expression at hand,         *)
(*   type, category    of the expression checked last,                     *)
(*   safety       of the operation checked last.                           *)
(***************************************************************************)
EXTENDS Assignability

Context(type, kind) == [type |-> type, kind |-> kind]

Unconstrained == Context(NoType, "suggestion")

LValue(lifetime) == [is |-> "lvalue", lifetime |-> lifetime]
RValue == [is |-> "rvalue"]

NewChecker(scope) ==
    [scope |-> scope, errors |-> <<>>, constraints |-> <<>>, safety |-> "safe",
     context |-> Unconstrained, type |-> NoType, category |-> RValue]

Report(tc, error) == [tc EXCEPT !.errors = Append(@, error)]

ReportUnless(condition, tc, error) == IF condition THEN tc ELSE Report(tc, error)

\* require_assignable, in the context of an assignment.
Require(tc, lhs, rhs) ==
    LET verdict == RequireAssignable(lhs, rhs, Copying)
    IN  [ReportUnless(verdict.error = "none", tc, verdict.error)
            EXCEPT !.constraints = @ \o verdict.constraints]

-----------------------------------------------------------------------------
(* InferenceContext                                                        *)

\* constrain_context_type(id, why, kind)
Constrain(tc, type, kind) ==
    LET context == tc.context
    IN  CASE context.type # NoType /\ kind = "suggestion" -> tc
          [] \/ context.type = NoType
             \/ context.kind = "suggestion" /\ kind = "assignee" ->
                [tc EXCEPT !.context = Context(type, kind)]
          [] OTHER -> Require(tc, context.type, type)

\* constrain_context_type(VariableId): a variable without a type takes the
\* one that its context has.
ConstrainVariable(tc, x) ==
    CASE tc.scope[x].type # NoType -> Constrain(tc, tc.scope[x].type, "assignee")
      [] tc.scope[x].type = NoType /\ tc.context.type # NoType ->
            [tc EXCEPT !.scope[x].type = tc.context.type]
      [] OTHER -> Report(tc, "cannot infer variable")

\* A bug to find: what is reached is not compared with what is expected.
ConstrainReachedUnlessKnown(tc, reached, error) ==
    IF reached = NoType THEN Constrain(Report(tc, error), ErrorType, "assignee")
    ELSE Constrain(tc, reached, "suggestion")

\* constrain_dereferences and constrain_indexes_into, where reached is the
\* type behind the pointer or array, if there is one.
ConstrainReached(tc, reached, error) ==
    IF reached = NoType THEN Constrain(Report(tc, error), ErrorType, "assignee")
    ELSE Constrain(tc, reached, "assignee")

ConstrainIntLiteral(tc) ==
    CASE tc.context.type = NoType -> Constrain(tc, Integral, "suggestion")
      [] tc.context.type \notin {NoType, Integral, ErrorType} /\ tc.context.kind = "suggestion" ->
            [tc EXCEPT !.context.type = Integral]
      [] OTHER -> tc

-----------------------------------------------------------------------------
(* What the type of an expression is in the end.                           *)

Typed(tc, type, category) == [tc EXCEPT !.type = type, !.category = category]

\* set_type_info: the type of the context.
SetTypeInfo(tc, category) ==
    IF tc.context.type = NoType
    THEN Typed(Report(tc, "cannot infer expression"), ErrorType, category)
    ELSE Typed(tc, tc.context.type, category)

\* set_type
SetType(tc, type) == Constrain(Typed(tc, type, RValue), type, "assignee")

\* The context of the parent, once a child has been checked.
Back(tc, child) == [child EXCEPT !.context = tc.context]

=============================================================================
