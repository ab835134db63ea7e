---------------------------- MODULE Assignability ----------------------------
(***************************************************************************)
(* TypeOperations (types/operations.cpp): strictness, dereferencing and    *)
(* require_assignable, which either names an error or asks for relations   *)
(* between lifetimes that the solver has to meet.  Types are interned, so  *)
(* that equality of TypeIds is equality of these records; the error type,  *)
(* which stands for what has been reported, goes with everything.          *)
(*                                                                         *)
(* What these operators ask of the type inside a type they ask through     *)
(* constants, Inner..., for which a configuration gives the operators      *)
(* themselves.                                                             *)
(***************************************************************************)
EXTENDS Naturals, Sequences

CONSTANTS
    Unsafe,                     \* the lifetime that accepts every other
    NoLifetime,                 \* std::nullopt
    InnerStrict(_),             \* IsStrict
    InnerDereference(_),        \* Dereference
    InnerIndexInto(_),          \* IndexInto
    InnerLifetime(_),           \* PointedLifetime
    InnerAssignable(_, _, _)    \* RequireAssignable

Integral == [is |-> "int"]
Struct == [is |-> "struct"]
ErrorType == [is |-> "error"]
ConstOf(type) == [is |-> "const", of |-> type]
PointerTo(type, lifetime) == [is |-> "pointer", of |-> type, lifetime |-> lifetime]
ArrayOf(type, size) == [is |-> "array", of |-> type, size |-> size]

NoType == [is |-> "none"]   \* std::nullopt

IsConst(type) == type.is = "const"
IsError(type) == type.is = "error"
IsPointer(type) == type.is = "pointer"

\* is_const_strict and is_lifetime_strict, which are one predicate as long as
\* a struct is strict whatever its fields.
IsStrict(type) ==
    CASE type.is = "pointer" -> ~IsConst(type.of)
      [] type.is = "array" -> InnerStrict(type.of)
      [] type.is = "struct" -> TRUE
      [] OTHER -> FALSE

(* What is reached through a const value is const, once.                   *)
InheritConst(type) ==
    IF type.is \in {"none", "const", "error"} THEN type ELSE ConstOf(type)

Dereference(type) ==
    CASE type.is = "pointer" -> type.of
      [] type.is = "const" -> InheritConst(InnerDereference(type.of))
      [] type.is = "error" -> ErrorType
      [] OTHER -> NoType

IndexInto(type) ==
    CASE type.is \in {"pointer", "array"} -> type.of
      [] type.is = "const" -> InheritConst(InnerIndexInto(type.of))
      [] type.is = "error" -> ErrorType
      [] OTHER -> NoType

PointedLifetime(type) ==
    CASE type.is = "pointer" -> type.lifetime
      [] type.is = "const" -> InnerLifetime(type.of)
      [] OTHER -> NoLifetime

-----------------------------------------------------------------------------

Verdict(error, constraints) == [error |-> error, constraints |-> constraints]

Fine == Verdict("none", <<>>)
Refused(error) == Verdict(error, <<>>)

\* A bug to find: nobody asks whether the pointer is itself a copy.
PointerRelationAnywhere(lhs, context) ==
    IF context.const \/ ~IsStrict(lhs.of) THEN "<=" ELSE "="

(* Whether the lifetime of a pointer may become shorter.                   *)
PointerRelation(lhs, context) ==
    IF context.const \/ (context.copy /\ ~IsStrict(lhs.of)) THEN "<=" ELSE "="

\* A bug to find: what is const on both sides is compared as it is.
AssignToConstAlike(lhs, rhs, context) ==
    InnerAssignable(lhs.of, IF IsConst(rhs) THEN rhs.of ELSE rhs,
                    [context EXCEPT !.const = @ \/ ~IsConst(rhs)])

\* x const = y.  To explain an error, the code names the type inside y's
\* const, and reads through a null pointer when y is not const.
AssignToConst(lhs, rhs, context) ==
    LET inner == InnerAssignable(lhs.of, IF IsConst(rhs) THEN rhs.of ELSE rhs,
                                 [context EXCEPT !.const = TRUE])
    IN  IF inner.error = "none" \/ IsConst(rhs) THEN inner
        ELSE [inner EXCEPT !.error = "null dereferenced"]

\* x = y const
AssignFromConst(lhs, rhs, context) ==
    IF ~context.const /\ (IsStrict(lhs) \/ ~context.copy)
    THEN Refused("drops const")
    ELSE InnerAssignable(lhs, rhs.of, context)

AssignArray(lhs, rhs, context) ==
    CASE rhs.is # "array" -> Refused("no array")
      [] rhs.is = "array" /\ rhs.size < lhs.size -> Refused("array too small")
      [] OTHER -> InnerAssignable(lhs.of, rhs.of, context)

\* A bug to find: the pointees are compared as if they were copied too.
AssignPointerCopied(lhs, rhs, context) ==
    IF ~IsPointer(rhs) THEN Refused("no pointer")
    ELSE LET pointees == InnerAssignable(lhs.of, rhs.of, context)
         IN  [pointees EXCEPT !.constraints =
                <<[left |-> lhs.lifetime, rel |-> PointerRelation(lhs, context),
                   right |-> rhs.lifetime]>> \o @]

\* The relation is recorded before the pointees are looked at.
AssignPointer(lhs, rhs, context) ==
    IF ~IsPointer(rhs) THEN Refused("no pointer")
    ELSE LET pointees == InnerAssignable(lhs.of, rhs.of,
                                         [context EXCEPT !.copy = FALSE])
             constraint == [left |-> lhs.lifetime,
                            rel |-> PointerRelation(lhs, context),
                            right |-> rhs.lifetime]
         IN  Verdict(pointees.error, <<constraint>> \o pointees.constraints)

RequireAssignable(lhs, rhs, context) ==
    IF lhs = rhs \/ IsError(lhs) \/ IsError(rhs) THEN Fine
    ELSE IF IsConst(lhs) THEN AssignToConst(lhs, rhs, context)
    ELSE IF IsConst(rhs) THEN AssignFromConst(lhs, rhs, context)
    ELSE CASE lhs.is = "array" -> AssignArray(lhs, rhs, context)
           [] lhs.is = "pointer" -> AssignPointer(lhs, rhs, context)
           [] OTHER -> Refused("unrelated")

Copying == [copy |-> TRUE, const |-> FALSE]

=============================================================================
