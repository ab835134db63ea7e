------------------------ MODULE CheckedProgramProofs ------------------------
(***************************************************************************)
(* What the type checker accepts, for types of any depth.                  *)
(*                                                                         *)
(* Assignability: Fits(l, r, c) says that a value of type r can be         *)
(* assigned to l in the context c: no error, and the solver finds every    *)
(* relation of lifetimes to hold (Met, in CheckedProgram).  The types are  *)
(* those without arrays and errors.  The operators on types are recursive  *)
(* through the constants Inner..., which are given the operators           *)
(* themselves (TypesUnfold), and an operator on a type is reasoned about   *)
(* by the depth of the type.                                               *)
(*                                                                         *)
(* Type soundness: in every program that the checker accepts, of whatever  *)
(* variables and types of any depth, pointers point to values of the shape *)
(* that their types say.  Lifetimes and const they keep to as long as no   *)
(* departure has been accepted (departures, in CheckedProgram): SoundInv   *)
(* says both, since neither is inductive without the other.                *)
(*                                                                         *)
(* A checker is followed through the checks of an expression: Becomes says *)
(* what the checker is afterwards and under which condition nothing is     *)
(* wrong, Keeps that an error stays.  Located and Valued sum up what an    *)
(* expression comes to in every inference context, and the two kinds of    *)
(* statement are accepted accordingly (LetOfKnown, LetOfUnknown,           *)
(* AssignmentAccepted).                                                    *)
(*                                                                         *)
(* At the end, what is reported as unsafe: Stands says how many operations *)
(* a checker has reported, and Counts how many the check of an expression  *)
(* reports.                                                                *)
(***************************************************************************)
EXTENDS CheckedProgram, FiniteSetTheorems, WellFoundedInduction, TLAPS

CONSTANTS
    Type,           \* the types of values, of any depth
    Depth(_)        \* how many types are inside a type

Contexts == [copy : BOOLEAN, const : BOOLEAN]

(* Every type is made of int and struct types by finitely many qualifiers  *)
(* and pointers, none of them const twice, and every one that can be made  *)
(* like that is a type.                                                    *)
TypeUniverse ==
    /\ \A t \in Type : Depth(t) \in Nat
    /\ \A t \in Type :
          \/ t \in {Integral, Struct}
          \/ \E u \in Type : t = ConstOf(u) /\ ~IsConst(u) /\ Depth(u) < Depth(t)
          \/ \E u \in Type, l \in Lifetimes : t = PointerTo(u, l) /\ Depth(u) < Depth(t)
    /\ \A t \in Type : ~IsConst(t) => ConstOf(t) \in Type
    /\ \A t \in Type, l \in Lifetimes : PointerTo(t, l) \in Type

(* The constants for the types inside a type are the operators themselves. *)
TypesUnfold ==
    /\ \A t \in Type :
          /\ InnerStrict(t) = IsStrict(t)
          /\ InnerDereference(t) = Dereference(t)
          /\ InnerLifetime(t) = PointedLifetime(t)
          /\ InnerShape(t) = Shape(t)
    /\ \A l, r \in Type : InnerSame(l, r) = SameUpToConst(l, r)
    /\ \A l, r \in Type, c \in Contexts : InnerAssignable(l, r, c) = RequireAssignable(l, r, c)

TypesAreFinite == TypeUniverse /\ TypesUnfold

-----------------------------------------------------------------------------
(* Types by depth: a smallest counterexample takes the place of induction. *)

LEMMA StepByStep ==
    ASSUME NEW T, 0 \in T, \A n \in Nat : n \in T => n + 1 \in T
    PROVE  \A n \in Nat : n \in T
  <1> DEFINE R == OpToRel(<, Nat)
             B == {n \in Nat : n \notin T}
  <1>1. IsWellFoundedOn(R, Nat)
    BY NatLessThanWellFounded
  <1>2. ASSUME B # {}
        PROVE  FALSE
    <2>1. B \subseteq Nat
      OBVIOUS
    <2>2. \E n \in B : \A m \in B : ~(<<m, n>> \in R)
      BY <1>1, <1>2, <2>1, WFMin
    <2>3. PICK n \in B : \A m \in B : ~(<<m, n>> \in R)
      BY <2>2
    <2>4. n \in Nat /\ n # 0
      OBVIOUS
    <2>5. n - 1 \in Nat /\ n - 1 < n /\ (n - 1) + 1 = n
      BY <2>4
    <2>6. <<n - 1, n>> \in R
      BY <2>4, <2>5, SMT DEF OpToRel
    <2>7. n - 1 \in T
      BY <2>3, <2>5, <2>6
    <2>8. QED
      BY <2>5, <2>7
  <1>3. QED
    BY <1>2

(* What types there are. *)
LEMMA TypeCases ==
    ASSUME TypesAreFinite, NEW t \in Type
    PROVE  /\ Depth(t) \in Nat
           /\ t.is \in {"int", "struct", "const", "pointer"}
           /\ t # NoType /\ t # ErrorType /\ ~IsError(t)
           /\ IsConst(t) => /\ t.of \in Type /\ ~IsConst(t.of) /\ t = ConstOf(t.of)
                            /\ Depth(t.of) < Depth(t)
           /\ IsPointer(t) => /\ t.of \in Type /\ t.lifetime \in Lifetimes
                              /\ t = PointerTo(t.of, t.lifetime)
                              /\ Depth(t.of) < Depth(t)
           /\ ~IsConst(t) /\ ~IsPointer(t) => t \in {Integral, Struct}
  <1>1. Depth(t) \in Nat
    BY DEF TypesAreFinite, TypeUniverse
  <1>2. CASE t \in {Integral, Struct}
    BY <1>1, <1>2 DEF Integral, Struct, IsConst, IsPointer, IsError, NoType, ErrorType
  <1>3. CASE \E u \in Type : t = ConstOf(u) /\ ~IsConst(u) /\ Depth(u) < Depth(t)
    <2>1. PICK u \in Type : t = ConstOf(u) /\ ~IsConst(u) /\ Depth(u) < Depth(t)
      BY <1>3
    <2>2. t.is = "const" /\ t.of = u
      BY <2>1 DEF ConstOf
    <2>3. QED
      BY <1>1, <2>1, <2>2 DEF IsConst, IsPointer, IsError, NoType, ErrorType
  <1>4. CASE \E u \in Type, l \in Lifetimes : t = PointerTo(u, l) /\ Depth(u) < Depth(t)
    <2>1. PICK u \in Type, l \in Lifetimes : t = PointerTo(u, l) /\ Depth(u) < Depth(t)
      BY <1>4
    <2>2. t.is = "pointer" /\ t.of = u /\ t.lifetime = l
      BY <2>1 DEF PointerTo
    <2>3. QED
      BY <1>1, <2>1, <2>2 DEF IsConst, IsPointer, IsError, NoType, ErrorType
  <1>5. QED
    BY <1>2, <1>3, <1>4 DEF TypesAreFinite, TypeUniverse

-----------------------------------------------------------------------------
(* Verdicts. *)

Constraints == [left : Lifetimes, rel : {"<=", "="}, right : Lifetimes]

Errors == {"none", "drops const", "no pointer", "unrelated", "null dereferenced"}

Verdicts == [error : Errors, constraints : Seq(Constraints)]

AsConst(c) == [c EXCEPT !.const = TRUE]
InPlace(c) == [c EXCEPT !.copy = FALSE]

LEMMA ContextCases ==
    ASSUME NEW c \in Contexts
    PROVE  /\ AsConst(c) \in Contexts /\ AsConst(c).const /\ AsConst(c).copy = c.copy
           /\ InPlace(c) \in Contexts /\ ~InPlace(c).copy /\ InPlace(c).const = c.const
           /\ c.copy \in BOOLEAN /\ c.const \in BOOLEAN
  BY DEF Contexts, AsConst, InPlace

LEMMA RefusedIsVerdict ==
    ASSUME NEW e \in Errors
    PROVE  Refused(e) \in Verdicts
  BY DEF Refused, Verdict, Verdicts

LEMMA RefusedNames ==
    ASSUME NEW e
    PROVE  Refused(e).error = e
  BY DEF Refused, Verdict

LEMMA FineIsVerdict == Fine \in Verdicts
  BY DEF Fine, Verdict, Verdicts, Errors

(* What the branches of require_assignable come to. *)
LEMMA ConstBranch ==
    ASSUME TypesAreFinite, NEW l \in Type, NEW r \in Type, NEW c \in Contexts, IsConst(l),
           RequireAssignable(l.of, Bare(r), AsConst(c)) \in Verdicts
    PROVE  LET inner == RequireAssignable(l.of, Bare(r), AsConst(c))
           IN  /\ AssignToConst(l, r, c) \in Verdicts
               /\ AssignToConst(l, r, c).constraints = inner.constraints
               /\ AssignToConst(l, r, c).error = "none" <=> inner.error = "none"
  <1>1. /\ l.of \in Type /\ Bare(r) \in Type /\ AsConst(c) \in Contexts
    BY TypeCases, ContextCases DEF Bare
  <1>2. InnerAssignable(l.of, Bare(r), AsConst(c)) = RequireAssignable(l.of, Bare(r), AsConst(c))
    BY <1>1 DEF TypesAreFinite, TypesUnfold
  <1> DEFINE inner == RequireAssignable(l.of, Bare(r), AsConst(c))
             asked == InnerAssignable(l.of, Bare(r), AsConst(c))
  <1>8. AssignToConst(l, r, c) =
           IF asked.error = "none" \/ IsConst(r) THEN asked
           ELSE [asked EXCEPT !.error = "null dereferenced"]
    BY Zenon DEF AssignToConst, Bare, AsConst
  <1>9. asked = inner
    BY <1>2
  <1> HIDE DEF inner, asked
  <1>3. AssignToConst(l, r, c) =
           IF inner.error = "none" \/ IsConst(r) THEN inner
           ELSE [inner EXCEPT !.error = "null dereferenced"]
    BY <1>8, <1>9
  <1>4. inner \in Verdicts
    BY DEF inner
  <1>5. [inner EXCEPT !.error = "null dereferenced"] \in Verdicts
    BY <1>4 DEF Verdicts, Errors
  <1>6. /\ [inner EXCEPT !.error = "null dereferenced"].constraints = inner.constraints
        /\ [inner EXCEPT !.error = "null dereferenced"].error # "none"
    BY <1>4 DEF Verdicts
  <1>7. QED
    BY <1>3, <1>4, <1>5, <1>6 DEF inner

LEMMA PointerBranch ==
    ASSUME TypesAreFinite, NEW l \in Type, NEW r \in Type, NEW c \in Contexts,
           IsPointer(l), IsPointer(r),
           RequireAssignable(l.of, r.of, InPlace(c)) \in Verdicts
    PROVE  LET inner == RequireAssignable(l.of, r.of, InPlace(c))
               made == [left |-> l.lifetime, rel |-> PointerRelation(l, c),
                        right |-> r.lifetime]
           IN  /\ AssignPointer(l, r, c) \in Verdicts
               /\ AssignPointer(l, r, c).constraints = <<made>> \o inner.constraints
               /\ AssignPointer(l, r, c).error = inner.error
               /\ made \in Constraints
  <1>1. /\ l.of \in Type /\ r.of \in Type /\ InPlace(c) \in Contexts
        /\ l.lifetime \in Lifetimes /\ r.lifetime \in Lifetimes
    BY TypeCases, ContextCases
  <1>2. InnerAssignable(l.of, r.of, InPlace(c)) = RequireAssignable(l.of, r.of, InPlace(c))
    BY <1>1 DEF TypesAreFinite, TypesUnfold
  <1> DEFINE inner == RequireAssignable(l.of, r.of, InPlace(c))
             made == [left |-> l.lifetime, rel |-> PointerRelation(l, c),
                      right |-> r.lifetime]
  <1>3. AssignPointer(l, r, c) = Verdict(inner.error, <<made>> \o inner.constraints)
    BY <1>2 DEF AssignPointer, InPlace
  <1>4. PointerRelation(l, c) \in {"<=", "="}
    BY DEF PointerRelation
  <1>5. made \in Constraints
    BY <1>1, <1>4 DEF Constraints
  <1> HIDE DEF inner, made
  <1>6. inner.error \in Errors /\ inner.constraints \in Seq(Constraints)
    BY DEF inner, Verdicts
  <1>7. <<made>> \o inner.constraints \in Seq(Constraints)
    BY <1>5, <1>6
  <1>8. AssignPointer(l, r, c) \in Verdicts
    BY <1>3, <1>6, <1>7 DEF Verdicts, Verdict
  <1>9. /\ AssignPointer(l, r, c).constraints = <<made>> \o inner.constraints
        /\ AssignPointer(l, r, c).error = inner.error
    BY <1>3 DEF Verdict
  <1>10. QED
    BY <1>5, <1>8, <1>9 DEF inner, made

(* require_assignable, on types: no arrays, no errors. *)
LEMMA Unrolled ==
    ASSUME TypesAreFinite, NEW l \in Type, NEW r \in Type, NEW c \in Contexts
    PROVE  RequireAssignable(l, r, c) =
              IF l = r THEN Fine
              ELSE IF IsConst(l) THEN AssignToConst(l, r, c)
              ELSE IF IsConst(r) THEN AssignFromConst(l, r, c)
              ELSE IF IsPointer(l) THEN AssignPointer(l, r, c)
              ELSE Refused("unrelated")
  BY TypeCases DEF RequireAssignable, IsPointer, IsConst, IsError

LEMMA FromConst ==
    ASSUME TypesAreFinite, NEW l \in Type, NEW r \in Type, NEW c \in Contexts, IsConst(r)
    PROVE  AssignFromConst(l, r, c) =
              IF ~c.const /\ (IsStrict(l) \/ ~c.copy) THEN Refused("drops const")
              ELSE RequireAssignable(l, r.of, c)
  <1>1. r.of \in Type
    BY TypeCases
  <1>2. InnerAssignable(l, r.of, c) = RequireAssignable(l, r.of, c)
    BY <1>1 DEF TypesAreFinite, TypesUnfold
  <1>3. QED
    BY <1>2 DEF AssignFromConst

LEMMA VerdictTyped ==
    ASSUME TypesAreFinite
    PROVE  \A l, r \in Type, c \in Contexts : RequireAssignable(l, r, c) \in Verdicts
  <1> DEFINE T == {n \in Nat : \A l, r \in Type, c \in Contexts :
                      Depth(l) + Depth(r) < n => RequireAssignable(l, r, c) \in Verdicts}
  <1>1. 0 \in T
    <2>1. \A l, r \in Type : ~(Depth(l) + Depth(r) < 0)
      BY TypeCases
    <2>2. QED
      BY <2>1
  <1>2. ASSUME NEW n \in Nat, n \in T
        PROVE  n + 1 \in T
    <2>1. SUFFICES ASSUME NEW l \in Type, NEW r \in Type, NEW c \in Contexts,
                          Depth(l) + Depth(r) < n + 1
                   PROVE  RequireAssignable(l, r, c) \in Verdicts
      OBVIOUS
    <2>2. \A s, t \in Type, d \in Contexts :
             Depth(s) + Depth(t) < Depth(l) + Depth(r) => RequireAssignable(s, t, d) \in Verdicts
      <3>1. SUFFICES ASSUME NEW s \in Type, NEW t \in Type, NEW d \in Contexts,
                            Depth(s) + Depth(t) < Depth(l) + Depth(r)
                     PROVE  RequireAssignable(s, t, d) \in Verdicts
        OBVIOUS
      <3>2. /\ Depth(s) \in Nat /\ Depth(t) \in Nat /\ Depth(l) \in Nat /\ Depth(r) \in Nat
        BY TypeCases
      <3>3. Depth(s) + Depth(t) < n
        BY <2>1, <3>1, <3>2
      <3>4. QED
        BY <1>2, <3>3
    <2>3. CASE l = r
      BY <2>3, Unrolled, FineIsVerdict
    <2>4. CASE l # r /\ IsConst(l)
      <3>1. /\ l.of \in Type /\ Bare(r) \in Type /\ AsConst(c) \in Contexts
            /\ Depth(l.of) + Depth(Bare(r)) < Depth(l) + Depth(r)
        BY <2>4, TypeCases, ContextCases DEF Bare
      <3>2. RequireAssignable(l.of, Bare(r), AsConst(c)) \in Verdicts
        BY <2>2, <3>1
      <3>3. QED
        BY <2>4, <3>2, ConstBranch, Unrolled
    <2>5. CASE l # r /\ ~IsConst(l) /\ IsConst(r)
      <3>1. /\ r.of \in Type /\ Depth(l) + Depth(r.of) < Depth(l) + Depth(r)
        BY <2>5, TypeCases
      <3>2. RequireAssignable(l, r.of, c) \in Verdicts
        BY <2>2, <3>1
      <3>3. QED
        BY <2>5, <3>2, FromConst, Unrolled, RefusedIsVerdict DEF Errors
    <2>6. CASE l # r /\ ~IsConst(l) /\ ~IsConst(r) /\ IsPointer(l)
      <3>1. CASE IsPointer(r)
        <4>1. /\ l.of \in Type /\ r.of \in Type /\ InPlace(c) \in Contexts
              /\ Depth(l.of) + Depth(r.of) < Depth(l) + Depth(r)
          BY <2>6, <3>1, TypeCases, ContextCases
        <4>2. RequireAssignable(l.of, r.of, InPlace(c)) \in Verdicts
          BY <2>2, <4>1
        <4>3. QED
          BY <2>6, <3>1, <4>2, PointerBranch, Unrolled
      <3>2. CASE ~IsPointer(r)
        BY <2>6, <3>2, Unrolled, RefusedIsVerdict DEF AssignPointer, Errors
      <3>3. QED
        BY <3>1, <3>2
    <2>7. CASE l # r /\ ~IsConst(l) /\ ~IsConst(r) /\ ~IsPointer(l)
      BY <2>7, Unrolled, RefusedIsVerdict DEF Errors
    <2>8. QED
      BY <2>3, <2>4, <2>5, <2>6, <2>7
  <1>3. \A n \in Nat : n \in T
    <2> HIDE DEF T
    <2>1. QED
      BY <1>1, <1>2, StepByStep
  <1>4. QED
    <2>1. SUFFICES ASSUME NEW l \in Type, NEW r \in Type, NEW c \in Contexts
                   PROVE  RequireAssignable(l, r, c) \in Verdicts
      OBVIOUS
    <2>2. Depth(l) + Depth(r) + 1 \in Nat /\ Depth(l) + Depth(r) < Depth(l) + Depth(r) + 1
      BY TypeCases
    <2>3. QED
      BY <1>3, <2>2

-----------------------------------------------------------------------------
(* What is assigned without an error and with its relations met. *)

Fits(l, r, c) ==
    LET verdict == RequireAssignable(l, r, c)
    IN  /\ verdict.error = "none"
        /\ \A i \in DOMAIN verdict.constraints : Met(verdict.constraints[i])

Shortens(l, r, c) ==
    Met([left |-> l.lifetime, rel |-> PointerRelation(l, c), right |-> r.lifetime])

LEMMA FitsSame ==
    ASSUME TypesAreFinite, NEW t \in Type, NEW c \in Contexts
    PROVE  Fits(t, t, c)
  BY Unrolled DEF Fits, Fine, Verdict

LEMMA FitsToConst ==
    ASSUME TypesAreFinite, NEW l \in Type, NEW r \in Type, NEW c \in Contexts, l # r, IsConst(l)
    PROVE  Fits(l, r, c) <=> Fits(l.of, Bare(r), AsConst(c))
  <1>1. l.of \in Type /\ Bare(r) \in Type /\ AsConst(c) \in Contexts
    BY TypeCases, ContextCases DEF Bare
  <1>2. RequireAssignable(l.of, Bare(r), AsConst(c)) \in Verdicts
    BY <1>1, VerdictTyped
  <1>3. RequireAssignable(l, r, c) = AssignToConst(l, r, c)
    BY Unrolled
  <1>4. QED
    BY <1>2, <1>3, ConstBranch DEF Fits

LEMMA FitsFromConst ==
    ASSUME TypesAreFinite, NEW l \in Type, NEW r \in Type, NEW c \in Contexts,
           ~IsConst(l), IsConst(r)
    PROVE  Fits(l, r, c) <=> (c.const \/ (c.copy /\ ~IsStrict(l))) /\ Fits(l, r.of, c)
  <1>1. l # r
    OBVIOUS
  <1>2. RequireAssignable(l, r, c) = AssignFromConst(l, r, c)
    BY <1>1, Unrolled
  <1>3. c.const \in BOOLEAN /\ c.copy \in BOOLEAN
    BY ContextCases
  <1>4. CASE ~c.const /\ (IsStrict(l) \/ ~c.copy)
    <2>1. RequireAssignable(l, r, c).error = "drops const"
      BY <1>2, <1>4, FromConst, RefusedNames
    <2>2. QED
      BY <1>4, <2>1 DEF Fits
  <1>5. CASE ~(~c.const /\ (IsStrict(l) \/ ~c.copy))
    <2>1. RequireAssignable(l, r, c) = RequireAssignable(l, r.of, c)
      BY <1>2, <1>5, FromConst
    <2>2. QED
      BY <1>3, <1>5, <2>1 DEF Fits
  <1>6. QED
    BY <1>4, <1>5

LEMMA FitsPointer ==
    ASSUME TypesAreFinite, NEW l \in Type, NEW r \in Type, NEW c \in Contexts,
           l # r, IsPointer(l), IsPointer(r)
    PROVE  Fits(l, r, c) <=> Shortens(l, r, c) /\ Fits(l.of, r.of, InPlace(c))
  <1>1. l.of \in Type /\ r.of \in Type /\ InPlace(c) \in Contexts
    BY TypeCases, ContextCases
  <1> DEFINE inner == RequireAssignable(l.of, r.of, InPlace(c))
             outer == RequireAssignable(l, r, c)
             made == [left |-> l.lifetime, rel |-> PointerRelation(l, c),
                      right |-> r.lifetime]
  <1>2. inner \in Verdicts
    BY <1>1, VerdictTyped
  <1>3. ~IsConst(l) /\ ~IsConst(r)
    BY DEF IsConst, IsPointer
  <1>4. outer = AssignPointer(l, r, c)
    BY <1>3, Unrolled
  <1>5. /\ outer.constraints = <<made>> \o inner.constraints
        /\ outer.error = inner.error
        /\ made \in Constraints
    BY <1>2, <1>4, PointerBranch
  <1>6. Fits(l, r, c) <=> /\ outer.error = "none"
                          /\ \A i \in DOMAIN outer.constraints : Met(outer.constraints[i])
    BY DEF Fits
  <1>7. Fits(l.of, r.of, InPlace(c)) <=>
           inner.error = "none" /\ \A i \in DOMAIN inner.constraints : Met(inner.constraints[i])
    BY DEF Fits
  <1>8. Shortens(l, r, c) <=> Met(made)
    BY DEF Shortens
  <1>9. inner.constraints \in Seq(Constraints)
    BY <1>2 DEF Verdicts
  <1> HIDE DEF inner, outer, made
  <1>10. (\A i \in DOMAIN outer.constraints : Met(outer.constraints[i]))
            <=> Met(made) /\ \A i \in DOMAIN inner.constraints : Met(inner.constraints[i])
    <2> DEFINE s == inner.constraints
    <2>1. s \in Seq(Constraints) /\ outer.constraints = <<made>> \o s
      BY <1>5, <1>9
    <2> HIDE DEF s
    <2>2. /\ Len(outer.constraints) = Len(s) + 1
          /\ outer.constraints[1] = made
          /\ \A i \in 1..Len(s) : outer.constraints[i + 1] = s[i]
          /\ DOMAIN outer.constraints = 1..Len(s) + 1 /\ DOMAIN s = 1..Len(s)
          /\ Len(s) \in Nat
      BY <1>5, <2>1
    <2>3. ASSUME \A i \in DOMAIN outer.constraints : Met(outer.constraints[i])
          PROVE  Met(made) /\ \A i \in DOMAIN s : Met(s[i])
      <3>1. Met(made)
        BY <2>2, <2>3
      <3>2. ASSUME NEW i \in DOMAIN s
            PROVE  Met(s[i])
        <4>1. i \in 1..Len(s) /\ i + 1 \in DOMAIN outer.constraints
          BY <2>2, <3>2
        <4>2. QED
          BY <2>2, <2>3, <4>1
      <3>3. QED
        BY <3>1, <3>2
    <2>4. ASSUME Met(made), \A i \in DOMAIN s : Met(s[i])
          PROVE  \A i \in DOMAIN outer.constraints : Met(outer.constraints[i])
      <3>1. SUFFICES ASSUME NEW i \in DOMAIN outer.constraints
                     PROVE  Met(outer.constraints[i])
        OBVIOUS
      <3>2. CASE i = 1
        BY <2>2, <2>4, <3>2
      <3>3. CASE i # 1
        <4>1. i - 1 \in 1..Len(s) /\ (i - 1) + 1 = i
          BY <2>2, <3>1, <3>3
        <4>2. outer.constraints[i] = s[i - 1]
          BY <2>2, <4>1
        <4>3. QED
          BY <2>2, <2>4, <4>1, <4>2
      <3>4. QED
        BY <3>2, <3>3
    <2>5. QED
      BY <2>3, <2>4 DEF s
  <1>11. QED
    BY <1>5, <1>6, <1>7, <1>8, <1>10

LEMMA FitsPlainly ==
    ASSUME TypesAreFinite, NEW l \in Type, NEW r \in Type, NEW c \in Contexts,
           l # r, ~IsConst(l), ~IsConst(r), Fits(l, r, c)
    PROVE  IsPointer(l) /\ IsPointer(r)
  <1>1. RequireAssignable(l, r, c) = IF IsPointer(l) THEN AssignPointer(l, r, c)
                                     ELSE Refused("unrelated")
    BY Unrolled
  <1>2. RequireAssignable(l, r, c).error = "none"
    BY DEF Fits
  <1>3. IsPointer(l)
    BY <1>1, <1>2, RefusedNames
  <1>4. ~IsPointer(r) => AssignPointer(l, r, c) = Refused("no pointer")
    BY DEF AssignPointer
  <1>5. Refused("no pointer").error = "no pointer"
    BY RefusedNames
  <1>6. QED
    BY <1>1, <1>2, <1>3, <1>4, <1>5

-----------------------------------------------------------------------------
(* Pairs of types, by the sum of their depths. *)
LEMMA PairsByDepth ==
    ASSUME TypesAreFinite, NEW W,
           \A l, r \in Type :
              (\A s, t \in Type : Depth(s) + Depth(t) < Depth(l) + Depth(r) => <<s, t>> \in W)
                 => <<l, r>> \in W
    PROVE  \A l, r \in Type : <<l, r>> \in W
  <1> DEFINE T == {n \in Nat : \A l, r \in Type : Depth(l) + Depth(r) < n => <<l, r>> \in W}
  <1>1. \A l, r \in Type : Depth(l) + Depth(r) \in Nat
    BY TypeCases
  <1>2. 0 \in T
    BY <1>1
  <1>3. ASSUME NEW n \in Nat, n \in T
        PROVE  n + 1 \in T
    <2>1. SUFFICES ASSUME NEW l \in Type, NEW r \in Type, Depth(l) + Depth(r) < n + 1
                   PROVE  <<l, r>> \in W
      OBVIOUS
    <2>2. ASSUME NEW s \in Type, NEW t \in Type, Depth(s) + Depth(t) < Depth(l) + Depth(r)
          PROVE  <<s, t>> \in W
      <3>1. Depth(s) + Depth(t) < n
        BY <1>1, <2>1, <2>2
      <3>2. QED
        BY <1>3, <3>1
    <2>3. QED
      BY <2>2
  <1>4. \A n \in Nat : n \in T
    <2> HIDE DEF T
    <2>1. QED
      BY <1>2, <1>3, StepByStep
  <1>5. ASSUME NEW l \in Type, NEW r \in Type
        PROVE  <<l, r>> \in W
    <2>1. Depth(l) + Depth(r) + 1 \in Nat /\ Depth(l) + Depth(r) < Depth(l) + Depth(r) + 1
      BY <1>1
    <2>2. QED
      BY <1>4, <2>1
  <1>6. QED
    BY <1>5

-----------------------------------------------------------------------------
(* Contexts that accept more. *)

Weaker(c, d) == (c.const => d.const) /\ (c.copy => d.copy \/ d.const)

LEMMA StrictCases ==
    ASSUME TypesAreFinite, NEW t \in Type
    PROVE  IsStrict(t) <=> t = Struct \/ (IsPointer(t) /\ ~IsConst(t.of))
  BY TypeCases DEF IsStrict, Struct, Integral, IsConst, IsPointer

LEMMA ShortensCases ==
    ASSUME TypesAreFinite, NEW l \in Type, NEW r \in Type, NEW c \in Contexts,
           IsPointer(l), IsPointer(r)
    PROVE  /\ Shortens(l, r, c) <=>
                 \/ l.lifetime = r.lifetime
                 \/ /\ c.const \/ (c.copy /\ ~IsStrict(l.of))
                    /\ l.lifetime > r.lifetime
           /\ l.lifetime \in Nat /\ r.lifetime \in Nat
  <1>1. l.lifetime \in Lifetimes /\ r.lifetime \in Lifetimes
    BY TypeCases
  <1>2. /\ l.lifetime \in Nat /\ r.lifetime \in Nat
        /\ l.lifetime # Unsafe /\ r.lifetime # Unsafe
    BY <1>1, LifetimesAssumption
  <1>3. QED
    BY <1>2 DEF Shortens, Met, PointerRelation

LEMMA WeakerAccepts ==
    ASSUME TypesAreFinite
    PROVE  \A l, r \in Type : \A c, d \in Contexts :
              Weaker(c, d) /\ Fits(l, r, c) => Fits(l, r, d)
  <1> DEFINE P(l, r) == \A c, d \in Contexts : Weaker(c, d) /\ Fits(l, r, c) => Fits(l, r, d)
             W == {p \in Type \X Type : P(p[1], p[2])}
  <1>1. \A l, r \in Type : <<l, r>> \in W <=> P(l, r)
    OBVIOUS
  <1>2. ASSUME NEW l \in Type, NEW r \in Type,
               \A s, t \in Type : Depth(s) + Depth(t) < Depth(l) + Depth(r) => <<s, t>> \in W
        PROVE  <<l, r>> \in W
    <2>1. SUFFICES ASSUME NEW c \in Contexts, NEW d \in Contexts, Weaker(c, d), Fits(l, r, c)
                   PROVE  Fits(l, r, d)
      BY <1>1
    <2>2. \A s, t \in Type : Depth(s) + Depth(t) < Depth(l) + Depth(r) => P(s, t)
      BY <1>1, <1>2
    <2> HIDE DEF W
    <2>3. CASE l = r
      BY <2>3, FitsSame
    <2>4. CASE l # r /\ IsConst(l)
      <3>1. /\ l.of \in Type /\ Bare(r) \in Type
            /\ Depth(l.of) + Depth(Bare(r)) < Depth(l) + Depth(r)
        BY <2>4, TypeCases DEF Bare
      <3>2. AsConst(c) \in Contexts /\ AsConst(d) \in Contexts /\ Weaker(AsConst(c), AsConst(d))
        BY ContextCases DEF Weaker
      <3>3. Fits(l.of, Bare(r), AsConst(c))
        BY <2>1, <2>4, FitsToConst
      <3>4. Fits(l.of, Bare(r), AsConst(d))
        BY <2>2, <3>1, <3>2, <3>3
      <3>5. QED
        BY <2>4, <3>4, FitsToConst
    <2>5. CASE l # r /\ ~IsConst(l) /\ IsConst(r)
      <3>1. r.of \in Type /\ Depth(l) + Depth(r.of) < Depth(l) + Depth(r)
        BY <2>5, TypeCases
      <3>2. (c.const \/ (c.copy /\ ~IsStrict(l))) /\ Fits(l, r.of, c)
        BY <2>1, <2>5, FitsFromConst
      <3>3. Fits(l, r.of, d)
        BY <2>1, <2>2, <3>1, <3>2
      <3>4. d.const \/ (d.copy /\ ~IsStrict(l))
        BY <2>1, <3>2 DEF Weaker
      <3>5. QED
        BY <2>5, <3>3, <3>4, FitsFromConst
    <2>6. CASE l # r /\ ~IsConst(l) /\ ~IsConst(r)
      <3>1. IsPointer(l) /\ IsPointer(r)
        BY <2>1, <2>6, FitsPlainly
      <3>2. /\ l.of \in Type /\ r.of \in Type
            /\ Depth(l.of) + Depth(r.of) < Depth(l) + Depth(r)
        BY <3>1, TypeCases
      <3>3. InPlace(c) \in Contexts /\ InPlace(d) \in Contexts /\ Weaker(InPlace(c), InPlace(d))
        BY <2>1, ContextCases DEF Weaker
      <3>4. Shortens(l, r, c) /\ Fits(l.of, r.of, InPlace(c))
        BY <2>1, <2>6, <3>1, FitsPointer
      <3>5. Shortens(l, r, d)
        BY <2>1, <3>1, <3>4, ShortensCases DEF Weaker
      <3>6. Fits(l.of, r.of, InPlace(d))
        BY <2>2, <3>2, <3>3, <3>4
      <3>7. QED
        BY <2>6, <3>1, <3>5, <3>6, FitsPointer
    <2>7. QED
      BY <2>3, <2>4, <2>5, <2>6
  <1>3. \A l, r \in Type : <<l, r>> \in W
    <2> HIDE DEF W
    <2>1. QED
      BY <1>2, PairsByDepth
  <1>4. QED
    BY <1>1, <1>3

LEMMA ConstIsConst ==
    ASSUME TypesAreFinite, NEW l \in Type, NEW r \in Type, NEW c \in Contexts, NEW d \in Contexts,
           IsConst(l), Fits(l, r, c)
    PROVE  Fits(l, r, d)
  <1>1. CASE l = r
    BY <1>1, FitsSame
  <1>2. CASE l # r
    <2>1. l.of \in Type /\ Bare(r) \in Type
      BY TypeCases DEF Bare
    <2>2. Fits(l.of, Bare(r), AsConst(c))
      BY <1>2, FitsToConst
    <2>3. /\ AsConst(c) \in Contexts /\ AsConst(d) \in Contexts
          /\ Weaker(AsConst(c), AsConst(d))
      BY ContextCases DEF Weaker
    <2>4. Fits(l.of, Bare(r), AsConst(d))
      BY <2>1, <2>2, <2>3, WeakerAccepts
    <2>5. QED
      BY <1>2, <2>4, FitsToConst
  <1>3. QED
    BY <1>1, <1>2

LEMMA StrictBack ==
    ASSUME TypesAreFinite, NEW l \in Type, NEW r \in Type, NEW c \in Contexts,
           ~c.const, ~IsConst(l), ~IsConst(r), Fits(l, r, c), IsStrict(l)
    PROVE  IsStrict(r)
  <1>1. CASE l = r
    BY <1>1
  <1>2. CASE l # r
    <2>1. IsPointer(l) /\ IsPointer(r)
      BY <1>2, FitsPlainly
    <2>2. l.of \in Type /\ r.of \in Type /\ InPlace(c) \in Contexts
          /\ ~InPlace(c).copy /\ ~InPlace(c).const
      BY <2>1, TypeCases, ContextCases
    <2>3. Fits(l.of, r.of, InPlace(c))
      BY <1>2, <2>1, FitsPointer
    <2>4. ~IsConst(l.of)
      BY <2>1, StrictCases DEF IsPointer, Struct
    <2>5. ~IsConst(r.of)
      BY <2>2, <2>3, <2>4, FitsFromConst
    <2>6. QED
      BY <2>1, <2>5, StrictCases
  <1>3. QED
    BY <1>1, <1>2

-----------------------------------------------------------------------------
(* Assigning by way of a third type. *)

LEMMA TriplesByDepth ==
    ASSUME TypesAreFinite, NEW W,
           \A a, b, d \in Type :
              (\A x, y, z \in Type :
                  Depth(x) + Depth(y) + Depth(z) < Depth(a) + Depth(b) + Depth(d)
                     => <<x, y, z>> \in W)
                 => <<a, b, d>> \in W
    PROVE  \A a, b, d \in Type : <<a, b, d>> \in W
  <1> DEFINE T == {n \in Nat : \A a, b, d \in Type :
                      Depth(a) + Depth(b) + Depth(d) < n => <<a, b, d>> \in W}
  <1>1. \A a, b, d \in Type : Depth(a) + Depth(b) + Depth(d) \in Nat
    BY TypeCases
  <1>2. 0 \in T
    BY <1>1
  <1>3. ASSUME NEW n \in Nat, n \in T
        PROVE  n + 1 \in T
    <2>1. SUFFICES ASSUME NEW a \in Type, NEW b \in Type, NEW d \in Type,
                          Depth(a) + Depth(b) + Depth(d) < n + 1
                   PROVE  <<a, b, d>> \in W
      OBVIOUS
    <2>2. ASSUME NEW x \in Type, NEW y \in Type, NEW z \in Type,
                 Depth(x) + Depth(y) + Depth(z) < Depth(a) + Depth(b) + Depth(d)
          PROVE  <<x, y, z>> \in W
      <3>1. Depth(x) + Depth(y) + Depth(z) < n
        BY <1>1, <2>1, <2>2
      <3>2. QED
        BY <1>3, <3>1
    <2>3. QED
      BY <2>2
  <1>4. \A n \in Nat : n \in T
    <2> HIDE DEF T
    <2>1. QED
      BY <1>2, <1>3, StepByStep
  <1>5. ASSUME NEW a \in Type, NEW b \in Type, NEW d \in Type
        PROVE  <<a, b, d>> \in W
    <2> DEFINE n == Depth(a) + Depth(b) + Depth(d)
    <2>1. n + 1 \in Nat /\ n < n + 1
      BY <1>1
    <2>2. QED
      BY <1>4, <2>1
  <1>6. QED
    BY <1>5

(* A const type in between, when a copy drops it. *)
LEMMA ThroughConst ==
    ASSUME TypesAreFinite, NEW a \in Type, NEW b \in Type, NEW d \in Type, NEW c \in Contexts,
           \A x, y, z \in Type, e \in Contexts :
              /\ Depth(x) + Depth(y) + Depth(z) < Depth(a) + Depth(b) + Depth(d)
              /\ Fits(x, y, e) /\ Fits(y, z, e)
              => Fits(x, z, e),
           c.copy, ~IsStrict(a), ~IsConst(a), ~IsConst(b), ~IsConst(d),
           Fits(a, b, c), Fits(b, d, AsConst(c))
    PROVE  Fits(a, d, c)
  <1>1. AsConst(c) \in Contexts /\ InPlace(c) \in Contexts /\ InPlace(AsConst(c)) \in Contexts
        /\ AsConst(c).const
    BY ContextCases
  <1>2. CASE b = d
    BY <1>2
  <1>3. CASE a = d
    BY <1>3, FitsSame
  <1>4. CASE b # d /\ a # d
    <2>1. IsPointer(b) /\ IsPointer(d)
      BY <1>1, <1>4, FitsPlainly
    <2>2. IsPointer(a)
      <3>1. CASE a = b
        BY <2>1, <3>1
      <3>2. CASE a # b
        BY <3>2, FitsPlainly
      <3>3. QED
        BY <3>1, <3>2
    <2>3. /\ a.of \in Type /\ b.of \in Type /\ d.of \in Type
          /\ Depth(a.of) + Depth(b.of) + Depth(d.of) < Depth(a) + Depth(b) + Depth(d)
      BY <2>1, <2>2, TypeCases
    <2>4. IsConst(a.of) /\ ~IsStrict(a.of)
      BY <2>2, <2>3, StrictCases DEF IsConst, IsPointer, Struct
    <2>5. Shortens(b, d, AsConst(c)) /\ Fits(b.of, d.of, InPlace(AsConst(c)))
      BY <1>1, <1>4, <2>1, FitsPointer
    <2>6. Shortens(a, b, c) /\ Fits(a.of, b.of, InPlace(c))
      <3>1. CASE a = b
        BY <1>1, <2>2, <2>3, <3>1, FitsSame, ShortensCases
      <3>2. CASE a # b
        BY <2>1, <2>2, <3>2, FitsPointer
      <3>3. QED
        BY <3>1, <3>2
    <2>7. Fits(a.of, b.of, InPlace(AsConst(c)))
      BY <1>1, <2>3, <2>4, <2>6, ConstIsConst
    <2>8. Fits(a.of, d.of, InPlace(AsConst(c)))
      BY <1>1, <2>3, <2>5, <2>7
    <2>9. Fits(a.of, d.of, InPlace(c))
      BY <1>1, <2>3, <2>4, <2>8, ConstIsConst
    <2>10. Shortens(a, d, c)
      <3>1. a.lifetime \in Nat /\ b.lifetime \in Nat /\ d.lifetime \in Nat
        BY <2>1, <2>2, ShortensCases
      <3>2. a.lifetime = b.lifetime \/ a.lifetime > b.lifetime
        BY <2>1, <2>2, <2>6, ShortensCases
      <3>3. b.lifetime = d.lifetime \/ b.lifetime > d.lifetime
        BY <1>1, <2>1, <2>5, ShortensCases
      <3>4. a.lifetime = d.lifetime \/ a.lifetime > d.lifetime
        BY <3>1, <3>2, <3>3
      <3>5. QED
        BY <2>1, <2>2, <2>4, <3>4, ShortensCases
    <2>11. QED
      BY <1>4, <2>1, <2>2, <2>9, <2>10, FitsPointer
  <1>5. QED
    BY <1>2, <1>3, <1>4

(* require_assignable is transitive: what can be assigned by way of a value *)
(* of a third type can be assigned directly, in every context, with const  *)
(* on any level and whatever relations are asked of the lifetimes.         *)
THEOREM FitsTransitive ==
    ASSUME TypesAreFinite
    PROVE  \A a, b, d \in Type : \A c \in Contexts :
              Fits(a, b, c) /\ Fits(b, d, c) => Fits(a, d, c)
  <1> DEFINE P(a, b, d) == \A c \in Contexts : Fits(a, b, c) /\ Fits(b, d, c) => Fits(a, d, c)
             W == {p \in Type \X Type \X Type : P(p[1], p[2], p[3])}
  <1>1. \A a, b, d \in Type : <<a, b, d>> \in W <=> P(a, b, d)
    OBVIOUS
  <1>2. ASSUME NEW a \in Type, NEW b \in Type, NEW d \in Type,
               \A x, y, z \in Type :
                  Depth(x) + Depth(y) + Depth(z) < Depth(a) + Depth(b) + Depth(d)
                     => <<x, y, z>> \in W
        PROVE  <<a, b, d>> \in W
    <2>1. SUFFICES ASSUME NEW c \in Contexts, Fits(a, b, c), Fits(b, d, c)
                   PROVE  Fits(a, d, c)
      BY <1>1
    <2>2. \A x, y, z \in Type, e \in Contexts :
              /\ Depth(x) + Depth(y) + Depth(z) < Depth(a) + Depth(b) + Depth(d)
              /\ Fits(x, y, e) /\ Fits(y, z, e)
              => Fits(x, z, e)
      BY <1>1, <1>2
    <2> HIDE DEF W, P
    <2>3. /\ AsConst(c) \in Contexts /\ InPlace(c) \in Contexts /\ AsConst(c).const
          /\ AsConst(AsConst(c)) \in Contexts /\ Weaker(c, AsConst(c))
          /\ InPlace(c).const = c.const /\ ~InPlace(c).copy
          /\ c.const \in BOOLEAN /\ c.copy \in BOOLEAN
      BY ContextCases DEF Weaker
    <2>4. /\ Depth(a) \in Nat /\ Depth(b) \in Nat /\ Depth(d) \in Nat
      BY TypeCases
    <2>5. /\ Fits(a, b, AsConst(c)) /\ Fits(b, d, AsConst(c))
      BY <2>1, <2>3, WeakerAccepts
    <2>6. CASE a = b \/ b = d \/ a = d
      BY <2>1, <2>6, FitsSame
    <2>7. CASE a # b /\ b # d /\ a # d /\ IsConst(a)
      <3>1. /\ a.of \in Type /\ Bare(b) \in Type /\ Bare(d) \in Type /\ ~IsConst(a.of)
            /\ Depth(a.of) < Depth(a) /\ Depth(a.of) \in Nat
            /\ Depth(Bare(b)) <= Depth(b) /\ Depth(Bare(b)) \in Nat
            /\ Depth(Bare(d)) <= Depth(d) /\ Depth(Bare(d)) \in Nat
            /\ ~IsConst(Bare(b)) /\ ~IsConst(Bare(d))
        BY <2>7, TypeCases DEF Bare
      <3>2. Fits(a.of, Bare(b), AsConst(c))
        BY <2>1, <2>7, FitsToConst
      <3>3. Fits(Bare(b), Bare(d), AsConst(c))
        <4>1. CASE IsConst(b)
          <5>1. Fits(b.of, Bare(d), AsConst(c)) /\ Bare(b) = b.of
            BY <2>1, <2>7, <4>1, FitsToConst DEF Bare
          <5>2. QED
            BY <5>1
        <4>2. CASE ~IsConst(b) /\ IsConst(d)
          <5>1. Fits(b, d.of, AsConst(c))
            BY <2>3, <2>5, <4>2, FitsFromConst
          <5>2. QED
            BY <4>2, <5>1 DEF Bare
        <4>3. CASE ~IsConst(b) /\ ~IsConst(d)
          BY <2>5, <4>3 DEF Bare
        <4>4. QED
          BY <4>1, <4>2, <4>3
      <3>4. Depth(a.of) + Depth(Bare(b)) + Depth(Bare(d)) < Depth(a) + Depth(b) + Depth(d)
        BY <2>4, <3>1
      <3>5. Fits(a.of, Bare(d), AsConst(c))
        BY <2>2, <2>3, <3>1, <3>2, <3>3, <3>4
      <3>6. QED
        BY <2>7, <3>5, FitsToConst
    <2>8. CASE a # b /\ b # d /\ a # d /\ ~IsConst(a) /\ IsConst(b)
      <3>1. /\ b.of \in Type /\ ~IsConst(b.of) /\ Bare(d) \in Type /\ ~IsConst(Bare(d))
            /\ Depth(b.of) < Depth(b) /\ Depth(b.of) \in Nat
            /\ Depth(Bare(d)) <= Depth(d) /\ Depth(Bare(d)) \in Nat
        BY <2>8, TypeCases DEF Bare
      <3>2. (c.const \/ (c.copy /\ ~IsStrict(a))) /\ Fits(a, b.of, c)
        BY <2>1, <2>8, FitsFromConst
      <3>3. Fits(b.of, Bare(d), AsConst(c))
        BY <2>1, <2>8, FitsToConst
      <3>4. Depth(a) + Depth(b.of) + Depth(Bare(d)) < Depth(a) + Depth(b) + Depth(d)
        BY <2>4, <3>1
      <3>5. Fits(a, Bare(d), c)
        <4>1. CASE c.const
          <5>1. Weaker(AsConst(c), c)
            BY <4>1 DEF Weaker
          <5>2. Fits(b.of, Bare(d), c)
            BY <2>3, <3>1, <3>3, <5>1, WeakerAccepts
          <5>3. QED
            BY <2>2, <3>1, <3>2, <3>4, <5>2
        <4>2. CASE ~c.const
          <5>1. \A x, y, z \in Type, e \in Contexts :
                  /\ Depth(x) + Depth(y) + Depth(z) < Depth(a) + Depth(b.of) + Depth(Bare(d))
                  /\ Fits(x, y, e) /\ Fits(y, z, e)
                  => Fits(x, z, e)
            <6>1. SUFFICES ASSUME NEW x \in Type, NEW y \in Type, NEW z \in Type,
                                  NEW e \in Contexts,
                                  Depth(x) + Depth(y) + Depth(z)
                                     < Depth(a) + Depth(b.of) + Depth(Bare(d)),
                                  Fits(x, y, e), Fits(y, z, e)
                           PROVE  Fits(x, z, e)
              OBVIOUS
            <6>2. Depth(x) \in Nat /\ Depth(y) \in Nat /\ Depth(z) \in Nat
              BY TypeCases
            <6>3. Depth(x) + Depth(y) + Depth(z) < Depth(a) + Depth(b) + Depth(d)
              BY <2>4, <3>1, <3>4, <6>1, <6>2
            <6>4. QED
              BY <2>2, <6>1, <6>3
          <5>2. QED
            BY <2>8, <3>1, <3>2, <3>3, <4>2, <5>1, ThroughConst
        <4>3. QED
          BY <4>1, <4>2
      <3>6. CASE IsConst(d)
        BY <2>8, <3>2, <3>5, <3>6, FitsFromConst DEF Bare
      <3>7. CASE ~IsConst(d)
        BY <3>5, <3>7 DEF Bare
      <3>8. QED
        BY <3>6, <3>7
    <2>9. CASE a # b /\ b # d /\ a # d /\ ~IsConst(a) /\ ~IsConst(b) /\ IsConst(d)
      <3>1. d.of \in Type /\ Depth(d.of) < Depth(d) /\ Depth(d.of) \in Nat
        BY <2>9, TypeCases
      <3>2. (c.const \/ (c.copy /\ ~IsStrict(b))) /\ Fits(b, d.of, c)
        BY <2>1, <2>9, FitsFromConst
      <3>3. c.const \/ (c.copy /\ ~IsStrict(a))
        BY <2>1, <2>9, <3>2, StrictBack
      <3>4. Depth(a) + Depth(b) + Depth(d.of) < Depth(a) + Depth(b) + Depth(d)
        BY <2>4, <3>1
      <3>5. Fits(a, d.of, c)
        BY <2>1, <2>2, <3>1, <3>2, <3>4
      <3>6. QED
        BY <2>9, <3>3, <3>5, FitsFromConst
    <2>10. CASE a # b /\ b # d /\ a # d /\ ~IsConst(a) /\ ~IsConst(b) /\ ~IsConst(d)
      <3>1. IsPointer(a) /\ IsPointer(b) /\ IsPointer(d)
        BY <2>1, <2>10, FitsPlainly
      <3>2. /\ a.of \in Type /\ b.of \in Type /\ d.of \in Type
            /\ Depth(a.of) + Depth(b.of) + Depth(d.of) < Depth(a) + Depth(b) + Depth(d)
        BY <3>1, TypeCases
      <3>3. Shortens(a, b, c) /\ Fits(a.of, b.of, InPlace(c))
        BY <2>1, <2>10, <3>1, FitsPointer
      <3>4. Shortens(b, d, c) /\ Fits(b.of, d.of, InPlace(c))
        BY <2>1, <2>10, <3>1, FitsPointer
      <3>5. Fits(a.of, d.of, InPlace(c))
        BY <2>2, <2>3, <3>2, <3>3, <3>4
      <3>6. c.const \/ IsStrict(b.of) \/ ~IsStrict(a.of) \/ ~c.copy
        <4>1. CASE ~c.const /\ ~IsConst(a.of)
          <5>1. ~IsConst(b.of)
            BY <2>3, <3>2, <3>3, <4>1, FitsFromConst
          <5>2. QED
            BY <2>3, <3>2, <3>3, <4>1, <5>1, StrictBack
        <4>2. CASE IsConst(a.of)
          BY <3>2, <4>2, StrictCases DEF IsConst, IsPointer, Struct
        <4>3. QED
          BY <4>1, <4>2
      <3>7. Shortens(a, d, c)
        <4>1. a.lifetime \in Nat /\ b.lifetime \in Nat /\ d.lifetime \in Nat
          BY <3>1, ShortensCases
        <4>2. \/ a.lifetime = b.lifetime
              \/ (c.const \/ (c.copy /\ ~IsStrict(a.of))) /\ a.lifetime > b.lifetime
          BY <3>1, <3>3, ShortensCases
        <4>3. \/ b.lifetime = d.lifetime
              \/ (c.const \/ (c.copy /\ ~IsStrict(b.of))) /\ b.lifetime > d.lifetime
          BY <3>1, <3>4, ShortensCases
        <4>4. \/ a.lifetime = d.lifetime
              \/ (c.const \/ (c.copy /\ ~IsStrict(a.of))) /\ a.lifetime > d.lifetime
          BY <3>6, <4>1, <4>2, <4>3
        <4>5. QED
          BY <3>1, <4>4, ShortensCases
      <3>8. QED
        BY <2>10, <3>1, <3>5, <3>7, FitsPointer
    <2>11. QED
      BY <2>6, <2>7, <2>8, <2>9, <2>10
  <1>3. \A a, b, d \in Type : <<a, b, d>> \in W
    <2> HIDE DEF W
    <2>1. QED
      BY <1>2, TriplesByDepth
  <1>4. QED
    BY <1>1, <1>3

-----------------------------------------------------------------------------
(* Const aside. *)

Neither == [copy |-> FALSE, const |-> FALSE]

LEMMA NeitherCases == Neither \in Contexts /\ ~Neither.copy /\ ~Neither.const
  BY DEF Neither, Contexts

LEMMA BareCases ==
    ASSUME TypesAreFinite, NEW t \in Type
    PROVE  /\ Bare(t) \in Type /\ ~IsConst(Bare(t))
           /\ ~IsConst(t) => Bare(t) = t
  BY TypeCases DEF Bare

LEMMA BareFits ==
    ASSUME TypesAreFinite, NEW l \in Type, NEW r \in Type, NEW c \in Contexts, Fits(l, r, c)
    PROVE  Fits(Bare(l), Bare(r), AsConst(c))
  <1>1. AsConst(c) \in Contexts /\ AsConst(c).const /\ Weaker(c, AsConst(c))
    BY ContextCases DEF Weaker
  <1>2. Fits(l, r, AsConst(c))
    BY <1>1, WeakerAccepts
  <1>3. Bare(l) \in Type /\ Bare(r) \in Type
    BY BareCases
  <1>4. CASE l = r
    BY <1>1, <1>3, <1>4, FitsSame
  <1>5. CASE l # r /\ IsConst(l)
    BY <1>5, FitsToConst DEF Bare
  <1>6. CASE l # r /\ ~IsConst(l) /\ IsConst(r)
    BY <1>1, <1>2, <1>6, FitsFromConst DEF Bare
  <1>7. CASE l # r /\ ~IsConst(l) /\ ~IsConst(r)
    BY <1>2, <1>7 DEF Bare
  <1>8. QED
    BY <1>4, <1>5, <1>6, <1>7

LEMMA ConstFits ==
    ASSUME TypesAreFinite, NEW l \in Type, NEW r \in Type, NEW c \in Contexts, NEW d \in Contexts,
           IsConst(l), Fits(Bare(l), Bare(r), AsConst(c))
    PROVE  Fits(l, r, d)
  <1>1. CASE l = r
    BY <1>1, FitsSame
  <1>2. CASE l # r
    <2>1. Fits(l, r, c)
      BY <1>2, FitsToConst DEF Bare
    <2>2. QED
      BY <2>1, ConstIsConst
  <1>3. QED
    BY <1>1, <1>2

-----------------------------------------------------------------------------
(* What a pointer points to. *)

LEMMA DereferenceCases ==
    ASSUME TypesAreFinite, NEW t \in Type
    PROVE  /\ Dereference(t) # NoType <=> IsPointer(Bare(t))
           /\ IsPointer(Bare(t)) =>
                 /\ Dereference(t) \in Type
                 /\ Bare(Dereference(t)) = Bare(Bare(t).of)
                 /\ IsConst(Dereference(t)) <=> IsConst(t) \/ IsConst(Bare(t).of)
                 /\ ~IsConst(t) => Dereference(t) = t.of
                 /\ PointedLifetime(t) = Bare(t).lifetime
                 /\ Bare(t).lifetime \in Lifetimes
           /\ ~IsPointer(Bare(t)) => PointedLifetime(t) = NoLifetime
  <1>1. CASE IsPointer(t)
    <2>1. t.of \in Type /\ t.lifetime \in Lifetimes /\ Bare(t) = t /\ ~IsConst(t)
      BY <1>1, TypeCases DEF Bare, IsConst, IsPointer
    <2>2. Dereference(t) = t.of /\ PointedLifetime(t) = t.lifetime
      BY <1>1 DEF Dereference, PointedLifetime, IsPointer
    <2>3. t.of # NoType
      BY <2>1, TypeCases
    <2>4. QED
      BY <1>1, <2>1, <2>2, <2>3
  <1>2. CASE ~IsConst(t) /\ ~IsPointer(t)
    <2>1. t \in {Integral, Struct} /\ Bare(t) = t
      BY <1>2, TypeCases DEF Bare
    <2>2. Dereference(t) = NoType /\ PointedLifetime(t) = NoLifetime
      BY <2>1 DEF Dereference, PointedLifetime, Integral, Struct
    <2>3. QED
      BY <1>2, <2>1, <2>2
  <1>3. CASE IsConst(t)
    <2> DEFINE u == t.of
    <2>1. u \in Type /\ ~IsConst(u) /\ Bare(t) = u
      BY <1>3, TypeCases DEF Bare
    <2>2. Dereference(t) = InheritConst(Dereference(u)) /\ PointedLifetime(t) = PointedLifetime(u)
      <3>1. InnerDereference(u) = Dereference(u) /\ InnerLifetime(u) = PointedLifetime(u)
        BY <2>1 DEF TypesAreFinite, TypesUnfold
      <3>2. Dereference(t) = InheritConst(InnerDereference(u))
        BY <1>3 DEF Dereference, IsConst
      <3>3. PointedLifetime(t) = InnerLifetime(u)
        BY <1>3 DEF PointedLifetime, IsConst
      <3>4. QED
        BY <3>1, <3>2, <3>3
    <2> HIDE DEF u
    <2>3. CASE IsPointer(u)
      <3> DEFINE w == u.of
      <3>1. w \in Type /\ u.lifetime \in Lifetimes
        BY <2>1, <2>3, TypeCases
      <3>2. Dereference(u) = w /\ PointedLifetime(u) = u.lifetime
        BY <2>3 DEF Dereference, PointedLifetime, IsPointer
      <3>3. Dereference(t) = IF IsConst(w) THEN w ELSE ConstOf(w)
        BY <2>2, <3>1, <3>2, TypeCases DEF InheritConst, IsConst
      <3> HIDE DEF w
      <3>4. /\ Dereference(t) \in Type /\ Dereference(t) # NoType
            /\ IsConst(Dereference(t)) /\ Bare(Dereference(t)) = Bare(w)
        <4>1. CASE IsConst(w)
          BY <3>1, <3>3, <4>1, TypeCases
        <4>2. CASE ~IsConst(w)
          <5>1. ConstOf(w) \in Type
            BY <3>1, <4>2 DEF TypesAreFinite, TypeUniverse
          <5>2. IsConst(ConstOf(w)) /\ ConstOf(w).of = w /\ ConstOf(w) # NoType
            BY DEF ConstOf, IsConst, NoType
          <5>3. QED
            BY <3>3, <4>2, <5>1, <5>2 DEF Bare
        <4>3. QED
          BY <4>1, <4>2
      <3>5. QED
        BY <1>3, <2>1, <2>2, <2>3, <3>1, <3>2, <3>4 DEF w
    <2>4. CASE ~IsPointer(u)
      <3>1. u \in {Integral, Struct}
        BY <2>1, <2>4, TypeCases
      <3>2. Dereference(u) = NoType /\ PointedLifetime(u) = NoLifetime
        BY <3>1 DEF Dereference, PointedLifetime, Integral, Struct
      <3>3. Dereference(t) = NoType
        BY <2>2, <3>2 DEF InheritConst, NoType
      <3>4. QED
        BY <1>3, <2>1, <2>2, <2>4, <3>2, <3>3
    <2>5. QED
      BY <2>3, <2>4
  <1>4. QED
    BY <1>1, <1>2, <1>3

(* What two pointers point to fits when the pointers do, and lives longer. *)
LEMMA PointeeFits ==
    ASSUME TypesAreFinite, NEW l \in Type, NEW r \in Type, NEW c \in Contexts,
           ~c.const, Fits(l, r, c), Dereference(r) # NoType
    PROVE  /\ Dereference(l) # NoType
           /\ Fits(Dereference(l), Dereference(r), Neither)
           /\ PointedLifetime(r) <= PointedLifetime(l)
  <1> DEFINE L == Bare(l)
             R == Bare(r)
  <1>1. /\ AsConst(c) \in Contexts /\ AsConst(c).const /\ InPlace(AsConst(c)) \in Contexts
        /\ InPlace(AsConst(c)).const /\ Neither \in Contexts
        /\ InPlace(c) \in Contexts /\ Weaker(InPlace(c), Neither)
    BY ContextCases, NeitherCases DEF Weaker
  <1>2. L \in Type /\ R \in Type /\ ~IsConst(L) /\ ~IsConst(R) /\ IsPointer(R)
    BY BareCases, DereferenceCases
  <1>3. Fits(L, R, AsConst(c))
    BY BareFits
  <1>4. IsPointer(L)
    <2>1. CASE L = R
      BY <1>2, <2>1
    <2>2. CASE L # R
      BY <1>1, <1>2, <1>3, <2>2, FitsPlainly
    <2>3. QED
      BY <2>1, <2>2
  <1>5. L.of \in Type /\ R.of \in Type
    BY <1>2, <1>4, TypeCases
  <1>6. Shortens(L, R, AsConst(c)) /\ Fits(L.of, R.of, InPlace(AsConst(c)))
    <2>1. CASE L = R
      BY <1>1, <1>2, <1>4, <1>5, <2>1, FitsSame, ShortensCases
    <2>2. CASE L # R
      BY <1>1, <1>2, <1>3, <1>4, <2>2, FitsPointer
    <2>3. QED
      BY <2>1, <2>2
  <1>7. R.lifetime <= L.lifetime
    BY <1>1, <1>2, <1>4, <1>6, ShortensCases
  <1>8. /\ Dereference(l) \in Type /\ Dereference(r) \in Type /\ Dereference(l) # NoType
        /\ Bare(Dereference(l)) = Bare(L.of) /\ Bare(Dereference(r)) = Bare(R.of)
        /\ PointedLifetime(l) = L.lifetime /\ PointedLifetime(r) = R.lifetime
        /\ IsConst(Dereference(l)) <=> IsConst(l) \/ IsConst(L.of)
        /\ ~IsConst(l) => Dereference(l) = l.of
        /\ ~IsConst(r) => Dereference(r) = r.of
    BY <1>2, <1>4, DereferenceCases
  <1> HIDE DEF L, R
  <1>9. CASE IsConst(Dereference(l))
    <2>1. Fits(Bare(L.of), Bare(R.of), AsConst(InPlace(AsConst(c))))
      BY <1>1, <1>5, <1>6, BareFits
    <2>2. QED
      BY <1>1, <1>7, <1>8, <1>9, <2>1, ConstFits
  <1>10. CASE ~IsConst(Dereference(l))
    <2>1. ~IsConst(l) /\ ~IsConst(l.of) /\ L = l
      BY <1>8, <1>10, BareCases DEF L
    <2>2. IsStrict(l)
      BY <1>4, <2>1, StrictCases
    <2>3. ~IsConst(r)
      BY <2>1, <2>2, FitsFromConst
    <2>4. R = r
      BY <2>3, BareCases DEF R
    <2>5. Fits(l.of, r.of, Neither)
      <3>1. CASE l = r
        BY <1>1, <1>5, <2>1, <3>1, FitsSame
      <3>2. CASE l # r
        <4>1. Fits(l.of, r.of, InPlace(c))
          BY <1>1, <1>2, <1>4, <2>1, <2>4, <3>2, FitsPointer
        <4>2. l.of \in Type /\ r.of \in Type
          BY <1>5, <2>1, <2>4
        <4>3. QED
          BY <1>1, <4>1, <4>2, WeakerAccepts
      <3>3. QED
        BY <3>1, <3>2
    <2>6. QED
      BY <1>7, <1>8, <2>1, <2>3, <2>5
  <1>11. QED
    BY <1>9, <1>10

-----------------------------------------------------------------------------
(* Shapes. *)

LEMMA ShapeCases ==
    ASSUME TypesAreFinite, NEW t \in Type
    PROVE  /\ Shape(Bare(t)) = Shape(t)
           /\ IsPointer(t) => Shape(t) = [is |-> "pointer", of |-> Shape(t.of)]
  <1>1. CASE IsConst(t)
    <2>1. t.of \in Type
      BY <1>1, TypeCases
    <2>2. InnerShape(t.of) = Shape(t.of)
      BY <2>1 DEF TypesAreFinite, TypesUnfold
    <2>3. Shape(t) = InnerShape(t.of)
      BY <1>1 DEF Shape, IsConst, IsPointer
    <2>4. QED
      BY <1>1, <2>2, <2>3 DEF Bare, IsConst, IsPointer
  <1>2. CASE IsPointer(t)
    <2>1. t.of \in Type /\ ~IsConst(t)
      BY <1>2, TypeCases DEF IsConst, IsPointer
    <2>2. InnerShape(t.of) = Shape(t.of)
      BY <2>1 DEF TypesAreFinite, TypesUnfold
    <2>3. Shape(t) = [is |-> "pointer", of |-> InnerShape(t.of)]
      BY <1>2, <2>1 DEF Shape
    <2>4. QED
      BY <2>1, <2>2, <2>3 DEF Bare
  <1>3. CASE ~IsConst(t) /\ ~IsPointer(t)
    BY <1>3 DEF Bare
  <1>4. QED
    BY <1>1, <1>2, <1>3

(* require_assignable only drops or adds const and compares lifetimes: what *)
(* it accepts is the same type otherwise.                                  *)
THEOREM FitsHaveShape ==
    ASSUME TypesAreFinite
    PROVE  \A l, r \in Type : \A c \in Contexts : Fits(l, r, c) => Shape(l) = Shape(r)
  <1> DEFINE P(l, r) == \A c \in Contexts : Fits(l, r, c) => Shape(l) = Shape(r)
             W == {p \in Type \X Type : P(p[1], p[2])}
  <1>1. \A l, r \in Type : <<l, r>> \in W <=> P(l, r)
    OBVIOUS
  <1>2. ASSUME NEW l \in Type, NEW r \in Type,
               \A s, t \in Type : Depth(s) + Depth(t) < Depth(l) + Depth(r) => <<s, t>> \in W
        PROVE  <<l, r>> \in W
    <2>1. SUFFICES ASSUME NEW c \in Contexts, Fits(l, r, c)
                   PROVE  Shape(l) = Shape(r)
      BY <1>1
    <2>2. \A s, t \in Type : Depth(s) + Depth(t) < Depth(l) + Depth(r) => P(s, t)
      BY <1>1, <1>2
    <2> HIDE DEF W
    <2> DEFINE L == Bare(l)
               R == Bare(r)
    <2>3. L \in Type /\ R \in Type /\ ~IsConst(L) /\ ~IsConst(R)
      BY BareCases
    <2>4. Fits(L, R, AsConst(c)) /\ AsConst(c) \in Contexts /\ InPlace(AsConst(c)) \in Contexts
      BY <2>1, BareFits, ContextCases
    <2>5. Shape(L) = Shape(l) /\ Shape(R) = Shape(r)
      BY ShapeCases
    <2>6. Depth(L) + Depth(R) <= Depth(l) + Depth(r)
      <3>1. Depth(L) <= Depth(l) /\ Depth(R) <= Depth(r)
        BY TypeCases DEF Bare
      <3>2. /\ Depth(L) \in Nat /\ Depth(l) \in Nat /\ Depth(R) \in Nat /\ Depth(r) \in Nat
        BY <2>3, TypeCases
      <3> HIDE DEF L, R
      <3>3. QED
        BY <3>1, <3>2
    <2> HIDE DEF L, R
    <2>7. CASE L = R
      BY <2>5, <2>7
    <2>8. CASE L # R
      <3>1. IsPointer(L) /\ IsPointer(R)
        BY <2>3, <2>4, <2>8, FitsPlainly
      <3>2. /\ L.of \in Type /\ R.of \in Type
            /\ Depth(L.of) + Depth(R.of) < Depth(l) + Depth(r)
        <4>1. /\ L.of \in Type /\ R.of \in Type
              /\ Depth(L.of) < Depth(L) /\ Depth(R.of) < Depth(R)
          BY <2>3, <3>1, TypeCases
        <4>2. /\ Depth(L) \in Nat /\ Depth(l) \in Nat /\ Depth(R) \in Nat /\ Depth(r) \in Nat
              /\ Depth(L.of) \in Nat /\ Depth(R.of) \in Nat
          BY <2>3, <4>1, TypeCases
        <4>3. QED
          BY <2>6, <4>1, <4>2
      <3>3. Fits(L.of, R.of, InPlace(AsConst(c)))
        BY <2>3, <2>4, <2>8, <3>1, FitsPointer
      <3>4. Shape(L.of) = Shape(R.of)
        BY <2>2, <2>4, <3>2, <3>3
      <3>5. QED
        BY <2>3, <2>5, <3>1, <3>4, ShapeCases
    <2>9. QED
      BY <2>7, <2>8
  <1>3. \A l, r \in Type : <<l, r>> \in W
    <2> HIDE DEF W
    <2>1. QED
      BY <1>2, PairsByDepth
  <1>4. QED
    BY <1>1, <1>3

-----------------------------------------------------------------------------
(* Where neither a copy nor const helps, only const is accepted to differ, *)
(* and what is behind it.                                                  *)

LEMMA SameCases ==
    ASSUME TypesAreFinite, NEW l \in Type, NEW r \in Type
    PROVE  /\ IsConst(l) => SameUpToConst(l, r)
           /\ IsPointer(l) => (SameUpToConst(l, r) <=> /\ IsPointer(r) /\ l.lifetime = r.lifetime
                                                       /\ SameUpToConst(l.of, r.of))
           /\ ~IsConst(l) /\ ~IsPointer(l) => (SameUpToConst(l, r) <=> l = r)
  <1>1. CASE IsPointer(l)
    <2>1. ~IsConst(l)
      BY <1>1 DEF IsConst, IsPointer
    <2>2. SameUpToConst(l, r) <=> /\ IsPointer(r) /\ l.lifetime = r.lifetime
                                  /\ InnerSame(l.of, r.of)
      BY <1>1, <2>1 DEF SameUpToConst
    <2>3. IsPointer(r) => InnerSame(l.of, r.of) = SameUpToConst(l.of, r.of)
      BY <1>1, TypeCases DEF TypesAreFinite, TypesUnfold
    <2>4. QED
      BY <1>1, <2>1, <2>2, <2>3
  <1>2. CASE ~IsPointer(l)
    BY <1>2 DEF SameUpToConst
  <1>3. QED
    BY <1>1, <1>2

LEMMA FitsAreSame ==
    ASSUME TypesAreFinite
    PROVE  \A l, r \in Type : Fits(l, r, Neither) => SameUpToConst(l, r)
  <1> DEFINE P(l, r) == Fits(l, r, Neither) => SameUpToConst(l, r)
             W == {p \in Type \X Type : P(p[1], p[2])}
  <1>1. \A l, r \in Type : <<l, r>> \in W <=> P(l, r)
    OBVIOUS
  <1>2. ASSUME NEW l \in Type, NEW r \in Type,
               \A s, t \in Type : Depth(s) + Depth(t) < Depth(l) + Depth(r) => <<s, t>> \in W
        PROVE  <<l, r>> \in W
    <2>1. SUFFICES ASSUME Fits(l, r, Neither), ~IsConst(l)
                   PROVE  SameUpToConst(l, r)
      BY <1>1, SameCases
    <2>2. \A s, t \in Type : Depth(s) + Depth(t) < Depth(l) + Depth(r) => P(s, t)
      BY <1>1, <1>2
    <2> HIDE DEF W
    <2>3. /\ Neither \in Contexts /\ ~Neither.copy /\ ~Neither.const
          /\ InPlace(Neither) \in Contexts /\ Weaker(InPlace(Neither), Neither)
      BY ContextCases, NeitherCases DEF Weaker
    <2>4. CASE ~IsPointer(l)
      <3>1. ~IsConst(r)
        BY <2>1, <2>3, FitsFromConst
      <3>2. l = r
        BY <2>1, <2>3, <2>4, <3>1, FitsPlainly
      <3>3. QED
        BY <2>1, <2>4, <3>2, SameCases
    <2>5. CASE IsPointer(l)
      <3>1. IsPointer(r) /\ l.lifetime = r.lifetime /\ Fits(l.of, r.of, Neither)
        <4>1. CASE l = r
          <5>1. l.of \in Type
            BY <2>5, TypeCases
          <5>2. QED
            BY <2>3, <2>5, <4>1, <5>1, FitsSame
        <4>2. CASE l # r
          <5>1. ~IsConst(r)
            BY <2>1, <2>3, FitsFromConst
          <5>2. IsPointer(r)
            BY <2>1, <2>3, <4>2, <5>1, FitsPlainly
          <5>3. l.of \in Type /\ r.of \in Type
            BY <2>5, <5>2, TypeCases
          <5>4. Shortens(l, r, Neither) /\ Fits(l.of, r.of, InPlace(Neither))
            BY <2>1, <2>3, <2>5, <4>2, <5>2, FitsPointer
          <5>5. Fits(l.of, r.of, Neither)
            BY <2>3, <5>3, <5>4, WeakerAccepts
          <5>6. QED
            BY <2>3, <2>5, <5>2, <5>4, <5>5, ShortensCases
        <4>3. QED
          BY <4>1, <4>2
      <3>2. l.of \in Type /\ r.of \in Type /\ Depth(l.of) + Depth(r.of) < Depth(l) + Depth(r)
        BY <2>5, <3>1, TypeCases
      <3>3. SameUpToConst(l.of, r.of)
        BY <2>2, <3>1, <3>2
      <3>4. QED
        BY <2>5, <3>1, <3>3, SameCases
    <2>6. QED
      BY <2>4, <2>5
  <1>3. \A l, r \in Type : <<l, r>> \in W
    <2> HIDE DEF W
    <2>1. QED
      BY <1>2, PairsByDepth
  <1>4. QED
    BY <1>1, <1>3

-----------------------------------------------------------------------------
(* Pointers, and what they point to. *)

(* What types of the same shape point to has the same shape. *)
LEMMA PointeesHaveShape ==
    ASSUME TypesAreFinite, NEW l \in Type, NEW r \in Type, Shape(l) = Shape(r),
           Dereference(r) # NoType
    PROVE  Dereference(l) # NoType /\ Shape(Dereference(l)) = Shape(Dereference(r))
  <1> DEFINE L == Bare(l)
             R == Bare(r)
  <1>1. L \in Type /\ R \in Type /\ ~IsConst(L) /\ IsPointer(R)
    BY BareCases, DereferenceCases
  <1>2. Shape(L) = [is |-> "pointer", of |-> Shape(R.of)]
    BY <1>1, ShapeCases
  <1>3. IsPointer(L)
    <2>1. SUFFICES ASSUME ~IsPointer(L)
                   PROVE  FALSE
      OBVIOUS
    <2>2. L \in {Integral, Struct}
      BY <1>1, <2>1, TypeCases
    <2>3. Shape(L) = L
      BY <1>1, <2>1 DEF Shape
    <2>4. L.is = "pointer"
      BY <1>2, <2>3
    <2>5. QED
      BY <2>1, <2>4 DEF IsPointer
  <1>4. /\ L.of \in Type /\ R.of \in Type
        /\ Shape(L) = [is |-> "pointer", of |-> Shape(L.of)]
    BY <1>1, <1>3, TypeCases, ShapeCases
  <1>5. Shape(L.of) = Shape(R.of)
    <2> DEFINE f == [is |-> "pointer", of |-> Shape(L.of)]
               g == [is |-> "pointer", of |-> Shape(R.of)]
    <2>1. f = g
      BY <1>2, <1>4
    <2>2. f.of = g.of
      BY <2>1
    <2>3. QED
      BY <2>2
  <1>6. /\ Dereference(l) # NoType /\ Dereference(l) \in Type /\ Dereference(r) \in Type
        /\ Bare(Dereference(l)) = Bare(L.of) /\ Bare(Dereference(r)) = Bare(R.of)
    BY <1>1, <1>3, DereferenceCases
  <1> HIDE DEF L, R
  <1>7. /\ Shape(Dereference(l)) = Shape(Bare(L.of)) /\ Shape(Dereference(r)) = Shape(Bare(R.of))
        /\ Shape(Bare(L.of)) = Shape(L.of) /\ Shape(Bare(R.of)) = Shape(R.of)
    BY <1>4, <1>6, ShapeCases
  <1>8. QED
    BY <1>5, <1>6, <1>7

(* A pointer of a type points to a value of type target, which lives as    *)
(* long as the scope of number lifetime.                                   *)
Points(type, target, lifetime) ==
    /\ Dereference(type) # NoType
    /\ \/ Dereference(type) = target
       \/ IsConst(Dereference(type)) /\ Fits(Dereference(type), target, Neither)
    /\ lifetime <= PointedLifetime(type)

(* A pointer that cannot be written through, or not to something else than *)
(* is there.                                                               *)
Guarded(type, other) == IsConst(Dereference(type)) \/ Dereference(type) = Dereference(other)

(* A copy of a pointer points where the pointer does, rightly. *)
LEMMA PointerCopied ==
    ASSUME TypesAreFinite, NEW l \in Type, NEW r \in Type, NEW c \in Contexts,
           NEW target \in Type, NEW lifetime \in Nat,
           ~c.const, Guarded(l, r), Fits(l, r, c), Points(r, target, lifetime)
    PROVE  Points(l, target, lifetime)
  <1>1. /\ Dereference(l) # NoType
        /\ Fits(Dereference(l), Dereference(r), Neither)
        /\ PointedLifetime(r) <= PointedLifetime(l)
    BY PointeeFits DEF Points
  <1>2. /\ Dereference(l) \in Type /\ Dereference(r) \in Type
        /\ PointedLifetime(l) \in Nat /\ PointedLifetime(r) \in Nat
    BY <1>1, DereferenceCases, LifetimesAssumption DEF Points
  <1>3. Neither \in Contexts
    BY DEF Neither, Contexts
  <1>4. Fits(Dereference(l), target, Neither)
    <2>1. Dereference(r) = target \/ Fits(Dereference(r), target, Neither)
      BY DEF Points
    <2>2. QED
      BY <1>1, <1>2, <1>3, <2>1, FitsTransitive
  <1>5. Dereference(l) = target \/ IsConst(Dereference(l))
    BY DEF Guarded, Points
  <1>6. lifetime <= PointedLifetime(l)
    BY <1>1, <1>2 DEF Points
  <1>7. QED
    BY <1>1, <1>4, <1>5, <1>6 DEF Points

-----------------------------------------------------------------------------
(* Checkers, and what the operations on them do. *)

IsList(s) == \E R : s \in Seq(R)

Checker(scope, errors, constraints, context, type, category) ==
    [scope |-> scope, errors |-> errors, constraints |-> constraints, safety |-> "safe",
     context |-> context, type |-> type, category |-> category]

IsChecker(tc) ==
    /\ tc = Checker(tc.scope, tc.errors, tc.constraints, tc.context, tc.type, tc.category)
    /\ IsList(tc.errors)

(* Something has been reported. *)
Failed(tc) == IsChecker(tc) /\ tc.errors # <<>>

Sound(tc) == IsChecker(tc) /\ tc.constraints \in Seq(Constraints)

LEMMA CheckerFields ==
    ASSUME NEW s, NEW e, NEW k, NEW c, NEW t, NEW g
    PROVE  /\ Checker(s, e, k, c, t, g).scope = s
           /\ Checker(s, e, k, c, t, g).errors = e
           /\ Checker(s, e, k, c, t, g).constraints = k
           /\ Checker(s, e, k, c, t, g).safety = "safe"
           /\ Checker(s, e, k, c, t, g).context = c
           /\ Checker(s, e, k, c, t, g).type = t
           /\ Checker(s, e, k, c, t, g).category = g
           /\ IsList(e) => IsChecker(Checker(s, e, k, c, t, g))
  BY DEF Checker, IsChecker

LEMMA Appended ==
    ASSUME NEW s, IsList(s), NEW x
    PROVE  IsList(Append(s, x)) /\ Append(s, x) # <<>>
  <1>1. PICK R : s \in Seq(R)
    BY DEF IsList
  <1>2. s \in Seq(R \cup {x})
    BY <1>1
  <1>3. Append(s, x) \in Seq(R \cup {x}) /\ Len(Append(s, x)) = Len(s) + 1 /\ Len(s) \in Nat
    BY <1>2
  <1>4. Append(s, x) # <<>>
    BY <1>3
  <1>5. QED
    BY <1>3, <1>4 DEF IsList

LEMMA TwoFields ==
    ASSUME NEW f, NEW x, NEW y
    PROVE  /\ [f EXCEPT !.safety = x, !.context = y] =
                 [[f EXCEPT !.safety = x] EXCEPT !.context = y]
           /\ [f EXCEPT !.type = x, !.category = y] =
                 [[f EXCEPT !.type = x] EXCEPT !.category = y]
           /\ [f EXCEPT !.errors = Append(@, x)] = [f EXCEPT !.errors = Append(f.errors, x)]
  <1>1. [f EXCEPT !.safety = x, !.context = y] = [[f EXCEPT !.safety = x] EXCEPT !.context = y]
    OBVIOUS
  <1>2. [f EXCEPT !.type = x, !.category = y] = [[f EXCEPT !.type = x] EXCEPT !.category = y]
    OBVIOUS
  <1>3. [f EXCEPT !.errors = Append(@, x)] = [f EXCEPT !.errors = Append(f.errors, x)]
    OBVIOUS
  <1>4. QED
    BY <1>1, <1>2, <1>3

(* The updates of a checker, by name. *)
Contexted(tc, context) == [tc EXCEPT !.context = context]
Entered(tc, context) == [tc EXCEPT !.safety = "safe", !.context = context]
Settled(tc) == [tc EXCEPT !.safety = "safe"]
Scoped(tc, scope) == [tc EXCEPT !.scope = scope]
Constrained(tc, constraints) == [tc EXCEPT !.constraints = constraints]

LEMMA UpdatesSpelled ==
    ASSUME NEW s, NEW e, NEW k, NEW c, NEW t, NEW g, NEW x, NEW y,
           NEW tc, tc = Checker(s, e, k, c, t, g)
    PROVE  /\ Report(tc, x) = Checker(s, Append(e, x), k, c, t, g)
           /\ Contexted(tc, x) = Checker(s, e, k, x, t, g)
           /\ Entered(tc, x) = Checker(s, e, k, x, t, g)
           /\ Settled(tc) = tc
           /\ Scoped(tc, x) = Checker(x, e, k, c, t, g)
           /\ Constrained(tc, x) = Checker(s, e, x, c, t, g)
           /\ Typed(tc, x, y) = Checker(s, e, k, c, x, y)
  <1>1. Report(tc, x) = Checker(s, Append(e, x), k, c, t, g)
    <2>1. \A z : [tc EXCEPT !.errors = z] = Checker(s, z, k, c, t, g)
      BY DEF Checker
    <2>2. tc.errors = e
      BY CheckerFields
    <2>3. Report(tc, x) = [tc EXCEPT !.errors = Append(tc.errors, x)]
      BY TwoFields, Zenon DEF Report
    <2>4. QED
      BY <2>1, <2>2, <2>3
  <1>2. [tc EXCEPT !.context = x] = Checker(s, e, k, x, t, g)
    BY DEF Checker
  <1>3. [tc EXCEPT !.safety = "safe"] = tc
    BY DEF Checker
  <1>4. [tc EXCEPT !.safety = "safe", !.context = x] = Checker(s, e, k, x, t, g)
    <2>1. [tc EXCEPT !.safety = "safe", !.context = x] =
             [[tc EXCEPT !.safety = "safe"] EXCEPT !.context = x]
      BY TwoFields, Zenon
    <2>2. QED
      BY <1>2, <1>3, <2>1
  <1>5. [tc EXCEPT !.scope = x] = Checker(x, e, k, c, t, g)
    BY DEF Checker
  <1>6. [tc EXCEPT !.constraints = x] = Checker(s, e, x, c, t, g)
    BY DEF Checker
  <1>7. Typed(tc, x, y) = Checker(s, e, k, c, x, y)
    <2>1. [tc EXCEPT !.type = x] = Checker(s, e, k, c, x, g)
      BY DEF Checker
    <2>2. [Checker(s, e, k, c, x, g) EXCEPT !.category = y] = Checker(s, e, k, c, x, y)
      BY DEF Checker
    <2>3. Typed(tc, x, y) = [[tc EXCEPT !.type = x] EXCEPT !.category = y]
      BY TwoFields, Zenon DEF Typed
    <2>4. QED
      BY <2>1, <2>2, <2>3
  <1>8. QED
    BY <1>1, <1>2, <1>3, <1>4, <1>5, <1>6, <1>7
    DEF Contexted, Entered, Settled, Scoped, Constrained

LEMMA Updates ==
    ASSUME NEW tc, IsChecker(tc), NEW x, NEW y
    PROVE  /\ Report(tc, x) =
                 Checker(tc.scope, Append(tc.errors, x), tc.constraints, tc.context,
                         tc.type, tc.category)
           /\ Contexted(tc, x) =
                 Checker(tc.scope, tc.errors, tc.constraints, x, tc.type, tc.category)
           /\ Entered(tc, x) =
                 Checker(tc.scope, tc.errors, tc.constraints, x, tc.type, tc.category)
           /\ Settled(tc) = tc
           /\ Scoped(tc, x) =
                 Checker(x, tc.errors, tc.constraints, tc.context, tc.type, tc.category)
           /\ Constrained(tc, x) =
                 Checker(tc.scope, tc.errors, x, tc.context, tc.type, tc.category)
           /\ Typed(tc, x, y) =
                 Checker(tc.scope, tc.errors, tc.constraints, tc.context, x, y)
           /\ tc.safety = "safe"
  <1> DEFINE s == tc.scope
             e == tc.errors
             k == tc.constraints
             c == tc.context
             t == tc.type
             g == tc.category
  <1>1. tc = Checker(s, e, k, c, t, g)
    BY DEF IsChecker
  <1>2. tc.safety = "safe"
    <2> HIDE DEF s, e, k, c, t, g
    <2>1. QED
      BY <1>1, CheckerFields
  <1>3. /\ Report(tc, x) = Checker(s, Append(e, x), k, c, t, g)
        /\ Contexted(tc, x) = Checker(s, e, k, x, t, g)
        /\ Entered(tc, x) = Checker(s, e, k, x, t, g)
        /\ Settled(tc) = tc
        /\ Scoped(tc, x) = Checker(x, e, k, c, t, g)
        /\ Constrained(tc, x) = Checker(s, e, x, c, t, g)
        /\ Typed(tc, x, y) = Checker(s, e, k, c, x, y)
    <2> HIDE DEF s, e, k, c, t, g
    <2>1. QED
      BY <1>1, UpdatesSpelled
  <1>4. QED
    BY <1>2, <1>3

(* Whatever is done, what has been reported stays. *)
Keeps(tc, after) == IsChecker(after) /\ (tc.errors # <<>> => after.errors # <<>>)

(* The checker after is tc with a context, a type and a category, accepted *)
(* if tc is and the condition holds.                                       *)
Becomes(tc, after, context, type, category, condition) ==
    /\ Sound(after)
    /\ after.scope = tc.scope /\ after.context = context
    /\ after.type = type /\ after.category = category
    /\ Accepted(after) <=> Accepted(tc) /\ condition

LEMMA ReportKeeps ==
    ASSUME NEW tc, IsChecker(tc), NEW x
    PROVE  Keeps(tc, Report(tc, x)) /\ Failed(Report(tc, x))
  <1>1. IsList(Append(tc.errors, x)) /\ Append(tc.errors, x) # <<>>
    BY Appended DEF IsChecker
  <1>2. Report(tc, x) = Checker(tc.scope, Append(tc.errors, x), tc.constraints, tc.context,
                                tc.type, tc.category)
    BY Updates
  <1>3. IsChecker(Report(tc, x)) /\ Report(tc, x).errors = Append(tc.errors, x)
    <2> DEFINE e == Append(tc.errors, x)
    <2>1. IsList(e) /\ Report(tc, x) = Checker(tc.scope, e, tc.constraints, tc.context,
                                               tc.type, tc.category)
      BY <1>1, <1>2
    <2> HIDE DEF e
    <2>2. IsChecker(Report(tc, x)) /\ Report(tc, x).errors = e
      BY <2>1, CheckerFields
    <2>3. QED
      BY <2>2 DEF e
  <1>4. QED
    BY <1>1, <1>3 DEF Keeps, Failed

LEMMA RequireSpelled ==
    ASSUME NEW tc, IsChecker(tc), NEW l, NEW r
    PROVE  LET verdict == RequireAssignable(l, r, Copying)
               errors == IF verdict.error = "none" THEN tc.errors
                         ELSE Append(tc.errors, verdict.error)
           IN  Require(tc, l, r) = Checker(tc.scope, errors, tc.constraints \o verdict.constraints,
                                           tc.context, tc.type, tc.category)
  <1> DEFINE verdict == RequireAssignable(l, r, Copying)
             reported == ReportUnless(verdict.error = "none", tc, verdict.error)
             errors == IF verdict.error = "none" THEN tc.errors
                       ELSE Append(tc.errors, verdict.error)
  <1> HIDE DEF verdict
  <1>1. reported = Checker(tc.scope, errors, tc.constraints, tc.context, tc.type, tc.category)
    BY Updates DEF ReportUnless, IsChecker
  <1>2. IsList(errors)
    BY Appended DEF IsChecker
  <1> HIDE DEF errors, reported
  <1>3. IsChecker(reported)
    BY <1>1, <1>2, CheckerFields
  <1>4. /\ reported.scope = tc.scope /\ reported.errors = errors
        /\ reported.constraints = tc.constraints /\ reported.context = tc.context
        /\ reported.type = tc.type /\ reported.category = tc.category
    BY <1>1, CheckerFields
  <1>5. Require(tc, l, r) = Constrained(reported, reported.constraints \o verdict.constraints)
    BY Zenon DEF Require, Constrained, reported, verdict
  <1>6. Constrained(reported, reported.constraints \o verdict.constraints) =
           Checker(tc.scope, errors, tc.constraints \o verdict.constraints,
                   tc.context, tc.type, tc.category)
    BY <1>3, <1>4, Updates
  <1>7. QED
    BY <1>5, <1>6 DEF errors, verdict

LEMMA RequireKeeps ==
    ASSUME NEW tc, IsChecker(tc), NEW l, NEW r
    PROVE  Keeps(tc, Require(tc, l, r))
  <1> DEFINE verdict == RequireAssignable(l, r, Copying)
             errors == IF verdict.error = "none" THEN tc.errors
                       ELSE Append(tc.errors, verdict.error)
  <1>1. Require(tc, l, r) = Checker(tc.scope, errors, tc.constraints \o verdict.constraints,
                                    tc.context, tc.type, tc.category)
    BY RequireSpelled
  <1> HIDE DEF verdict
  <1>2. IsList(errors) /\ (tc.errors # <<>> => errors # <<>>)
    BY Appended DEF IsChecker
  <1> HIDE DEF errors
  <1>3. QED
    BY <1>1, <1>2, CheckerFields DEF Keeps

LEMMA CopyingCases == Copying \in Contexts /\ Copying.copy /\ ~Copying.const
  BY DEF Copying, Contexts

LEMMA RequireBecomes ==
    ASSUME TypesAreFinite, NEW tc, Sound(tc), NEW l \in Type, NEW r \in Type
    PROVE  Becomes(tc, Require(tc, l, r), tc.context, tc.type, tc.category,
                   Fits(l, r, Copying))
  <1> DEFINE verdict == RequireAssignable(l, r, Copying)
             errors == IF verdict.error = "none" THEN tc.errors
                       ELSE Append(tc.errors, verdict.error)
             after == Require(tc, l, r)
  <1>1. after = Checker(tc.scope, errors, tc.constraints \o verdict.constraints,
                        tc.context, tc.type, tc.category)
    BY RequireSpelled DEF Sound
  <1>2. verdict \in Verdicts
    BY VerdictTyped, CopyingCases
  <1>3. Fits(l, r, Copying) <=> /\ verdict.error = "none"
                                /\ \A i \in DOMAIN verdict.constraints : Met(verdict.constraints[i])
    BY DEF Fits
  <1> HIDE DEF verdict, after
  <1>4. /\ IsList(errors)
        /\ errors = <<>> <=> tc.errors = <<>> /\ verdict.error = "none"
    BY Appended DEF IsChecker, Sound
  <1> HIDE DEF errors
  <1>5. /\ after.scope = tc.scope /\ after.errors = errors /\ after.context = tc.context
        /\ after.type = tc.type /\ after.category = tc.category
        /\ after.constraints = tc.constraints \o verdict.constraints
        /\ IsChecker(after)
    <2> DEFINE k == tc.constraints \o verdict.constraints
    <2>1. after = Checker(tc.scope, errors, k, tc.context, tc.type, tc.category)
      BY <1>1
    <2> HIDE DEF k
    <2>2. /\ after.scope = tc.scope /\ after.errors = errors /\ after.context = tc.context
          /\ after.type = tc.type /\ after.category = tc.category
          /\ after.constraints = k /\ IsChecker(after)
      BY <1>4, <2>1, CheckerFields
    <2>3. QED
      BY <2>2 DEF k
  <1> DEFINE s == tc.constraints
             v == verdict.constraints
  <1>6. s \in Seq(Constraints) /\ v \in Seq(Constraints)
    BY <1>2 DEF Sound, Verdicts
  <1> HIDE DEF s, v
  <1>7. /\ s \o v \in Seq(Constraints)
        /\ (\A i \in DOMAIN (s \o v) : Met((s \o v)[i]))
              <=> (\A i \in DOMAIN s : Met(s[i])) /\ (\A i \in DOMAIN v : Met(v[i]))
    <2>1. /\ s \o v \in Seq(Constraints) /\ Len(s) \in Nat /\ Len(v) \in Nat
          /\ DOMAIN s = 1..Len(s) /\ DOMAIN v = 1..Len(v)
          /\ DOMAIN (s \o v) = 1..(Len(s) + Len(v))
          /\ \A i \in 1..Len(s) : (s \o v)[i] = s[i]
          /\ \A i \in 1..Len(v) : (s \o v)[i + Len(s)] = v[i]
      BY <1>6
    <2>2. ASSUME \A i \in DOMAIN (s \o v) : Met((s \o v)[i])
          PROVE  (\A i \in DOMAIN s : Met(s[i])) /\ (\A i \in DOMAIN v : Met(v[i]))
      <3>1. ASSUME NEW i \in DOMAIN s
            PROVE  Met(s[i])
        <4>1. i \in 1..Len(s) /\ i \in DOMAIN (s \o v)
          BY <2>1, <3>1
        <4>2. QED
          BY <2>1, <2>2, <4>1
      <3>2. ASSUME NEW i \in DOMAIN v
            PROVE  Met(v[i])
        <4>1. i \in 1..Len(v) /\ i + Len(s) \in DOMAIN (s \o v)
          BY <2>1, <3>2
        <4>2. QED
          BY <2>1, <2>2, <4>1
      <3>3. QED
        BY <3>1, <3>2
    <2>3. ASSUME \A i \in DOMAIN s : Met(s[i]), \A i \in DOMAIN v : Met(v[i])
          PROVE  \A i \in DOMAIN (s \o v) : Met((s \o v)[i])
      <3>1. SUFFICES ASSUME NEW i \in DOMAIN (s \o v)
                     PROVE  Met((s \o v)[i])
        OBVIOUS
      <3>2. CASE i <= Len(s)
        <4>1. i \in 1..Len(s)
          BY <2>1, <3>1, <3>2
        <4>2. QED
          BY <2>1, <2>3, <4>1
      <3>3. CASE ~(i <= Len(s))
        <4>1. i - Len(s) \in 1..Len(v) /\ (i - Len(s)) + Len(s) = i
          BY <2>1, <3>1, <3>3
        <4>2. (s \o v)[i] = v[i - Len(s)]
          BY <2>1, <4>1
        <4>3. QED
          BY <2>1, <2>3, <4>1, <4>2
      <3>4. QED
        BY <3>2, <3>3
    <2>4. QED
      BY <2>1, <2>2, <2>3
  <1>8. after.constraints = s \o v /\ tc.constraints = s /\ verdict.constraints = v
    BY <1>5 DEF s, v
  <1>9. Accepted(after) <=> Accepted(tc) /\ Fits(l, r, Copying)
    BY <1>3, <1>4, <1>5, <1>7, <1>8 DEF Accepted
  <1>10. Sound(after)
    BY <1>5, <1>7, <1>8 DEF Sound
  <1>11. QED
    BY <1>5, <1>9, <1>10 DEF Becomes, after

LEMMA ConstrainKeeps ==
    ASSUME NEW tc, IsChecker(tc), NEW type, NEW kind
    PROVE  Keeps(tc, Constrain(tc, type, kind))
  <1>1. Keeps(tc, tc)
    BY DEF Keeps
  <1>2. Keeps(tc, Contexted(tc, Context(type, kind)))
    <2>1. IsList(tc.errors)
      BY DEF IsChecker
    <2>2. QED
      BY <2>1, Updates, CheckerFields DEF Keeps
  <1>3. Keeps(tc, Require(tc, tc.context.type, type))
    BY RequireKeeps
  <1>4. \/ Constrain(tc, type, kind) = tc
        \/ Constrain(tc, type, kind) = Contexted(tc, Context(type, kind))
        \/ Constrain(tc, type, kind) = Require(tc, tc.context.type, type)
    BY DEF Constrain, Contexted
  <1>5. QED
    BY <1>1, <1>2, <1>3, <1>4

(* A context that knows no type, or only suggests one, takes the type; one *)
(* that has an assignee compares it.                                       *)
LEMMA ConstrainFresh ==
    ASSUME NEW tc, Sound(tc), NEW type,
           tc.context.type = NoType \/ tc.context.kind = "suggestion"
    PROVE  Becomes(tc, Constrain(tc, type, "assignee"), Context(type, "assignee"),
                   tc.type, tc.category, TRUE)
  <1> DEFINE after == Contexted(tc, Context(type, "assignee"))
  <1>1. Constrain(tc, type, "assignee") = after
    BY DEF Constrain, Contexted
  <1>2. after = Checker(tc.scope, tc.errors, tc.constraints, Context(type, "assignee"),
                        tc.type, tc.category)
    BY Updates DEF Sound
  <1>3. IsList(tc.errors)
    BY DEF Sound, IsChecker
  <1> HIDE DEF after
  <1>4. /\ after.scope = tc.scope /\ after.errors = tc.errors
        /\ after.constraints = tc.constraints /\ after.context = Context(type, "assignee")
        /\ after.type = tc.type /\ after.category = tc.category
        /\ IsChecker(after)
    BY <1>2, <1>3, CheckerFields
  <1>5. QED
    BY <1>1, <1>4 DEF Becomes, Accepted, Sound

LEMMA ConstrainAssignee ==
    ASSUME TypesAreFinite, NEW tc, Sound(tc), NEW type \in Type, NEW expected \in Type,
           tc.context = Context(expected, "assignee")
    PROVE  Becomes(tc, Constrain(tc, type, "assignee"), tc.context, tc.type, tc.category,
                   Fits(expected, type, Copying))
  <1>1. tc.context.type = expected /\ tc.context.kind = "assignee" /\ expected # NoType
    BY TypeCases DEF Context
  <1>2. Constrain(tc, type, "assignee") = Require(tc, expected, type)
    BY <1>1 DEF Constrain
  <1>3. QED
    BY <1>2, RequireBecomes

LEMMA SetTypeInfoKeeps ==
    ASSUME NEW tc, IsChecker(tc), NEW category
    PROVE  Keeps(tc, SetTypeInfo(tc, category))
  <1>1. ASSUME NEW q, IsChecker(q), NEW x
        PROVE  Keeps(q, Typed(q, x, category))
    <2>1. Typed(q, x, category) = Checker(q.scope, q.errors, q.constraints, q.context, x, category)
      BY <1>1, Updates
    <2>2. IsList(q.errors)
      BY <1>1 DEF IsChecker
    <2>3. QED
      BY <2>1, <2>2, CheckerFields DEF Keeps
  <1>2. Keeps(tc, Report(tc, "cannot infer expression"))
        /\ IsChecker(Report(tc, "cannot infer expression"))
    BY ReportKeeps DEF Keeps
  <1>3. CASE tc.context.type = NoType
    <2>1. SetTypeInfo(tc, category) =
             Typed(Report(tc, "cannot infer expression"), ErrorType, category)
      BY <1>3 DEF SetTypeInfo
    <2>2. QED
      BY <1>1, <1>2, <2>1 DEF Keeps
  <1>4. CASE tc.context.type # NoType
    <2>1. SetTypeInfo(tc, category) = Typed(tc, tc.context.type, category)
      BY <1>4 DEF SetTypeInfo
    <2>2. QED
      BY <1>1, <2>1
  <1>5. QED
    BY <1>3, <1>4

LEMMA SetTypeInfoBecomes ==
    ASSUME NEW tc, Sound(tc), tc.context.type # NoType, NEW category
    PROVE  Becomes(tc, SetTypeInfo(tc, category), tc.context, tc.context.type, category, TRUE)
  <1> DEFINE t == tc.context.type
             after == Typed(tc, t, category)
  <1>1. SetTypeInfo(tc, category) = after
    BY DEF SetTypeInfo
  <1>2. after = Checker(tc.scope, tc.errors, tc.constraints, tc.context, t, category)
    BY Updates DEF Sound
  <1>3. IsList(tc.errors)
    BY DEF Sound, IsChecker
  <1> HIDE DEF after, t
  <1>4. /\ after.scope = tc.scope /\ after.errors = tc.errors
        /\ after.constraints = tc.constraints /\ after.context = tc.context
        /\ after.type = t /\ after.category = category
        /\ IsChecker(after)
    BY <1>2, <1>3, CheckerFields
  <1>5. QED
    BY <1>1, <1>4 DEF Becomes, Accepted, Sound, t

(* A context is entered, and the parent's gone back to. *)
LEMMA ContextedBecomes ==
    ASSUME NEW tc, Sound(tc), NEW context
    PROVE  /\ Becomes(tc, Contexted(tc, context), context, tc.type, tc.category, TRUE)
           /\ Becomes(tc, Entered(tc, context), context, tc.type, tc.category, TRUE)
  <1> DEFINE after == Checker(tc.scope, tc.errors, tc.constraints, context,
                              tc.type, tc.category)
  <1>1. Contexted(tc, context) = after /\ Entered(tc, context) = after
    BY Updates DEF Sound
  <1>2. IsList(tc.errors)
    BY DEF Sound, IsChecker
  <1>3. /\ after.scope = tc.scope /\ after.errors = tc.errors
        /\ after.constraints = tc.constraints /\ after.context = context
        /\ after.type = tc.type /\ after.category = tc.category
        /\ IsChecker(after)
    BY <1>2, CheckerFields
  <1> HIDE DEF after
  <1>4. QED
    BY <1>1, <1>3 DEF Becomes, Accepted, Sound

LEMMA ContextedKeeps ==
    ASSUME NEW tc, IsChecker(tc), NEW context
    PROVE  /\ Keeps(tc, Contexted(tc, context))
           /\ Keeps(tc, Entered(tc, context))
           /\ Contexted(tc, context).context = context /\ Entered(tc, context).context = context
           /\ Contexted(tc, context).scope = tc.scope /\ Entered(tc, context).scope = tc.scope
  <1> DEFINE after == Checker(tc.scope, tc.errors, tc.constraints, context,
                              tc.type, tc.category)
  <1>1. Contexted(tc, context) = after /\ Entered(tc, context) = after
    BY Updates
  <1>2. IsList(tc.errors)
    BY DEF IsChecker
  <1>3. after.errors = tc.errors /\ IsChecker(after) /\ after.context = context
        /\ after.scope = tc.scope
    BY <1>2, CheckerFields
  <1> HIDE DEF after
  <1>4. QED
    BY <1>1, <1>3 DEF Keeps

LEMMA BackIsContexted ==
    ASSUME NEW tc, NEW child
    PROVE  Back(tc, child) = Contexted(child, tc.context)
  BY DEF Back, Contexted

LEMMA SafetyVerified ==
    ASSUME NEW tc, IsChecker(tc), NEW e
    PROVE  VerifySafety(tc, e) = tc
  <1>1. tc.safety = "safe" /\ Settled(tc) = tc
    BY Updates
  <1>2. ReportUnless(tc.safety = "safe" \/ e.unsafe, tc, "unsafe") = tc
    BY <1>1 DEF ReportUnless
  <1>3. VerifySafety(tc, e) = Settled(tc)
    BY <1>2, Zenon DEF VerifySafety, Settled
  <1>4. QED
    BY <1>1, <1>3

LEMMA ReportUnlessKeeps ==
    ASSUME NEW tc, IsChecker(tc), NEW condition, NEW x
    PROVE  Keeps(tc, ReportUnless(condition, tc, x))
  BY ReportKeeps DEF ReportUnless, Keeps

-----------------------------------------------------------------------------
(* The check of an operand is the check. *)
ChecksUnfold ==
    \A tc, x :
       /\ InnerCheck(tc, Variable(x)) = Check(tc, Variable(x))
       /\ InnerCheck(tc, At(Variable(x))) = Check(tc, At(Variable(x)))
       /\ InnerCheck(tc, AddressOf(Variable(x))) = Check(tc, AddressOf(Variable(x)))
       /\ InnerCheck(tc, AddressOf(At(Variable(x)))) = Check(tc, AddressOf(At(Variable(x))))

\* Checking e takes no report back.
KeptBy(e) == \A tc : IsChecker(tc) => Keeps(tc, Check(tc, e))

Unfolds(e) == \A tc : InnerCheck(tc, e) = Check(tc, e)

LEMMA KeepsTransitive ==
    ASSUME NEW a, NEW b, NEW d, Keeps(a, b), Keeps(b, d)
    PROVE  Keeps(a, d)
  BY DEF Keeps

LEMMA InferredScope ==
    ASSUME NEW tc, NEW x
    PROVE  [tc EXCEPT !.scope[x].type = tc.context.type] =
              Scoped(tc, [tc.scope EXCEPT ![x].type = tc.context.type])
  BY DEF Scoped

LEMMA ConstrainVariableKeeps ==
    ASSUME NEW tc, IsChecker(tc), NEW x
    PROVE  Keeps(tc, ConstrainVariable(tc, x))
  <1> DEFINE inferred == [tc.scope EXCEPT ![x].type = tc.context.type]
  <1>1. \/ ConstrainVariable(tc, x) = Constrain(tc, tc.scope[x].type, "assignee")
        \/ ConstrainVariable(tc, x) = Scoped(tc, inferred)
        \/ ConstrainVariable(tc, x) = Report(tc, "cannot infer variable")
    BY InferredScope, Zenon DEF ConstrainVariable
  <1> HIDE DEF inferred
  <1>2. Keeps(tc, Scoped(tc, inferred))
    <2>1. Scoped(tc, inferred) = Checker(inferred, tc.errors, tc.constraints, tc.context,
                                         tc.type, tc.category)
      BY Updates
    <2>2. IsList(tc.errors)
      BY DEF IsChecker
    <2>3. QED
      BY <2>1, <2>2, CheckerFields DEF Keeps
  <1>3. QED
    BY <1>1, <1>2, ConstrainKeeps, ReportKeeps

LEMMA VariableKeeps ==
    ASSUME NEW x
    PROVE  KeptBy(Variable(x))
  <1> DEFINE e == Variable(x)
  <1>1. SUFFICES ASSUME NEW tc, IsChecker(tc)
                 PROVE  Keeps(tc, Check(tc, e))
    BY DEF KeptBy
  <1>2. e.op = "variable" /\ e.name = x
    BY DEF Variable
  <1> HIDE DEF e
  <1>3. Check(tc, e) = SetTypeInfo(ConstrainVariable(tc, x), LValue(tc.scope[x].lifetime))
    BY <1>2 DEF Check, CheckVariable
  <1>4. Keeps(tc, ConstrainVariable(tc, x)) /\ IsChecker(ConstrainVariable(tc, x))
    BY <1>1, ConstrainVariableKeeps DEF Keeps
  <1>5. QED
    BY <1>3, <1>4, SetTypeInfoKeeps, KeepsTransitive

LEMMA ResolveChildKeeps ==
    ASSUME NEW tc, IsChecker(tc), NEW e, Unfolds(e), KeptBy(e), NEW context
    PROVE  Keeps(tc, ResolveChild(tc, e, context))
  <1> DEFINE entered == Entered(tc, context)
  <1>1. ResolveChild(tc, e, context) = VerifySafety(Check(entered, e), e)
    BY Zenon DEF ResolveChild, Unfolds, Entered
  <1> HIDE DEF entered
  <1>2. Keeps(tc, entered) /\ IsChecker(entered)
    BY ContextedKeeps DEF Keeps, entered
  <1>3. Keeps(entered, Check(entered, e)) /\ IsChecker(Check(entered, e))
    BY <1>2 DEF KeptBy, Keeps
  <1>4. ResolveChild(tc, e, context) = Check(entered, e)
    BY <1>1, <1>3, SafetyVerified
  <1>5. QED
    BY <1>2, <1>3, <1>4, KeepsTransitive

LEMMA ConstrainReachedKeeps ==
    ASSUME NEW tc, IsChecker(tc), NEW reached, NEW error
    PROVE  /\ Keeps(tc, ConstrainReached(tc, reached, error))
           /\ reached = NoType => Failed(ConstrainReached(tc, reached, error))
  <1>1. Failed(Report(tc, error)) /\ IsChecker(Report(tc, error))
    BY ReportKeeps DEF Failed
  <1>2. CASE reached = NoType
    <2>1. ConstrainReached(tc, reached, error) =
             Constrain(Report(tc, error), ErrorType, "assignee")
      BY <1>2 DEF ConstrainReached
    <2>2. Keeps(Report(tc, error), Constrain(Report(tc, error), ErrorType, "assignee"))
      BY <1>1, ConstrainKeeps
    <2>3. QED
      BY <1>1, <2>1, <2>2 DEF Keeps, Failed
  <1>3. CASE reached # NoType
    BY <1>3, ConstrainKeeps DEF ConstrainReached
  <1>4. QED
    BY <1>2, <1>3

LEMMA DereferenceKeeps ==
    ASSUME NEW v, Unfolds(v), KeptBy(v)
    PROVE  KeptBy(At(v))
  <1> DEFINE e == At(v)
  <1>1. SUFFICES ASSUME NEW tc, IsChecker(tc)
                 PROVE  Keeps(tc, Check(tc, e))
    BY DEF KeptBy
  <1>2. e.op = ".*" /\ e.of = v
    BY DEF At
  <1> HIDE DEF e
  <1> DEFINE expected == IF tc.context.type = NoType THEN Unconstrained
                         ELSE Context(PointerTo(tc.context.type, Unsafe), "suggestion")
             operand == ResolveChild(tc, v, expected)
             back == Back(tc, operand)
             reached == IF operand.context.type = NoType THEN back
                        ELSE ConstrainReached(back, Dereference(operand.context.type),
                                              "cannot dereference")
             lifetime == PointedLifetime(operand.type)
  <1>3. Check(tc, e) = SetTypeInfo(reached, IF lifetime = NoLifetime THEN RValue
                                            ELSE LValue(lifetime))
    <2>1. Check(tc, e) = CheckDereference(tc, e)
      BY <1>2 DEF Check
    <2>2. QED
      BY <1>2, <2>1, Zenon DEF CheckDereference
  <1> HIDE DEF expected, lifetime
  <1>4. Keeps(tc, operand) /\ IsChecker(operand)
    BY <1>1, ResolveChildKeeps DEF Keeps
  <1> HIDE DEF operand
  <1>5. Keeps(operand, back) /\ IsChecker(back)
    BY <1>4, ContextedKeeps, BackIsContexted DEF Keeps
  <1> HIDE DEF back
  <1>6. Keeps(back, reached) /\ IsChecker(reached)
    <2>1. Keeps(back, back)
      BY <1>5 DEF Keeps
    <2>2. QED
      BY <1>5, <2>1, ConstrainReachedKeeps DEF Keeps
  <1> HIDE DEF reached
  <1>7. Keeps(tc, reached)
    BY <1>4, <1>5, <1>6, KeepsTransitive
  <1>8. QED
    BY <1>3, <1>6, <1>7, SetTypeInfoKeeps, KeepsTransitive

LEMMA PointToKeeps ==
    ASSUME NEW tc, NEW operand, IsChecker(operand)
    PROVE  Keeps(operand, PointTo(tc, operand))
  <1> DEFINE lvalue == operand.category.is = "lvalue"
             lifetime == IF lvalue THEN operand.category.lifetime ELSE Unsafe
             back == ReportUnless(lvalue, Back(tc, operand), "address of rvalue")
             pointing == IF operand.context.type = NoType THEN back
                         ELSE Constrain(back, PointerTo(operand.context.type, lifetime),
                                        "assignee")
  <1>1. PointTo(tc, operand) = SetTypeInfo(pointing, RValue)
    BY Zenon DEF PointTo
  <1> HIDE DEF lvalue, lifetime
  <1>2. Keeps(operand, Back(tc, operand)) /\ IsChecker(Back(tc, operand))
    BY ContextedKeeps, BackIsContexted DEF Keeps
  <1>3. Keeps(Back(tc, operand), back) /\ IsChecker(back)
    BY <1>2, ReportUnlessKeeps DEF Keeps
  <1> HIDE DEF back
  <1>4. Keeps(back, pointing) /\ IsChecker(pointing)
    <2>1. Keeps(back, back)
      BY <1>3 DEF Keeps
    <2>2. QED
      BY <1>3, <2>1, ConstrainKeeps DEF Keeps
  <1> HIDE DEF pointing
  <1>5. Keeps(operand, pointing)
    BY <1>2, <1>3, <1>4, KeepsTransitive
  <1>6. QED
    BY <1>1, <1>4, <1>5, SetTypeInfoKeeps, KeepsTransitive

LEMMA ExpectPointeeKeeps ==
    ASSUME NEW tc, IsChecker(tc), NEW context
    PROVE  /\ Keeps(tc, ExpectPointee(tc, context))
           /\ context.type # NoType /\ Dereference(context.type) = NoType
                 => Failed(ExpectPointee(tc, context))
  <1> DEFINE fresh == Contexted(tc, Unconstrained)
             reached == Dereference(context.type)
  <1>1. ExpectPointee(tc, context) =
           IF context.type = NoType THEN fresh
           ELSE ConstrainReached(fresh, reached, "cannot dereference")
    BY Zenon DEF ExpectPointee, Contexted
  <1>2. Keeps(tc, fresh) /\ IsChecker(fresh)
    BY ContextedKeeps DEF Keeps
  <1> HIDE DEF fresh, reached
  <1>3. /\ Keeps(fresh, ConstrainReached(fresh, reached, "cannot dereference"))
        /\ reached = NoType => Failed(ConstrainReached(fresh, reached, "cannot dereference"))
    BY <1>2, ConstrainReachedKeeps
  <1>4. QED
    BY <1>1, <1>2, <1>3, KeepsTransitive DEF reached

LEMMA AddressSpelled ==
    ASSUME NEW tc, NEW p
    PROVE  LET expected == ExpectPointee(tc, tc.context)
           IN  Check(tc, AddressOf(p)) = PointTo(tc, ResolveChild(expected, p, expected.context))
  <1> DEFINE e == AddressOf(p)
  <1>1. e.op = ".&" /\ e.of = p
    BY DEF AddressOf
  <1> HIDE DEF e
  <1>2. Check(tc, e) = CheckAddress(tc, e)
    BY <1>1 DEF Check
  <1>3. QED
    BY <1>1, <1>2, Zenon DEF CheckAddress, CheckOperand, e

LEMMA AddressKeeps ==
    ASSUME NEW p, Unfolds(p), KeptBy(p)
    PROVE  KeptBy(AddressOf(p))
  <1>1. SUFFICES ASSUME NEW tc, IsChecker(tc)
                 PROVE  Keeps(tc, Check(tc, AddressOf(p)))
    BY DEF KeptBy
  <1> DEFINE expected == ExpectPointee(tc, tc.context)
             operand == ResolveChild(expected, p, expected.context)
  <1>2. Check(tc, AddressOf(p)) = PointTo(tc, operand)
    BY AddressSpelled
  <1>3. Keeps(tc, expected) /\ IsChecker(expected)
    BY <1>1, ExpectPointeeKeeps DEF Keeps
  <1> HIDE DEF expected
  <1>4. Keeps(expected, operand) /\ IsChecker(operand)
    BY <1>3, ResolveChildKeeps DEF Keeps
  <1> HIDE DEF operand
  <1>5. Keeps(operand, PointTo(tc, operand))
    BY <1>4, PointToKeeps
  <1>6. QED
    BY <1>2, <1>3, <1>4, <1>5, KeepsTransitive

-----------------------------------------------------------------------------
(* In a scope the expression e stands for a value of a type, in a place of *)
(* the lifetime, whatever its context expects.                             *)
Located(e, scope, type, lifetime) ==
    \A tc : Sound(tc) /\ tc.scope = scope =>
       /\ tc.context = Unconstrained =>
             Becomes(tc, Check(tc, e), Context(type, "assignee"), type, LValue(lifetime), TRUE)
       /\ \A expected \in Type : tc.context = Context(expected, "assignee") =>
             Becomes(tc, Check(tc, e), tc.context, expected, LValue(lifetime),
                     Fits(expected, type, Copying))

LEMMA ContextFields ==
    ASSUME NEW type, NEW kind
    PROVE  /\ Context(type, kind).type = type /\ Context(type, kind).kind = kind
           /\ Unconstrained.type = NoType /\ Unconstrained.kind = "suggestion"
  BY DEF Context, Unconstrained

LEMMA VariableBecomes ==
    ASSUME TypesAreFinite, NEW tc, Sound(tc), NEW x, NEW type \in Type,
           tc.scope[x].type = type
    PROVE  /\ tc.context.type = NoType \/ tc.context.kind = "suggestion" =>
                 Becomes(tc, Check(tc, Variable(x)), Context(type, "assignee"), type,
                         LValue(tc.scope[x].lifetime), TRUE)
           /\ \A expected \in Type : tc.context = Context(expected, "assignee") =>
                 Becomes(tc, Check(tc, Variable(x)), tc.context, expected,
                         LValue(tc.scope[x].lifetime), Fits(expected, type, Copying))
  <1> DEFINE e == Variable(x)
             g == LValue(tc.scope[x].lifetime)
             constrained == Constrain(tc, type, "assignee")
  <1>1. e.op = "variable" /\ e.name = x
    BY DEF Variable
  <1> HIDE DEF e
  <1>2. type # NoType
    BY TypeCases
  <1>3. ConstrainVariable(tc, x) = constrained
    BY <1>2 DEF ConstrainVariable
  <1>4. Check(tc, e) = SetTypeInfo(constrained, g)
    BY <1>1, <1>3 DEF Check, CheckVariable
  <1> HIDE DEF g
  <1>5. ASSUME tc.context.type = NoType \/ tc.context.kind = "suggestion"
        PROVE  Becomes(tc, Check(tc, e), Context(type, "assignee"), type, g, TRUE)
    <2>1. Becomes(tc, constrained, Context(type, "assignee"), tc.type, tc.category, TRUE)
      BY <1>5, ConstrainFresh
    <2> HIDE DEF constrained
    <2>2. Sound(constrained) /\ constrained.context = Context(type, "assignee")
          /\ constrained.context.type = type
      BY <2>1, ContextFields DEF Becomes
    <2>3. Becomes(constrained, SetTypeInfo(constrained, g), Context(type, "assignee"), type, g,
                 TRUE)
      BY <1>2, <2>2, SetTypeInfoBecomes
    <2>4. QED
      BY <1>4, <2>1, <2>3 DEF Becomes
  <1>6. ASSUME NEW expected \in Type, tc.context = Context(expected, "assignee")
        PROVE  Becomes(tc, Check(tc, e), tc.context, expected, g, Fits(expected, type, Copying))
    <2>1. Becomes(tc, constrained, tc.context, tc.type, tc.category, Fits(expected, type, Copying))
      BY <1>6, ConstrainAssignee
    <2> HIDE DEF constrained
    <2>2. Sound(constrained) /\ constrained.context = tc.context
          /\ constrained.context.type = expected
      BY <1>6, <2>1, ContextFields DEF Becomes
    <2>3. expected # NoType
      BY TypeCases
    <2>4. Becomes(constrained, SetTypeInfo(constrained, g), tc.context, expected, g, TRUE)
      BY <2>2, <2>3, SetTypeInfoBecomes
    <2>5. QED
      BY <1>4, <2>1, <2>4 DEF Becomes
  <1>7. QED
    BY <1>5, <1>6 DEF e, g

LEMMA ResolveChildBecomes ==
    ASSUME NEW tc, Sound(tc), NEW e, Unfolds(e), NEW context, NEW c, NEW t, NEW g, NEW F,
           Becomes(Entered(tc, context), Check(Entered(tc, context), e), c, t, g, F)
    PROVE  Becomes(tc, ResolveChild(tc, e, context), c, t, g, F)
  <1> DEFINE entered == Entered(tc, context)
  <1>1. ResolveChild(tc, e, context) = VerifySafety(Check(entered, e), e)
    BY Zenon DEF ResolveChild, Unfolds, Entered
  <1>2. Becomes(tc, entered, context, tc.type, tc.category, TRUE)
    BY ContextedBecomes
  <1> HIDE DEF entered
  <1>3. IsChecker(Check(entered, e))
    BY DEF Becomes, Sound, entered
  <1>4. ResolveChild(tc, e, context) = Check(entered, e)
    BY <1>1, <1>3, SafetyVerified
  <1>5. Becomes(entered, Check(entered, e), c, t, g, F)
    BY DEF entered
  <1>6. QED
    BY <1>2, <1>4, <1>5 DEF Becomes

LEMMA VariableLocated ==
    ASSUME TypesAreFinite, NEW scope, NEW x, scope[x].type \in Type
    PROVE  Located(Variable(x), scope, scope[x].type, scope[x].lifetime)
  <1>1. ASSUME NEW tc, Sound(tc), tc.scope = scope
        PROVE  /\ tc.context = Unconstrained =>
                     Becomes(tc, Check(tc, Variable(x)), Context(scope[x].type, "assignee"),
                             scope[x].type, LValue(scope[x].lifetime), TRUE)
               /\ \A expected \in Type : tc.context = Context(expected, "assignee") =>
                     Becomes(tc, Check(tc, Variable(x)), tc.context, expected,
                             LValue(scope[x].lifetime), Fits(expected, scope[x].type, Copying))
    <2>1. tc.scope[x].type = scope[x].type /\ tc.scope[x].lifetime = scope[x].lifetime
      BY <1>1
    <2>2. QED
      BY <1>1, <2>1, VariableBecomes, ContextFields
  <1>2. QED
    BY <1>1 DEF Located

LEMMA DereferenceLocated ==
    ASSUME TypesAreFinite, NEW scope, NEW x, scope[x].type \in Type, Unfolds(Variable(x)),
           KeptBy(Variable(x))
    PROVE  /\ Dereference(scope[x].type) # NoType =>
                 Located(At(Variable(x)), scope, Dereference(scope[x].type),
                         PointedLifetime(scope[x].type))
           /\ Dereference(scope[x].type) = NoType =>
                 \A tc : Sound(tc) /\ tc.scope = scope => Failed(Check(tc, At(Variable(x))))
  <1> DEFINE v == Variable(x)
             type == scope[x].type
             to == Dereference(type)
  <1>1. ASSUME NEW tc, Sound(tc), tc.scope = scope
        PROVE  /\ to = NoType => Failed(Check(tc, At(v)))
               /\ to # NoType =>
                     /\ tc.context = Unconstrained =>
                           Becomes(tc, Check(tc, At(v)), Context(to, "assignee"), to,
                                   LValue(PointedLifetime(type)), TRUE)
                     /\ \A wanted \in Type : tc.context = Context(wanted, "assignee") =>
                           Becomes(tc, Check(tc, At(v)), tc.context, wanted,
                                   LValue(PointedLifetime(type)), Fits(wanted, to, Copying))
    <2> DEFINE e == At(v)
    <2>1. e.op = ".*" /\ e.of = v
      BY DEF At
    <2> HIDE DEF e, v, type, to
    <2>2. type \in Type /\ type # NoType /\ tc.scope[x].type = type
      BY <1>1, TypeCases DEF type
    <2> DEFINE expected == IF tc.context.type = NoType THEN Unconstrained
                           ELSE Context(PointerTo(tc.context.type, Unsafe), "suggestion")
               operand == ResolveChild(tc, v, expected)
               back == Back(tc, operand)
               reached == IF operand.context.type = NoType THEN back
                          ELSE ConstrainReached(back, Dereference(operand.context.type),
                                                "cannot dereference")
               lifetime == PointedLifetime(operand.type)
               category == IF lifetime = NoLifetime THEN RValue ELSE LValue(lifetime)
    <2>3. Check(tc, e) = SetTypeInfo(reached, category)
      <3>1. Check(tc, e) = CheckDereference(tc, e)
        BY <2>1 DEF Check
      <3>2. QED
        BY <2>1, <3>1, Zenon DEF CheckDereference
    <2>4. expected.type = NoType \/ expected.kind = "suggestion"
      BY ContextFields
    <2> HIDE DEF expected
    <2>5. Becomes(tc, operand, Context(type, "assignee"), type, LValue(tc.scope[x].lifetime), TRUE)
      <3> DEFINE entered == Entered(tc, expected)
      <3>1. Sound(entered) /\ entered.context = expected /\ entered.scope = tc.scope
        BY <1>1, ContextedBecomes DEF Becomes
      <3> HIDE DEF entered
      <3>2. Becomes(entered, Check(entered, v), Context(type, "assignee"), type,
                    LValue(tc.scope[x].lifetime), TRUE)
        BY <2>2, <2>4, <3>1, VariableBecomes DEF v
      <3>3. Unfolds(v)
        BY DEF v
      <3>4. QED
        BY <1>1, <3>2, <3>3, ResolveChildBecomes DEF entered
    <2> HIDE DEF operand
    <2>6. Sound(operand) /\ operand.context.type = type /\ operand.type = type
      BY <2>5, ContextFields DEF Becomes
    <2>7. Becomes(tc, back, tc.context, type, LValue(tc.scope[x].lifetime), TRUE)
      <3>1. Becomes(operand, back, tc.context, operand.type, operand.category, TRUE)
        BY <2>6, BackIsContexted, ContextedBecomes
      <3> HIDE DEF back
      <3>2. QED
        BY <2>5, <3>1 DEF Becomes
    <2> HIDE DEF back
    <2>8. Sound(back) /\ IsChecker(back) /\ back.context = tc.context
      BY <2>7 DEF Becomes, Sound
    <2>9. reached = ConstrainReached(back, to, "cannot dereference")
      BY <2>2, <2>6 DEF to
    <2>10. lifetime = PointedLifetime(type)
      BY <2>6
    <2> HIDE DEF reached, lifetime
    <2>11. ASSUME to = NoType
           PROVE  Failed(Check(tc, e))
      <3>1. Failed(reached) /\ IsChecker(reached)
        BY <2>8, <2>9, <2>11, ConstrainReachedKeeps DEF Failed
      <3>2. Keeps(reached, SetTypeInfo(reached, category))
        BY <3>1, SetTypeInfoKeeps
      <3>3. QED
        BY <2>3, <3>1, <3>2 DEF Keeps, Failed
    <2>12. ASSUME to # NoType
           PROVE  /\ tc.context = Unconstrained =>
                           Becomes(tc, Check(tc, e), Context(to, "assignee"), to,
                                   LValue(PointedLifetime(type)), TRUE)
                  /\ \A wanted \in Type : tc.context = Context(wanted, "assignee") =>
                           Becomes(tc, Check(tc, e), tc.context, wanted,
                                   LValue(PointedLifetime(type)), Fits(wanted, to, Copying))
      <3>1. /\ to \in Type /\ PointedLifetime(type) \in Lifetimes
        BY <2>2, <2>12, DereferenceCases DEF to
      <3>2. category = LValue(PointedLifetime(type))
        BY <2>10, <3>1, LifetimesAssumption
      <3> HIDE DEF category
      <3>3. reached = Constrain(back, to, "assignee")
        BY <2>9, <2>12 DEF ConstrainReached
      <3>4. ASSUME tc.context = Unconstrained
            PROVE  Becomes(tc, Check(tc, e), Context(to, "assignee"), to,
                           LValue(PointedLifetime(type)), TRUE)
        <4>1. Becomes(back, reached, Context(to, "assignee"), back.type, back.category, TRUE)
          BY <2>8, <3>3, <3>4, ContextFields, ConstrainFresh
        <4>2. Sound(reached) /\ reached.context = Context(to, "assignee")
              /\ reached.context.type = to
          BY <4>1, ContextFields DEF Becomes
        <4>3. Becomes(reached, SetTypeInfo(reached, category), Context(to, "assignee"), to,
                      category, TRUE)
          BY <2>12, <4>2, SetTypeInfoBecomes
        <4>4. QED
          BY <2>3, <2>7, <3>2, <4>1, <4>3 DEF Becomes
      <3>5. ASSUME NEW wanted \in Type, tc.context = Context(wanted, "assignee")
            PROVE  Becomes(tc, Check(tc, e), tc.context, wanted,
                           LValue(PointedLifetime(type)), Fits(wanted, to, Copying))
        <4>1. Becomes(back, reached, tc.context, back.type, back.category,
                      Fits(wanted, to, Copying))
          BY <2>8, <3>1, <3>3, <3>5, ConstrainAssignee
        <4>2. Sound(reached) /\ reached.context = tc.context
              /\ reached.context.type = wanted
          BY <3>5, <4>1, ContextFields DEF Becomes
        <4>3. wanted # NoType
          BY TypeCases
        <4>4. Becomes(reached, SetTypeInfo(reached, category), tc.context, wanted,
                      category, TRUE)
          BY <4>2, <4>3, SetTypeInfoBecomes
        <4>5. QED
          BY <2>3, <2>7, <3>2, <4>1, <4>4 DEF Becomes
      <3>6. QED
        BY <3>4, <3>5
    <2>13. QED
      BY <2>11, <2>12 DEF e
  <1>2. QED
    BY <1>1 DEF Located

(* The address of a checked operand. *)
LEMMA PointToBecomes ==
    ASSUME TypesAreFinite, NEW tc, NEW operand, Sound(operand),
           NEW to \in Type, NEW lifetime \in Lifetimes,
           operand.context = Context(to, "assignee"), operand.category = LValue(lifetime)
    PROVE  /\ tc.context = Unconstrained =>
                 Becomes(operand, PointTo(tc, operand),
                         Context(PointerTo(to, lifetime), "assignee"),
                         PointerTo(to, lifetime), RValue, TRUE)
           /\ \A expected \in Type : tc.context = Context(expected, "assignee") =>
                 Becomes(operand, PointTo(tc, operand), tc.context, expected, RValue,
                         Fits(expected, PointerTo(to, lifetime), Copying))
  <1> DEFINE lvalue == operand.category.is = "lvalue"
             shown == IF lvalue THEN operand.category.lifetime ELSE Unsafe
             back == ReportUnless(lvalue, Back(tc, operand), "address of rvalue")
             pointing == IF operand.context.type = NoType THEN back
                         ELSE Constrain(back, PointerTo(operand.context.type, shown),
                                        "assignee")
             pointer == PointerTo(to, lifetime)
  <1>1. PointTo(tc, operand) = SetTypeInfo(pointing, RValue)
    BY Zenon DEF PointTo
  <1>2. lvalue /\ shown = lifetime
    BY DEF LValue
  <1>3. operand.context.type = to /\ to # NoType
    BY ContextFields, TypeCases
  <1>4. back = Contexted(operand, tc.context)
    BY <1>2, BackIsContexted DEF ReportUnless
  <1>5. Becomes(operand, back, tc.context, operand.type, operand.category, TRUE)
    BY <1>4, ContextedBecomes
  <1> HIDE DEF back, shown
  <1>6. pointing = Constrain(back, pointer, "assignee")
    BY <1>2, <1>3
  <1>7. pointer \in Type /\ pointer # NoType
    <2>1. pointer \in Type
      BY DEF TypesAreFinite, TypeUniverse
    <2> HIDE DEF pointer
    <2>2. QED
      BY <2>1, TypeCases
  <1> HIDE DEF pointing, pointer
  <1>8. Sound(back) /\ back.context = tc.context
    BY <1>5 DEF Becomes
  <1>9. ASSUME tc.context = Unconstrained
        PROVE  Becomes(operand, PointTo(tc, operand), Context(pointer, "assignee"),
                       pointer, RValue, TRUE)
    <2>1. Becomes(back, pointing, Context(pointer, "assignee"), back.type, back.category, TRUE)
      BY <1>6, <1>8, <1>9, ContextFields, ConstrainFresh
    <2>2. Sound(pointing) /\ pointing.context = Context(pointer, "assignee")
          /\ pointing.context.type = pointer
      BY <2>1, ContextFields DEF Becomes
    <2>3. Becomes(pointing, SetTypeInfo(pointing, RValue), Context(pointer, "assignee"), pointer,
                  RValue, TRUE)
      BY <1>7, <2>2, SetTypeInfoBecomes
    <2>4. QED
      BY <1>1, <1>5, <2>1, <2>3 DEF Becomes
  <1>10. ASSUME NEW expected \in Type, tc.context = Context(expected, "assignee")
         PROVE  Becomes(operand, PointTo(tc, operand), tc.context, expected, RValue,
                        Fits(expected, pointer, Copying))
    <2>1. Becomes(back, pointing, tc.context, back.type, back.category,
                  Fits(expected, pointer, Copying))
      BY <1>6, <1>7, <1>8, <1>10, ConstrainAssignee
    <2>2. Sound(pointing) /\ pointing.context = tc.context /\ pointing.context.type = expected
      BY <1>10, <2>1, ContextFields DEF Becomes
    <2>3. expected # NoType
      BY TypeCases
    <2>4. Becomes(pointing, SetTypeInfo(pointing, RValue), tc.context, expected, RValue, TRUE)
      BY <2>2, <2>3, SetTypeInfoBecomes
    <2>5. QED
      BY <1>1, <1>5, <2>1, <2>4 DEF Becomes
  <1>11. QED
    BY <1>9, <1>10 DEF pointer

(* The address of a place, with and without a type that is expected.       *)
LEMMA AddressBecomes ==
    ASSUME TypesAreFinite, NEW scope, NEW p, Unfolds(p), KeptBy(p),
           NEW type \in Type, NEW lifetime \in Lifetimes,
           Located(p, scope, type, lifetime),
           NEW tc, Sound(tc), tc.scope = scope
    PROVE  /\ tc.context = Unconstrained =>
                 Becomes(tc, Check(tc, AddressOf(p)),
                         Context(PointerTo(type, lifetime), "assignee"),
                         PointerTo(type, lifetime), RValue, TRUE)
           /\ \A expected \in Type : tc.context = Context(expected, "assignee") =>
                 LET to == Dereference(expected)
                 IN  /\ to = NoType => Failed(Check(tc, AddressOf(p)))
                     /\ to # NoType =>
                           Becomes(tc, Check(tc, AddressOf(p)), tc.context, expected, RValue,
                                   /\ Fits(to, type, Copying)
                                   /\ Fits(expected, PointerTo(to, lifetime), Copying))
  <1> DEFINE expecting == ExpectPointee(tc, tc.context)
             operand == ResolveChild(expecting, p, expecting.context)
  <1>1. Check(tc, AddressOf(p)) = PointTo(tc, operand)
    BY AddressSpelled
  <1>2. ExpectPointee(tc, tc.context) =
           IF tc.context.type = NoType THEN Contexted(tc, Unconstrained)
           ELSE ConstrainReached(Contexted(tc, Unconstrained), Dereference(tc.context.type),
                                 "cannot dereference")
    BY Zenon DEF ExpectPointee, Contexted
  <1>3. Becomes(tc, Contexted(tc, Unconstrained), Unconstrained, tc.type, tc.category, TRUE)
    BY ContextedBecomes
  <1>4. CASE tc.context = Unconstrained
    <2>1. expecting = Contexted(tc, Unconstrained)
      BY <1>2, <1>4, ContextFields
    <2> HIDE DEF expecting
    <2>2. /\ Sound(expecting) /\ expecting.context = Unconstrained /\ expecting.scope = scope
          /\ Accepted(expecting) <=> Accepted(tc)
      BY <1>3, <2>1 DEF Becomes
    <2> DEFINE entered == Entered(expecting, Unconstrained)
    <2>3. Sound(entered) /\ entered.context = Unconstrained /\ entered.scope = scope
      BY <2>2, ContextedBecomes DEF Becomes
    <2> HIDE DEF entered
    <2>4. Becomes(entered, Check(entered, p), Context(type, "assignee"), type,
                  LValue(lifetime), TRUE)
      BY <2>3 DEF Located
    <2>5. Becomes(expecting, operand, Context(type, "assignee"), type, LValue(lifetime), TRUE)
      BY <2>2, <2>4, ResolveChildBecomes DEF entered
    <2> HIDE DEF operand
    <2>6. /\ Sound(operand) /\ operand.context = Context(type, "assignee")
          /\ operand.category = LValue(lifetime)
          /\ Accepted(operand) <=> Accepted(tc)
          /\ operand.scope = scope
      BY <2>2, <2>5 DEF Becomes
    <2>7. Becomes(operand, PointTo(tc, operand), Context(PointerTo(type, lifetime), "assignee"),
                  PointerTo(type, lifetime), RValue, TRUE)
      BY <1>4, <2>6, PointToBecomes
    <2>8. Becomes(tc, PointTo(tc, operand), Context(PointerTo(type, lifetime), "assignee"),
                  PointerTo(type, lifetime), RValue, TRUE)
      BY <2>6, <2>7 DEF Becomes
    <2>9. \A expected : tc.context # Context(expected, "assignee")
      BY <1>4, ContextFields
    <2>10. QED
      BY <1>1, <2>8, <2>9
  <1>5. ASSUME NEW expected \in Type, tc.context = Context(expected, "assignee"),
               Dereference(expected) = NoType
        PROVE  Failed(Check(tc, AddressOf(p)))
    <2>1. tc.context.type = expected /\ expected # NoType
      BY <1>5, ContextFields, TypeCases
    <2>2. Failed(expecting) /\ IsChecker(expecting)
      BY <1>5, <2>1, ExpectPointeeKeeps DEF Failed, Sound
    <2> HIDE DEF expecting
    <2>3. Keeps(expecting, operand) /\ IsChecker(operand)
      BY <2>2, ResolveChildKeeps DEF Keeps
    <2> HIDE DEF operand
    <2>4. Keeps(operand, PointTo(tc, operand))
      BY <2>3, PointToKeeps
    <2>5. QED
      BY <1>1, <2>2, <2>3, <2>4 DEF Keeps, Failed
  <1>6. ASSUME NEW expected \in Type, tc.context = Context(expected, "assignee"),
               Dereference(expected) # NoType
        PROVE  Becomes(tc, Check(tc, AddressOf(p)), tc.context, expected, RValue,
                       /\ Fits(Dereference(expected), type, Copying)
                       /\ Fits(expected, PointerTo(Dereference(expected), lifetime), Copying))
    <2> DEFINE to == Dereference(expected)
               start == Contexted(tc, Unconstrained)
    <2>1. tc.context.type = expected /\ expected # NoType
      BY <1>6, ContextFields, TypeCases
    <2>2. to \in Type
      BY <1>6, DereferenceCases
    <2>3. to # NoType
      BY <1>6
    <2>4. expecting = Constrain(start, to, "assignee")
      BY <1>2, <2>1, <2>3 DEF ConstrainReached
    <2> HIDE DEF expecting, to, start
    <2>5. /\ Sound(start) /\ start.context = Unconstrained /\ start.scope = scope
          /\ Accepted(start) <=> Accepted(tc)
      BY <1>3 DEF Becomes, start
    <2>6. Becomes(start, expecting, Context(to, "assignee"), start.type, start.category, TRUE)
      BY <2>4, <2>5, ContextFields, ConstrainFresh
    <2>7. /\ Sound(expecting) /\ expecting.context = Context(to, "assignee")
          /\ expecting.scope = scope
          /\ Accepted(expecting) <=> Accepted(tc)
      BY <2>5, <2>6 DEF Becomes
    <2> DEFINE entered == Entered(expecting, expecting.context)
    <2>8. Sound(entered) /\ entered.context = Context(to, "assignee") /\ entered.scope = scope
      <3>1. Becomes(expecting, entered, expecting.context, expecting.type, expecting.category,
                    TRUE)
        BY <2>7, ContextedBecomes
      <3> HIDE DEF entered
      <3>2. QED
        BY <2>7, <3>1 DEF Becomes
    <2> HIDE DEF entered
    <2>9. Becomes(entered, Check(entered, p), Context(to, "assignee"), to,
                  LValue(lifetime), Fits(to, type, Copying))
      BY <2>2, <2>8 DEF Located
    <2>10. Becomes(expecting, operand, Context(to, "assignee"), to, LValue(lifetime),
                   Fits(to, type, Copying))
      BY <2>7, <2>9, ResolveChildBecomes DEF entered
    <2> HIDE DEF operand
    <2>11. /\ Sound(operand) /\ operand.context = Context(to, "assignee")
           /\ operand.category = LValue(lifetime) /\ operand.scope = scope
           /\ Accepted(operand) <=> Accepted(tc) /\ Fits(to, type, Copying)
      <3>1. /\ Sound(operand) /\ operand.context = Context(to, "assignee")
            /\ operand.category = LValue(lifetime) /\ operand.scope = expecting.scope
            /\ Accepted(operand) <=> Accepted(expecting) /\ Fits(to, type, Copying)
        BY <2>10, Zenon DEF Becomes
      <3>2. QED
        BY <2>7, <3>1
    <2>12. Becomes(operand, PointTo(tc, operand), tc.context, expected, RValue,
                   Fits(expected, PointerTo(to, lifetime), Copying))
      BY <1>6, <2>2, <2>11, PointToBecomes
    <2>13. Becomes(tc, PointTo(tc, operand), tc.context, expected, RValue,
                   Fits(to, type, Copying) /\ Fits(expected, PointerTo(to, lifetime), Copying))
      BY <2>11, <2>12 DEF Becomes
    <2>14. QED
      BY <1>1, <2>13 DEF to
  <1>7. QED
    BY <1>4, <1>5, <1>6

(* The address of what is no place. *)
LEMMA AddressFails ==
    ASSUME TypesAreFinite, NEW scope, NEW p, Unfolds(p), KeptBy(p),
           \A q : Sound(q) /\ q.scope = scope => Failed(Check(q, p)),
           NEW tc, Sound(tc), tc.scope = scope,
           \/ tc.context = Unconstrained
           \/ \E expected \in Type : tc.context = Context(expected, "assignee")
    PROVE  Failed(Check(tc, AddressOf(p)))
  <1> DEFINE expecting == ExpectPointee(tc, tc.context)
             operand == ResolveChild(expecting, p, expecting.context)
             start == Contexted(tc, Unconstrained)
             to == Dereference(tc.context.type)
  <1>1. Check(tc, AddressOf(p)) = PointTo(tc, operand)
    BY AddressSpelled
  <1>2. expecting = IF tc.context.type = NoType THEN start
                    ELSE ConstrainReached(start, to, "cannot dereference")
    BY Zenon DEF ExpectPointee, Contexted
  <1>3. Sound(start) /\ start.scope = scope /\ start.context = Unconstrained /\ IsChecker(start)
    BY ContextedBecomes DEF Becomes, Sound
  <1> HIDE DEF start, to
  <1>4. Failed(expecting) \/ (Sound(expecting) /\ expecting.scope = scope)
    <2>1. CASE tc.context.type = NoType
      BY <1>2, <1>3, <2>1
    <2>2. CASE tc.context.type # NoType /\ to = NoType
      BY <1>2, <1>3, <2>2, ConstrainReachedKeeps
    <2>3. CASE tc.context.type # NoType /\ to # NoType
      <3>1. expecting = Constrain(start, to, "assignee")
        BY <1>2, <2>3 DEF ConstrainReached
      <3> HIDE DEF expecting
      <3>2. Becomes(start, expecting, Context(to, "assignee"), start.type, start.category, TRUE)
        BY <1>3, <3>1, ContextFields, ConstrainFresh
      <3>3. QED
        BY <1>3, <3>2 DEF Becomes
    <2>4. QED
      BY <2>1, <2>2, <2>3
  <1> HIDE DEF expecting
  <1>5. Failed(operand) /\ IsChecker(operand)
    <2> DEFINE entered == Entered(expecting, expecting.context)
    <2>1. CASE Failed(expecting)
      <3>1. Keeps(expecting, operand)
        BY <2>1, ResolveChildKeeps DEF Failed
      <3>2. QED
        BY <2>1, <3>1 DEF Keeps, Failed
    <2>2. CASE Sound(expecting) /\ expecting.scope = scope
      <3>1. Sound(entered) /\ entered.scope = scope
        BY <2>2, ContextedBecomes DEF Becomes
      <3>2. operand = VerifySafety(Check(entered, p), p)
        BY Zenon DEF ResolveChild, Unfolds, Entered
      <3> HIDE DEF entered, operand
      <3>3. Failed(Check(entered, p)) /\ IsChecker(Check(entered, p))
        BY <3>1 DEF Failed
      <3>4. QED
        BY <3>2, <3>3, SafetyVerified
    <2>3. QED
      BY <1>4, <2>1, <2>2
  <1> HIDE DEF operand
  <1>6. Keeps(operand, PointTo(tc, operand))
    BY <1>5, PointToKeeps
  <1>7. QED
    BY <1>1, <1>5, <1>6 DEF Keeps, Failed

-----------------------------------------------------------------------------
(* In a scope the expression e has a value of a type, and can be used      *)
(* where one of the types in S is expected; or it has none.                *)
Gives(tc, after, type, condition) ==
    \E category : Becomes(tc, after, Context(type, "assignee"), type, category, condition)

Valued(e, scope, type, S) ==
    \A tc : Sound(tc) /\ tc.scope = scope =>
       /\ tc.context = Unconstrained => Gives(tc, Check(tc, e), type, TRUE)
       /\ \A expected \in Type : tc.context = Context(expected, "assignee") =>
             \/ expected \in S /\ Gives(tc, Check(tc, e), expected, TRUE)
             \/ expected \notin S /\ Gives(tc, Check(tc, e), expected, FALSE)
             \/ expected \notin S /\ Failed(Check(tc, e))

Valueless(e, scope) ==
    \A tc : /\ Sound(tc) /\ tc.scope = scope
            /\ \/ tc.context = Unconstrained
               \/ \E expected \in Type : tc.context = Context(expected, "assignee")
        => Failed(Check(tc, e))

(* The types that a value of a type can be assigned to, and those that the *)
(* address of a place can be assigned to.                                  *)
Receivers(type) == {t \in Type : Fits(t, type, Copying)}

Addressees(type, lifetime) ==
    {t \in Type : /\ Dereference(t) # NoType
                  /\ Fits(Dereference(t), type, Copying)
                  /\ Fits(t, PointerTo(Dereference(t), lifetime), Copying)}

LEMMA PlaceValued ==
    ASSUME NEW e, NEW scope, NEW type \in Type, NEW lifetime, Located(e, scope, type, lifetime)
    PROVE  Valued(e, scope, type, Receivers(type))
  <1>1. SUFFICES ASSUME NEW tc, Sound(tc), tc.scope = scope
                 PROVE  /\ tc.context = Unconstrained => Gives(tc, Check(tc, e), type, TRUE)
                        /\ \A t \in Type : tc.context = Context(t, "assignee") =>
                              \/ t \in Receivers(type) /\ Gives(tc, Check(tc, e), t, TRUE)
                              \/ t \notin Receivers(type) /\ Gives(tc, Check(tc, e), t, FALSE)
                              \/ t \notin Receivers(type) /\ Failed(Check(tc, e))
    BY DEF Valued
  <1>2. ASSUME tc.context = Unconstrained
        PROVE  Gives(tc, Check(tc, e), type, TRUE)
    BY <1>1, <1>2 DEF Located, Gives
  <1>3. ASSUME NEW t \in Type, tc.context = Context(t, "assignee")
        PROVE  \/ t \in Receivers(type) /\ Gives(tc, Check(tc, e), t, TRUE)
               \/ t \notin Receivers(type) /\ Gives(tc, Check(tc, e), t, FALSE)
    <2>1. Becomes(tc, Check(tc, e), Context(t, "assignee"), t, LValue(lifetime),
                  Fits(t, type, Copying))
      BY <1>1, <1>3 DEF Located
    <2>2. CASE Fits(t, type, Copying)
      <3>1. Becomes(tc, Check(tc, e), Context(t, "assignee"), t, LValue(lifetime), TRUE)
        BY <2>1, <2>2 DEF Becomes
      <3>2. QED
        BY <2>2, <3>1 DEF Gives, Receivers
    <2>3. CASE ~Fits(t, type, Copying)
      <3>1. Becomes(tc, Check(tc, e), Context(t, "assignee"), t, LValue(lifetime), FALSE)
        BY <2>1, <2>3 DEF Becomes
      <3>2. QED
        BY <2>3, <3>1 DEF Gives, Receivers
    <2>4. QED
      BY <2>2, <2>3
  <1>4. QED
    BY <1>2, <1>3

LEMMA AddressValued ==
    ASSUME TypesAreFinite, NEW scope, NEW p, Unfolds(p), KeptBy(p),
           NEW type \in Type, NEW lifetime \in Lifetimes, Located(p, scope, type, lifetime)
    PROVE  Valued(AddressOf(p), scope, PointerTo(type, lifetime), Addressees(type, lifetime))
  <1> DEFINE e == AddressOf(p)
             S == Addressees(type, lifetime)
  <1>1. SUFFICES ASSUME NEW tc, Sound(tc), tc.scope = scope
                 PROVE  /\ tc.context = Unconstrained =>
                              Gives(tc, Check(tc, e), PointerTo(type, lifetime), TRUE)
                        /\ \A t \in Type : tc.context = Context(t, "assignee") =>
                              \/ t \in S /\ Gives(tc, Check(tc, e), t, TRUE)
                              \/ t \notin S /\ Gives(tc, Check(tc, e), t, FALSE)
                              \/ t \notin S /\ Failed(Check(tc, e))
    BY DEF Valued
  <1>2. ASSUME tc.context = Unconstrained
        PROVE  Gives(tc, Check(tc, e), PointerTo(type, lifetime), TRUE)
    BY <1>1, <1>2, AddressBecomes DEF Gives
  <1>3. ASSUME NEW t \in Type, tc.context = Context(t, "assignee")
        PROVE  \/ t \in S /\ Gives(tc, Check(tc, e), t, TRUE)
               \/ t \notin S /\ Gives(tc, Check(tc, e), t, FALSE)
               \/ t \notin S /\ Failed(Check(tc, e))
    <2> DEFINE F == /\ Fits(Dereference(t), type, Copying)
                    /\ Fits(t, PointerTo(Dereference(t), lifetime), Copying)
    <2>1. CASE Dereference(t) = NoType
      <3>1. Failed(Check(tc, e))
        BY <1>1, <1>3, <2>1, AddressBecomes
      <3>2. QED
        BY <2>1, <3>1 DEF Addressees
    <2>2. CASE Dereference(t) # NoType
      <3>1. Becomes(tc, Check(tc, e), Context(t, "assignee"), t, RValue, F)
        <4>1. Becomes(tc, Check(tc, e), tc.context, t, RValue, F)
          BY <1>1, <1>3, <2>2, AddressBecomes
        <4>2. QED
          BY <1>3, <4>1
      <3>2. t \in S <=> F
        BY <2>2 DEF Addressees
      <3> HIDE DEF F, S, e
      <3>3. CASE F
        <4>1. Becomes(tc, Check(tc, e), Context(t, "assignee"), t, RValue, TRUE)
          BY <3>1, <3>3 DEF Becomes
        <4>2. QED
          BY <3>2, <3>3, <4>1 DEF Gives
      <3>4. CASE ~F
        <4>1. Becomes(tc, Check(tc, e), Context(t, "assignee"), t, RValue, FALSE)
          BY <3>1, <3>4 DEF Becomes
        <4>2. QED
          BY <3>2, <3>4, <4>1 DEF Gives
      <3>5. QED
        BY <3>3, <3>4
    <2>3. QED
      BY <2>1, <2>2
  <1>4. QED
    BY <1>2, <1>3

(* What every expression that a program is made of has for a value. *)
LEMMA OperandCases ==
    ASSUME TypesAreFinite, ChecksUnfold, NEW scope, NEW x,
           scope[x].type \in Type, scope[x].lifetime \in Lifetimes
    PROVE  LET v == Variable(x)
               type == scope[x].type
               lifetime == scope[x].lifetime
               to == Dereference(type)
           IN  /\ Unfolds(v) /\ Unfolds(At(v)) /\ Unfolds(AddressOf(v)) /\ Unfolds(AddressOf(At(v)))
               /\ KeptBy(v) /\ KeptBy(At(v)) /\ KeptBy(AddressOf(v)) /\ KeptBy(AddressOf(At(v)))
               /\ Located(v, scope, type, lifetime)
               /\ Valued(v, scope, type, Receivers(type))
               /\ Valued(AddressOf(v), scope, PointerTo(type, lifetime),
                         Addressees(type, lifetime))
               /\ to # NoType =>
                     /\ to \in Type /\ PointedLifetime(type) \in Lifetimes
                     /\ Located(At(v), scope, to, PointedLifetime(type))
                     /\ Valued(At(v), scope, to, Receivers(to))
                     /\ Valued(AddressOf(At(v)), scope, PointerTo(to, PointedLifetime(type)),
                               Addressees(to, PointedLifetime(type)))
               /\ to = NoType =>
                     /\ \A tc : Sound(tc) /\ tc.scope = scope => Failed(Check(tc, At(v)))
                     /\ Valueless(At(v), scope) /\ Valueless(AddressOf(At(v)), scope)
  <1> DEFINE v == Variable(x)
             type == scope[x].type
             lifetime == scope[x].lifetime
             to == Dereference(type)
  <1>1. Unfolds(v) /\ Unfolds(At(v)) /\ Unfolds(AddressOf(v)) /\ Unfolds(AddressOf(At(v)))
    BY DEF ChecksUnfold, Unfolds
  <1>2. KeptBy(v) /\ KeptBy(At(v)) /\ KeptBy(AddressOf(v)) /\ KeptBy(AddressOf(At(v)))
    BY <1>1, VariableKeeps, DereferenceKeeps, AddressKeeps
  <1>3. Located(v, scope, type, lifetime)
    BY VariableLocated
  <1>4. /\ to # NoType => Located(At(v), scope, to, PointedLifetime(type))
        /\ to = NoType => \A tc : Sound(tc) /\ tc.scope = scope => Failed(Check(tc, At(v)))
    BY <1>1, <1>2, DereferenceLocated
  <1>5. to # NoType => to \in Type /\ PointedLifetime(type) \in Lifetimes
    BY DereferenceCases
  <1>6. type \in Type /\ lifetime \in Lifetimes
    OBVIOUS
  <1> HIDE DEF v, type, lifetime, to
  <1>7. /\ Valued(v, scope, type, Receivers(type))
        /\ Valued(AddressOf(v), scope, PointerTo(type, lifetime), Addressees(type, lifetime))
    BY <1>1, <1>2, <1>3, <1>6, PlaceValued, AddressValued
  <1>8. ASSUME to # NoType
        PROVE  /\ Valued(At(v), scope, to, Receivers(to))
               /\ Valued(AddressOf(At(v)), scope, PointerTo(to, PointedLifetime(type)),
                         Addressees(to, PointedLifetime(type)))
    BY <1>1, <1>2, <1>4, <1>5, <1>8, PlaceValued, AddressValued
  <1>9. ASSUME to = NoType
        PROVE  Valueless(At(v), scope) /\ Valueless(AddressOf(At(v)), scope)
    <2>1. \A tc : Sound(tc) /\ tc.scope = scope => Failed(Check(tc, At(v)))
      BY <1>4, <1>9
    <2>2. Valueless(At(v), scope)
      BY <2>1 DEF Valueless
    <2>3. Valueless(AddressOf(At(v)), scope)
      <3>1. SUFFICES ASSUME NEW tc, Sound(tc), tc.scope = scope,
                            \/ tc.context = Unconstrained
                            \/ \E t \in Type : tc.context = Context(t, "assignee")
                     PROVE  Failed(Check(tc, AddressOf(At(v))))
        BY DEF Valueless
      <3>2. QED
        BY <1>1, <1>2, <2>1, <3>1, AddressFails
    <2>4. QED
      BY <2>2, <2>3
  <1>10. QED
    BY <1>1, <1>2, <1>3, <1>4, <1>5, <1>7, <1>8, <1>9 DEF v, type, lifetime, to

-----------------------------------------------------------------------------
(* Statements. *)

LEMMA FreshChecker ==
    ASSUME NEW scope
    PROVE  LET tc == NewChecker(scope)
           IN  Sound(tc) /\ tc.scope = scope /\ tc.context = Unconstrained /\ Accepted(tc)
  <1> DEFINE tc == NewChecker(scope)
             errors == <<>>
             constraints == <<>>
  <1>1. tc = Checker(scope, errors, constraints, Unconstrained, NoType, RValue)
    BY DEF NewChecker, Checker
  <1>2. /\ IsList(errors) /\ errors = <<>> /\ constraints \in Seq(Constraints)
        /\ DOMAIN constraints = {}
    BY DEF IsList
  <1> HIDE DEF tc, errors, constraints
  <1>3. /\ tc.scope = scope /\ tc.errors = errors /\ tc.constraints = constraints
        /\ tc.context = Unconstrained /\ IsChecker(tc)
    BY <1>1, <1>2, CheckerFields
  <1>4. Sound(tc) /\ Accepted(tc)
    BY <1>2, <1>3 DEF Sound, Accepted
  <1>5. QED
    BY <1>3, <1>4 DEF tc

LEMMA FailedIsRefused ==
    ASSUME NEW tc, Failed(tc)
    PROVE  ~Accepted(tc)
  BY DEF Failed, Accepted

LEMMA RootIsCheck ==
    ASSUME NEW tc, IsChecker(tc), NEW e, IsChecker(Check(tc, e))
    PROVE  CheckRoot(tc, e) = Check(tc, e)
  <1>1. CheckRoot(tc, e) = VerifySafety(Check(Settled(tc), e), e)
    BY Zenon DEF CheckRoot, Settled
  <1>2. Settled(tc) = tc
    BY Updates
  <1>3. QED
    BY <1>1, <1>2, SafetyVerified

-----------------------------------------------------------------------------
(* let x: type = e; *)
LEMMA LetOfKnown ==
    ASSUME TypesAreFinite, NEW scope, NEW x, scope[x].type \in Type, NEW e, NEW type, NEW S
    PROVE  LET tc == CheckLet(scope, x, e)
           IN  /\ Valued(e, scope, type, S) =>
                     /\ Accepted(tc) <=> scope[x].type \in S
                     /\ Accepted(tc) => tc.scope = scope
               /\ Valueless(e, scope) => ~Accepted(tc)
  <1> DEFINE T == scope[x].type
             fresh == NewChecker(scope)
             known == Constrain(fresh, T, "assignee")
             checked == Check(known, e)
             done == Constrain(checked, T, "assignee")
  <1>1. T \in Type /\ T # NoType
    BY TypeCases
  <1>2. Sound(fresh) /\ fresh.scope = scope /\ fresh.context = Unconstrained /\ Accepted(fresh)
    BY FreshChecker
  <1>3. ConstrainVariable(fresh, x) = known
    BY <1>1, <1>2 DEF ConstrainVariable
  <1>4. CheckLet(scope, x, e) = ConstrainVariable(CheckRoot(known, e), x)
    BY <1>1, <1>3, Zenon DEF CheckLet
  <1> HIDE DEF fresh
  <1>5. Becomes(fresh, known, Context(T, "assignee"), fresh.type, fresh.category, TRUE)
    BY <1>1, <1>2, ContextFields, ConstrainFresh
  <1> HIDE DEF known
  <1>6. /\ Sound(known) /\ known.scope = scope /\ known.context = Context(T, "assignee")
        /\ Accepted(known) /\ IsChecker(known)
    BY <1>2, <1>5 DEF Becomes, Sound
  <1>7. ASSUME Failed(checked)
        PROVE  ~Accepted(CheckLet(scope, x, e))
    <2>1. IsChecker(checked) /\ CheckRoot(known, e) = checked
      BY <1>6, <1>7, RootIsCheck DEF Failed
    <2> HIDE DEF checked
    <2>2. Keeps(checked, ConstrainVariable(checked, x))
      BY <2>1, ConstrainVariableKeeps
    <2>3. Failed(ConstrainVariable(checked, x))
      BY <1>7, <2>2 DEF Keeps, Failed
    <2>4. QED
      BY <1>4, <2>1, <2>3, FailedIsRefused
  <1>8. ASSUME NEW F, Gives(known, checked, T, F)
        PROVE  /\ Accepted(CheckLet(scope, x, e)) <=> F
               /\ CheckLet(scope, x, e).scope = scope
    <2>1. PICK g : Becomes(known, checked, Context(T, "assignee"), T, g, F)
      BY <1>8 DEF Gives
    <2>2. /\ Sound(checked) /\ IsChecker(checked) /\ checked.scope = scope
          /\ checked.context = Context(T, "assignee")
          /\ Accepted(checked) <=> F
      BY <1>6, <2>1 DEF Becomes, Sound
    <2>3. CheckRoot(known, e) = checked
      BY <1>6, <2>2, RootIsCheck
    <2> HIDE DEF checked
    <2>4. ConstrainVariable(checked, x) = done
      BY <1>1, <2>2 DEF ConstrainVariable
    <2>5. Becomes(checked, done, checked.context, checked.type, checked.category,
                  Fits(T, T, Copying))
      BY <1>1, <2>2, ConstrainAssignee
    <2>6. Fits(T, T, Copying)
      BY <1>1, FitsSame, CopyingCases
    <2> HIDE DEF done
    <2>7. (Accepted(done) <=> F) /\ done.scope = scope
      BY <2>2, <2>5, <2>6 DEF Becomes
    <2>8. QED
      BY <1>4, <2>3, <2>4, <2>7
  <1>9. ASSUME Valued(e, scope, type, S)
        PROVE  /\ Accepted(CheckLet(scope, x, e)) <=> T \in S
               /\ Accepted(CheckLet(scope, x, e)) => CheckLet(scope, x, e).scope = scope
    <2>1. \/ T \in S /\ Gives(known, checked, T, TRUE)
          \/ T \notin S /\ Gives(known, checked, T, FALSE)
          \/ T \notin S /\ Failed(checked)
      BY <1>1, <1>6, <1>9 DEF Valued
    <2> HIDE DEF checked
    <2>2. QED
      BY <1>7, <1>8, <2>1
  <1>10. ASSUME Valueless(e, scope)
         PROVE  ~Accepted(CheckLet(scope, x, e))
    <2>1. Failed(checked)
      BY <1>1, <1>6, <1>10 DEF Valueless
    <2>2. QED
      BY <1>7, <2>1
  <1>11. QED
    BY <1>9, <1>10

(* let x = e; *)
LEMMA LetOfUnknown ==
    ASSUME NEW scope, NEW x, x \in DOMAIN scope, scope[x].type = NoType,
           NEW e, NEW type, NEW S, type # NoType
    PROVE  LET tc == CheckLet(scope, x, e)
           IN  /\ Valued(e, scope, type, S) =>
                     Accepted(tc) /\ tc.scope = [scope EXCEPT ![x].type = type]
               /\ Valueless(e, scope) => ~Accepted(tc)
  <1> DEFINE fresh == NewChecker(scope)
             checked == Check(fresh, e)
             inferred == [scope EXCEPT ![x].type = type]
  <1>1. /\ Sound(fresh) /\ fresh.scope = scope /\ fresh.context = Unconstrained /\ Accepted(fresh)
        /\ IsChecker(fresh)
    BY FreshChecker DEF Sound
  <1>2. CheckLet(scope, x, e) = ConstrainVariable(CheckRoot(fresh, e), x)
    BY Zenon DEF CheckLet
  <1> HIDE DEF fresh
  <1>3. ASSUME Valued(e, scope, type, S)
        PROVE  Accepted(CheckLet(scope, x, e)) /\ CheckLet(scope, x, e).scope = inferred
    <2>1. PICK g : Becomes(fresh, checked, Context(type, "assignee"), type, g, TRUE)
      BY <1>1, <1>3 DEF Valued, Gives
    <2>2. /\ Sound(checked) /\ IsChecker(checked) /\ checked.scope = scope
          /\ checked.context.type = type /\ Accepted(checked)
      BY <1>1, <2>1, ContextFields DEF Becomes, Sound
    <2>3. CheckRoot(fresh, e) = checked
      BY <1>1, <2>2, RootIsCheck
    <2> HIDE DEF checked
    <2>4. ConstrainVariable(checked, x) = Scoped(checked, inferred)
      <3>1. ConstrainVariable(checked, x) = [checked EXCEPT !.scope[x].type = checked.context.type]
        BY <2>2, Zenon DEF ConstrainVariable
      <3>2. QED
        BY <2>2, <3>1, InferredScope
    <2> HIDE DEF inferred
    <2>5. Scoped(checked, inferred) = Checker(inferred, checked.errors, checked.constraints,
                                              checked.context, checked.type, checked.category)
      BY <2>2, Updates
    <2>6. /\ Scoped(checked, inferred).scope = inferred
          /\ Scoped(checked, inferred).errors = checked.errors
          /\ Scoped(checked, inferred).constraints = checked.constraints
      BY <2>5, CheckerFields
    <2>7. Accepted(Scoped(checked, inferred))
      BY <2>2, <2>6 DEF Accepted
    <2>8. QED
      BY <1>2, <2>3, <2>4, <2>6, <2>7
  <1>4. ASSUME Valueless(e, scope)
        PROVE  ~Accepted(CheckLet(scope, x, e))
    <2>1. Failed(checked) /\ IsChecker(checked)
      BY <1>1, <1>4 DEF Valueless, Failed
    <2>2. CheckRoot(fresh, e) = checked
      BY <1>1, <2>1, RootIsCheck
    <2> HIDE DEF checked
    <2>3. Keeps(checked, ConstrainVariable(checked, x))
      BY <2>1, ConstrainVariableKeeps
    <2>4. Failed(ConstrainVariable(checked, x))
      BY <2>1, <2>3 DEF Keeps, Failed
    <2>5. QED
      BY <1>2, <2>2, <2>4, FailedIsRefused
  <1>5. QED
    BY <1>3, <1>4

-----------------------------------------------------------------------------
(* e; where e is the place of a value. *)
LEMMA TypeOfPlace ==
    ASSUME NEW scope, NEW e, NEW type, NEW lifetime, Located(e, scope, type, lifetime)
    PROVE  CheckExpression(scope, e).type = type
  <1> DEFINE fresh == NewChecker(scope)
  <1>1. Sound(fresh) /\ fresh.scope = scope /\ fresh.context = Unconstrained /\ IsChecker(fresh)
    BY FreshChecker DEF Sound
  <1>2. CheckExpression(scope, e) = CheckRoot(fresh, e)
    BY DEF CheckExpression
  <1> HIDE DEF fresh
  <1>3. Becomes(fresh, Check(fresh, e), Context(type, "assignee"), type, LValue(lifetime), TRUE)
    BY <1>1 DEF Located
  <1>4. IsChecker(Check(fresh, e)) /\ Check(fresh, e).type = type
    BY <1>3 DEF Becomes, Sound
  <1>5. QED
    BY <1>1, <1>2, <1>4, RootIsCheck

LEMMA TypeOfValued ==
    ASSUME NEW scope, NEW e, NEW type, NEW S, Valued(e, scope, type, S)
    PROVE  CheckExpression(scope, e).type = type
  <1> DEFINE fresh == NewChecker(scope)
  <1>1. Sound(fresh) /\ fresh.scope = scope /\ fresh.context = Unconstrained /\ IsChecker(fresh)
    BY FreshChecker DEF Sound
  <1>2. CheckExpression(scope, e) = CheckRoot(fresh, e)
    BY DEF CheckExpression
  <1> HIDE DEF fresh
  <1>3. Gives(fresh, Check(fresh, e), type, TRUE)
    BY <1>1 DEF Valued
  <1>4. IsChecker(Check(fresh, e)) /\ Check(fresh, e).type = type
    BY <1>3 DEF Gives, Becomes, Sound
  <1>5. QED
    BY <1>1, <1>2, <1>4, RootIsCheck

-----------------------------------------------------------------------------
(* What an assignment comes to once its right side is checked. *)
AfterRight(tc, right, type) ==
    SetTypeInfo(Constrain(Require(Back(tc, right), type, right.type), type, "assignee"), RValue)

LEMMA AssignmentSpelled ==
    ASSUME NEW tc, NEW l, NEW r
    PROVE  LET left == ResolveChild(tc, l, Unconstrained)
               lvalue == ReportUnless(left.category.is = "lvalue", left, "assigns to rvalue")
               right == ResolveChild(lvalue, r, Context(left.type, "assignee"))
           IN  Check(tc, Assignment(l, r)) = AfterRight(tc, right, left.type)
  <1> DEFINE e == Assignment(l, r)
  <1>1. e.op = "=" /\ e.left = l /\ e.right = r
    BY DEF Assignment
  <1> HIDE DEF e
  <1>2. Check(tc, e) = CheckAssignment(tc, e)
    BY <1>1 DEF Check
  <1>3. QED
    BY <1>1, <1>2, Zenon DEF CheckAssignment, AfterRight, e

LEMMA AfterRightFails ==
    ASSUME NEW tc, NEW right, Failed(right), NEW type
    PROVE  Failed(AfterRight(tc, right, type))
  <1> DEFINE back == Back(tc, right)
             checked == Require(back, type, right.type)
             constrained == Constrain(checked, type, "assignee")
  <1>1. Keeps(right, back) /\ IsChecker(back)
    BY ContextedKeeps, BackIsContexted DEF Keeps, Failed
  <1> HIDE DEF back
  <1>2. Keeps(back, checked) /\ IsChecker(checked)
    BY <1>1, RequireKeeps DEF Keeps
  <1> HIDE DEF checked
  <1>3. Keeps(checked, constrained) /\ IsChecker(constrained)
    BY <1>2, ConstrainKeeps DEF Keeps
  <1>4. AfterRight(tc, right, type) = SetTypeInfo(constrained, RValue)
    BY DEF AfterRight, constrained, checked, back
  <1> HIDE DEF constrained
  <1>5. Keeps(constrained, SetTypeInfo(constrained, RValue))
    BY <1>3, SetTypeInfoKeeps
  <1>6. QED
    BY <1>1, <1>2, <1>3, <1>4, <1>5 DEF Keeps, Failed

LEMMA AfterRightBecomes ==
    ASSUME TypesAreFinite, NEW tc, tc.context = Unconstrained, NEW type \in Type,
           NEW right, Sound(right), right.type = type
    PROVE  Sound(AfterRight(tc, right, type))
           /\ (Accepted(AfterRight(tc, right, type)) <=> Accepted(right))
  <1> DEFINE back == Back(tc, right)
             checked == Require(back, type, right.type)
             constrained == Constrain(checked, type, "assignee")
  <1>1. Becomes(right, back, Unconstrained, type, right.category, TRUE)
    BY BackIsContexted, ContextedBecomes
  <1> HIDE DEF back
  <1>2. Sound(back) /\ back.context = Unconstrained
    BY <1>1 DEF Becomes
  <1>3. Becomes(back, checked, Unconstrained, back.type, back.category, Fits(type, type, Copying))
    BY <1>2, RequireBecomes
  <1>4. Fits(type, type, Copying)
    BY FitsSame, CopyingCases
  <1> HIDE DEF checked
  <1>5. Sound(checked) /\ checked.context = Unconstrained
    BY <1>3 DEF Becomes
  <1>6. Becomes(checked, constrained, Context(type, "assignee"), checked.type, checked.category,
               TRUE)
    BY <1>5, ContextFields, ConstrainFresh
  <1>7. AfterRight(tc, right, type) = SetTypeInfo(constrained, RValue)
    BY DEF AfterRight, constrained, checked, back
  <1> HIDE DEF constrained
  <1>8. Sound(constrained) /\ constrained.context.type = type /\ type # NoType
    BY <1>6, ContextFields, TypeCases DEF Becomes
  <1>9. Becomes(constrained, SetTypeInfo(constrained, RValue), constrained.context, type,
                RValue, TRUE)
    BY <1>8, SetTypeInfoBecomes
  <1>10. QED
    BY <1>1, <1>3, <1>4, <1>6, <1>7, <1>9 DEF Becomes

LEMMA ResolveChildIsCheck ==
    ASSUME NEW tc, NEW e, Unfolds(e), NEW context, IsChecker(Check(Entered(tc, context), e))
    PROVE  ResolveChild(tc, e, context) = Check(Entered(tc, context), e)
  <1> DEFINE entered == Entered(tc, context)
  <1>1. ResolveChild(tc, e, context) = VerifySafety(Check(entered, e), e)
    BY Zenon DEF ResolveChild, Unfolds, Entered
  <1> HIDE DEF entered
  <1>2. QED
    BY <1>1, SafetyVerified DEF entered

(* l = r; *)
LEMMA AssignmentAccepted ==
    ASSUME TypesAreFinite, NEW scope, NEW l, NEW r, Unfolds(l), Unfolds(r),
           NEW T \in Type, NEW lifetime, Located(l, scope, T, lifetime), NEW type, NEW S
    PROVE  LET tc == CheckExpression(scope, Assignment(l, r))
           IN  /\ Valued(r, scope, type, S) => (Accepted(tc) <=> T \in S)
               /\ Valueless(r, scope) => ~Accepted(tc)
  <1> DEFINE fresh == NewChecker(scope)
             entered == Entered(fresh, Unconstrained)
             left == ResolveChild(fresh, l, Unconstrained)
             expecting == Entered(left, Context(T, "assignee"))
             right == ResolveChild(left, r, Context(T, "assignee"))
             done == AfterRight(fresh, right, T)
  <1>1. /\ Sound(fresh) /\ fresh.scope = scope /\ fresh.context = Unconstrained /\ Accepted(fresh)
        /\ IsChecker(fresh)
    BY FreshChecker DEF Sound
  <1>2. CheckExpression(scope, Assignment(l, r)) = CheckRoot(fresh, Assignment(l, r))
    BY DEF CheckExpression
  <1> HIDE DEF fresh
  <1>3. Sound(entered) /\ entered.scope = scope /\ entered.context = Unconstrained
    BY <1>1, ContextedBecomes DEF Becomes
  <1> HIDE DEF entered
  <1>4. Becomes(entered, Check(entered, l), Context(T, "assignee"), T, LValue(lifetime), TRUE)
    BY <1>3 DEF Located
  <1>5. Becomes(fresh, left, Context(T, "assignee"), T, LValue(lifetime), TRUE)
    BY <1>1, <1>4, ResolveChildBecomes DEF entered
  <1>6. Check(fresh, Assignment(l, r)) = done
    <2>1. left.type = T /\ left.category.is = "lvalue"
      BY <1>5 DEF Becomes, LValue
    <2>2. ReportUnless(left.category.is = "lvalue", left, "assigns to rvalue") = left
      BY <2>1 DEF ReportUnless
    <2>3. Check(fresh, Assignment(l, r)) =
             AfterRight(fresh,
                        ResolveChild(ReportUnless(left.category.is = "lvalue", left,
                                                  "assigns to rvalue"),
                                     r, Context(left.type, "assignee")),
                        left.type)
      BY AssignmentSpelled, Zenon
    <2>4. QED
      BY <2>1, <2>2, <2>3
  <1> HIDE DEF left
  <1>7. Sound(left) /\ left.scope = scope /\ Accepted(left)
    BY <1>1, <1>5 DEF Becomes
  <1>8. /\ Sound(expecting) /\ expecting.scope = scope /\ Accepted(expecting)
        /\ expecting.context = Context(T, "assignee")
    BY <1>7, ContextedBecomes DEF Becomes
  <1>9. IsChecker(Check(expecting, r)) => right = Check(expecting, r)
    BY ResolveChildIsCheck
  <1> HIDE DEF expecting, right
  <1>10. ASSUME Failed(Check(expecting, r))
         PROVE  ~Accepted(CheckExpression(scope, Assignment(l, r)))
    <2>1. Failed(right)
      BY <1>9, <1>10 DEF Failed
    <2>2. Failed(done) /\ IsChecker(done)
      BY <2>1, AfterRightFails DEF Failed
    <2> HIDE DEF done
    <2>3. QED
      BY <1>1, <1>2, <1>6, <2>2, RootIsCheck, FailedIsRefused
  <1>11. ASSUME NEW F, Gives(expecting, Check(expecting, r), T, F)
         PROVE  Accepted(CheckExpression(scope, Assignment(l, r))) <=> F
    <2>1. PICK g : Becomes(expecting, Check(expecting, r), Context(T, "assignee"), T, g, F)
      BY <1>11 DEF Gives
    <2>2. /\ IsChecker(Check(expecting, r)) /\ Sound(Check(expecting, r))
          /\ Check(expecting, r).type = T
          /\ Accepted(Check(expecting, r)) <=> F
      BY <1>8, <2>1 DEF Becomes, Sound
    <2>3. /\ Sound(right) /\ right.type = T
          /\ Accepted(right) <=> F
      BY <1>9, <2>2
    <2>4. Sound(done) /\ (Accepted(done) <=> F)
      BY <1>1, <2>3, AfterRightBecomes
    <2>5. IsChecker(done)
      BY <2>4 DEF Sound
    <2> HIDE DEF done
    <2>6. QED
      BY <1>1, <1>2, <1>6, <2>4, <2>5, RootIsCheck
  <1>12. ASSUME Valued(r, scope, type, S)
         PROVE  Accepted(CheckExpression(scope, Assignment(l, r))) <=> T \in S
    <2>1. \/ T \in S /\ Gives(expecting, Check(expecting, r), T, TRUE)
          \/ T \notin S /\ Gives(expecting, Check(expecting, r), T, FALSE)
          \/ T \notin S /\ Failed(Check(expecting, r))
      BY <1>8, <1>12 DEF Valued
    <2>2. QED
      BY <1>10, <1>11, <2>1
  <1>13. ASSUME Valueless(r, scope)
         PROVE  ~Accepted(CheckExpression(scope, Assignment(l, r)))
    <2>1. Failed(Check(expecting, r))
      BY <1>8, <1>13 DEF Valueless
    <2>2. QED
      BY <1>10, <2>1
  <1>14. QED
    BY <1>12, <1>13

-----------------------------------------------------------------------------
(* The types that variables are declared with are those of Type.           *)
ProgramsAreTyped == \A i \in DOMAIN Variables : Declarable(Variables[i]) \subseteq Type

(* The variables are declared in order, every pointer points to something  *)
(* of the shape its type says, and rightly as long as nothing departs.     *)

Declared(n) == {Variables[i] : i \in 1 .. n}

\* A value of the type that points to t points to something of its shape.
ShapedAt(type, t) ==
    /\ t \in DOMAIN types
    /\ Dereference(type) # NoType
    /\ Shape(Dereference(type)) = Shape(types[t])

PointsRight(x) ==
    /\ memory[x] \in DOMAIN types
    /\ Points(types[x], types[memory[x]], LifetimeOf(memory[x]))

SoundInv ==
    /\ IsFiniteSet(DOMAIN types) /\ Cardinality(DOMAIN types) \in 0 .. Len(Variables)
    /\ DOMAIN types = Declared(Cardinality(DOMAIN types))
    /\ DOMAIN memory = DOMAIN types
    /\ \A x \in DOMAIN types : types[x] \in Type
    /\ \A x \in Pointing : ShapedAt(types[x], memory[x])
    /\ departures = {} => \A x \in Pointing : PointsRight(x)

LEMMA DeclaredCases ==
    ASSUME SoundInv, NEW x \in DOMAIN types
    PROVE  x # Undefined /\ x # "new" /\ LifetimeOf(x) \in Lifetimes /\ LifetimeOf(x) \in Nat
  <1> DEFINE n == Cardinality(DOMAIN types)
  <1>1. n \in 0 .. Len(Variables) /\ x \in Declared(n)
    BY DEF SoundInv
  <1> HIDE DEF n
  <1>2. PICK i \in 1 .. n : x = Variables[i]
    BY <1>1 DEF Declared
  <1>3. i \in DOMAIN Variables
    BY <1>1, <1>2, VariablesAssumption
  <1>4. QED
    BY <1>2, <1>3, VariablesAssumption, LifetimesAssumption

LEMMA UndeclaredCases ==
    ASSUME SoundInv, Cardinality(DOMAIN types) < Len(Variables)
    PROVE  /\ Undeclared \notin DOMAIN types
           /\ \E i \in DOMAIN Variables : Undeclared = Variables[i]
           /\ LET declared == DOMAIN types \cup {Undeclared}
              IN  /\ IsFiniteSet(declared) /\ Cardinality(declared) \in 0 .. Len(Variables)
                  /\ declared = Declared(Cardinality(declared))
  <1> DEFINE n == Cardinality(DOMAIN types)
             declared == DOMAIN types \cup {Undeclared}
  <1>1. /\ n \in Nat /\ n < Len(Variables) /\ DOMAIN types = Declared(n) /\ Len(Variables) \in Nat
        /\ IsFiniteSet(DOMAIN types)
    BY VariablesAssumption DEF SoundInv
  <1>2. Undeclared = Variables[n + 1]
    BY DEF Undeclared
  <1> HIDE DEF n
  <1>3. n + 1 \in DOMAIN Variables
    BY <1>1, VariablesAssumption
  <1>4. Undeclared \notin Declared(n)
    <2>1. SUFFICES ASSUME NEW i \in 1 .. n, Variables[i] = Variables[n + 1]
                   PROVE  FALSE
      BY <1>2 DEF Declared
    <2>2. i \in DOMAIN Variables
      BY <1>1, VariablesAssumption
    <2>3. i = n + 1
      BY <1>3, <2>1, <2>2, VariablesAssumption
    <2>4. QED
      BY <1>1, <2>1, <2>3
  <1>5. Declared(n) \cup {Variables[n + 1]} = Declared(n + 1)
    <2>1. 1 .. (n + 1) = (1 .. n) \cup {n + 1}
      BY <1>1
    <2>2. QED
      BY <2>1 DEF Declared
  <1>6. IsFiniteSet(declared) /\ Cardinality(declared) = n + 1
    BY <1>1, <1>4, FS_AddElement DEF n
  <1>7. declared = Declared(n + 1)
    BY <1>1, <1>2, <1>5
  <1> HIDE DEF declared
  <1>8. /\ IsFiniteSet(declared) /\ Cardinality(declared) \in 0 .. Len(Variables)
        /\ declared = Declared(Cardinality(declared))
    BY <1>1, <1>6, <1>7
  <1>9. QED
    BY <1>1, <1>2, <1>3, <1>4, <1>8 DEF declared

-----------------------------------------------------------------------------
(* Pointers to what there is. *)

LEMMA AddressPoints ==
    ASSUME TypesAreFinite, NEW type \in Type, NEW lifetime \in Lifetimes
    PROVE  /\ PointerTo(type, lifetime) \in Type
           /\ Dereference(PointerTo(type, lifetime)) = type
           /\ PointedLifetime(PointerTo(type, lifetime)) = lifetime
  <1> DEFINE pointer == PointerTo(type, lifetime)
  <1>1. pointer \in Type
    BY DEF TypesAreFinite, TypeUniverse
  <1>2. pointer.is = "pointer" /\ pointer.of = type /\ pointer.lifetime = lifetime
    BY DEF PointerTo
  <1>3. Dereference(pointer) = pointer.of /\ PointedLifetime(pointer) = pointer.lifetime
    BY <1>2 DEF Dereference, PointedLifetime
  <1>4. QED
    BY <1>1, <1>2, <1>3

LEMMA PointsThrough ==
    ASSUME TypesAreFinite, NEW type \in Type, NEW inner \in Type, NEW outer, NEW lifetime,
           Points(type, inner, outer),
           NEW target \in Type, lifetime \in Nat, Points(inner, target, lifetime)
    PROVE  Points(Dereference(type), target, lifetime)
  <1>1. CASE Dereference(type) = inner
    BY <1>1
  <1>2. CASE IsConst(Dereference(type)) /\ Fits(Dereference(type), inner, Neither)
    <2>1. Dereference(type) \in Type
      BY DereferenceCases DEF Points
    <2>2. Guarded(Dereference(type), inner)
      BY <1>2, <2>1, DereferenceCases, PointeeFits, NeitherCases DEF Guarded, Points
    <2>3. QED
      BY <1>2, <2>1, <2>2, NeitherCases, PointerCopied
  <1>3. QED
    BY <1>1, <1>2 DEF Points

(* An address that is assigned to a type, which is to what is there or to  *)
(* const, points there.                                                    *)
LEMMA AddresseePoints ==
    ASSUME TypesAreFinite, NEW place \in Type, NEW lifetime \in Lifetimes,
           NEW t \in Addressees(place, lifetime),
           Dereference(t) = place \/ IsConst(Dereference(t)),
           NEW target \in Type, NEW lives \in Nat, lives <= lifetime,
           place = target \/ (IsConst(place) /\ Fits(place, target, Neither))
    PROVE  Points(t, target, lives)
  <1> DEFINE to == Dereference(t)
             pointer == PointerTo(to, lifetime)
  <1>1. t \in Type /\ to # NoType /\ Fits(to, place, Copying) /\ Fits(t, pointer, Copying)
    BY DEF Addressees
  <1>2. to \in Type
    BY <1>1, DereferenceCases
  <1>3. /\ pointer \in Type /\ Dereference(pointer) # NoType /\ PointedLifetime(pointer) = lifetime
    BY <1>1, <1>2, AddressPoints
  <1>4. lifetime <= PointedLifetime(t)
    BY <1>1, <1>3, PointeeFits, CopyingCases
  <1>5. PointedLifetime(t) \in Nat /\ lifetime \in Nat
    BY <1>1, DereferenceCases, LifetimesAssumption
  <1>6. to = target \/ (IsConst(to) /\ Fits(to, target, Neither))
    <2>1. CASE to = place
      BY <2>1
    <2>2. CASE IsConst(to)
      <3>1. Fits(to, place, Neither)
        BY <1>1, <1>2, <2>2, ConstIsConst, CopyingCases, NeitherCases
      <3>2. Fits(place, target, Neither)
        BY FitsSame, NeitherCases
      <3>3. QED
        BY <1>2, <2>2, <3>1, <3>2, FitsTransitive, NeitherCases
    <2>3. QED
      BY <2>1, <2>2
  <1>7. QED
    BY <1>1, <1>4, <1>5, <1>6 DEF Points

(* What a type receives is to something of the shape it says. *)
LEMMA ReceivedShape ==
    ASSUME TypesAreFinite, NEW type \in Type, NEW t \in Receivers(type), Dereference(type) # NoType
    PROVE  /\ t \in Type /\ Dereference(t) # NoType
           /\ Shape(Dereference(t)) = Shape(Dereference(type))
           /\ SameUpToConst(Dereference(t), Dereference(type))
  <1>1. t \in Type /\ Fits(t, type, Copying)
    BY DEF Receivers
  <1>2. Dereference(t) # NoType /\ Fits(Dereference(t), Dereference(type), Neither)
    BY <1>1, PointeeFits, CopyingCases
  <1>3. Dereference(t) \in Type /\ Dereference(type) \in Type
    BY <1>1, <1>2, DereferenceCases
  <1>4. QED
    BY <1>1, <1>2, <1>3, FitsHaveShape, FitsAreSame, NeitherCases

LEMMA AddresseeShape ==
    ASSUME TypesAreFinite, NEW type \in Type, NEW lifetime, NEW t \in Addressees(type, lifetime)
    PROVE  t \in Type /\ Dereference(t) # NoType /\ Shape(Dereference(t)) = Shape(type)
  <1>1. t \in Type /\ Dereference(t) # NoType /\ Fits(Dereference(t), type, Copying)
    BY DEF Addressees
  <1>2. Dereference(t) \in Type
    BY <1>1, DereferenceCases
  <1>3. QED
    BY <1>1, <1>2, FitsHaveShape, CopyingCases

-----------------------------------------------------------------------------
(* Operands, and where their values point. *)

LEMMA OperandForms ==
    ASSUME NEW e \in Operands
    PROVE  \E x \in DOMAIN types : e \in {Variable(x), At(Variable(x)), AddressOf(Variable(x)),
                                          AddressOf(At(Variable(x)))}
  BY DEF Operands, Lvalues

LEMMA PlacesAre ==
    ASSUME NEW m, NEW x, x # Undefined
    PROVE  LET v == Variable(x)
           IN  /\ Place(m, v) = x /\ Place(m, At(v)) = m[x]
               /\ Pointee(m, v) = m[x]
               /\ Pointee(m, At(v)) = IF m[x] = Undefined THEN Undefined ELSE m[m[x]]
               /\ Pointee(m, AddressOf(v)) = x /\ Pointee(m, AddressOf(At(v))) = m[x]
               /\ v.op # ".&" /\ At(v).op # ".&"
               /\ AddressOf(v).op = ".&" /\ AddressOf(v).of = v
               /\ AddressOf(At(v)).op = ".&" /\ AddressOf(At(v)).of = At(v)
  <1> DEFINE v == Variable(x)
             d == At(v)
             a == AddressOf(v)
             b == AddressOf(d)
  <1>1. v.op = "variable" /\ v.name = x
    BY DEF Variable
  <1>2. d.op = ".*" /\ d.of = v
    BY DEF At
  <1>3. a.op = ".&" /\ a.of = v /\ b.op = ".&" /\ b.of = d
    BY DEF AddressOf
  <1> HIDE DEF v, d, a, b
  <1>4. Place(m, v) = x /\ Place(m, d) = m[x]
    BY <1>1, <1>2 DEF Place
  <1>5. /\ Pointee(m, v) = m[x]
        /\ Pointee(m, d) = IF m[x] = Undefined THEN Undefined ELSE m[m[x]]
        /\ Pointee(m, a) = x /\ Pointee(m, b) = m[x]
    BY <1>1, <1>2, <1>3, <1>4 DEF Pointee
  <1>6. QED
    BY <1>1, <1>2, <1>3, <1>4, <1>5 DEF v, d, a, b

Scopes(scope) ==
    \A y \in DOMAIN types : scope[y].type = types[y] /\ scope[y].lifetime = LifetimeOf(y)

\* A value of the type that points to t points rightly.
AimsAt(type, t) == t \in DOMAIN types /\ Points(type, types[t], LifetimeOf(t))

LEMMA ScopeScopes ==
    Scopes(Scope(types))
  BY DEF Scopes, Scope

(* Unless a value is retyped, it cannot be written through to something    *)
(* else than it was a pointer to.                                          *)
LEMMA NotRetyped ==
    ASSUME NEW T, NEW e, Dereference(T) # NoType, Retyped(T, e) = {},
           e.op # ".&" => SameUpToConst(Dereference(T), Dereference(TypeOf(e)))
    PROVE  Guarded(T, TypeOf(e))
  <1>1. e.op = ".&" /\ ~Guarded(T, TypeOf(e)) => "address retyped" \in Retyped(T, e)
    BY DEF Retyped, Departure, Guarded
  <1>2. e.op # ".&" /\ ~Guarded(T, TypeOf(e)) => "const assumed" \in Retyped(T, e)
    BY DEF Retyped, Departure, Guarded
  <1>3. QED
    BY <1>1, <1>2

(* A value whose own type is N, and which can be assigned to the types in  *)
(* S, points to t: as the type it is assigned to says in shape, and        *)
(* rightly as long as nothing departs.                                     *)
Aims(e, N, S, t) ==
    /\ ShapedAt(N, t)
    /\ \A T \in S : ShapedAt(T, t)
    /\ departures = {} => /\ AimsAt(N, t)
                          /\ \A T \in S : Retyped(T, e) = {} => AimsAt(T, t)

(* The value of a place. *)
LEMMA PlacesAim ==
    ASSUME TypesAreFinite, SoundInv, NEW e, e.op # ".&", NEW N \in Type, TypeOf(e) = N,
           NEW t, ShapedAt(N, t), departures = {} => AimsAt(N, t)
    PROVE  Aims(e, N, Receivers(N), t)
  <1>1. /\ t \in DOMAIN types /\ Dereference(N) # NoType
        /\ Shape(Dereference(N)) = Shape(types[t])
    BY DEF ShapedAt
  <1>2. types[t] \in Type /\ LifetimeOf(t) \in Nat
    BY <1>1, DeclaredCases DEF SoundInv
  <1>3. ASSUME NEW T \in Receivers(N)
        PROVE  ShapedAt(T, t)
    BY <1>1, ReceivedShape DEF ShapedAt
  <1>4. ASSUME departures = {}, NEW T \in Receivers(N), Retyped(T, e) = {}
        PROVE  AimsAt(T, t)
    <2>1. /\ T \in Type /\ Dereference(T) # NoType
          /\ SameUpToConst(Dereference(T), Dereference(TypeOf(e)))
      BY <1>1, ReceivedShape
    <2>2. Guarded(T, N)
      BY <1>4, <2>1, NotRetyped
    <2>3. Fits(T, N, Copying)
      BY DEF Receivers
    <2>4. Points(N, types[t], LifetimeOf(t))
      BY <1>4 DEF AimsAt
    <2>5. Points(T, types[t], LifetimeOf(t))
      BY <1>2, <2>1, <2>2, <2>3, <2>4, CopyingCases, PointerCopied
    <2>6. QED
      BY <1>1, <2>5 DEF AimsAt
  <1>5. QED
    BY <1>3, <1>4 DEF Aims

(* The address of a place. *)
LEMMA AddressesAim ==
    ASSUME TypesAreFinite, SoundInv, NEW e, e.op = ".&",
           NEW place \in Type, NEW lifetime \in Lifetimes, TypeOf(e) = PointerTo(place, lifetime),
           NEW t \in DOMAIN types, Shape(place) = Shape(types[t]),
           departures = {} =>
              /\ LifetimeOf(t) <= lifetime
              /\ place = types[t] \/ (IsConst(place) /\ Fits(place, types[t], Neither))
    PROVE  Aims(e, PointerTo(place, lifetime), Addressees(place, lifetime), t)
  <1> DEFINE pointer == PointerTo(place, lifetime)
             S == Addressees(place, lifetime)
  <1>1. /\ pointer \in Type /\ Dereference(pointer) = place /\ place # NoType
        /\ PointedLifetime(pointer) = lifetime
    BY AddressPoints, TypeCases
  <1>2. types[t] \in Type /\ LifetimeOf(t) \in Nat
    BY DeclaredCases DEF SoundInv
  <1>3. TypeOf(e) = pointer
    OBVIOUS
  <1> HIDE DEF pointer
  <1>4. ShapedAt(pointer, t)
    BY <1>1 DEF ShapedAt
  <1>5. ASSUME NEW T \in S
        PROVE  ShapedAt(T, t)
    BY AddresseeShape DEF ShapedAt
  <1>6. ASSUME departures = {}
        PROVE  AimsAt(pointer, t)
    BY <1>1, <1>6 DEF AimsAt, Points
  <1>7. ASSUME departures = {}, NEW T \in S, Retyped(T, e) = {}
        PROVE  AimsAt(T, t)
    <2>1. T \in Type /\ Dereference(T) # NoType
      BY AddresseeShape
    <2>2. Guarded(T, pointer)
      BY <1>3, <1>7, <2>1, NotRetyped
    <2>3. Points(T, types[t], LifetimeOf(t))
      BY <1>1, <1>2, <1>7, <2>2, AddresseePoints DEF Guarded
    <2>4. QED
      BY <2>3 DEF AimsAt
  <1>8. Aims(e, pointer, S, t)
    BY <1>4, <1>5, <1>6, <1>7 DEF Aims
  <1>9. QED
    BY <1>8 DEF pointer

(* The value of an operand points rightly, as a value of its own type and  *)
(* of every type it can be assigned to.                                    *)
LEMMA ValuesAim ==
    ASSUME TypesAreFinite, ChecksUnfold, SoundInv, NEW e \in Operands,
           Pointee(memory, e) # Undefined, NEW scope, Scopes(scope)
    PROVE  \E N \in Type, S \in SUBSET Type :
              TypeOf(e) = N /\ Valued(e, scope, N, S) /\ Aims(e, N, S, Pointee(memory, e))
  <1>1. PICK x \in DOMAIN types : e \in {Variable(x), At(Variable(x)), AddressOf(Variable(x)),
                                         AddressOf(At(Variable(x)))}
    BY OperandForms
  <1> DEFINE v == Variable(x)
             type == types[x]
             lifetime == LifetimeOf(x)
             to == Dereference(type)
             lives == PointedLifetime(type)
             y == memory[x]
  <1>2. /\ type \in Type /\ lifetime \in Lifetimes /\ lifetime \in Nat /\ x # Undefined
        /\ scope[x].type = type /\ scope[x].lifetime = lifetime
        /\ Scope(types)[x].type = type /\ Scope(types)[x].lifetime = lifetime
        /\ DOMAIN memory = DOMAIN types
    BY DeclaredCases, ScopeScopes DEF SoundInv, Scopes
  <1>3. /\ Place(memory, v) = x /\ Place(memory, At(v)) = y
        /\ Pointee(memory, v) = y
        /\ Pointee(memory, At(v)) = IF y = Undefined THEN Undefined ELSE memory[y]
        /\ Pointee(memory, AddressOf(v)) = x /\ Pointee(memory, AddressOf(At(v))) = y
        /\ v.op # ".&" /\ At(v).op # ".&"
        /\ AddressOf(v).op = ".&" /\ AddressOf(v).of = v
        /\ AddressOf(At(v)).op = ".&" /\ AddressOf(At(v)).of = At(v)
    BY <1>2, PlacesAre
  <1>4. ASSUME y # Undefined
        PROVE  /\ ShapedAt(type, y)
               /\ y \in Pointing \/ memory[y] = Undefined
               /\ y \in DOMAIN types /\ types[y] \in Type
               /\ LifetimeOf(y) \in Nat
               /\ to # NoType /\ to \in Type /\ lives \in Lifetimes
               /\ Shape(to) = Shape(types[y])
               /\ departures = {} =>
                     /\ AimsAt(type, y)
                     /\ LifetimeOf(y) <= lives
                     /\ to = types[y] \/ (IsConst(to) /\ Fits(to, types[y], Neither))
    <2>1. x \in Pointing
      BY <1>4 DEF Pointing
    <2>2. ShapedAt(type, y)
      BY <2>1 DEF SoundInv
    <2>3. y \in DOMAIN types /\ to # NoType /\ Shape(to) = Shape(types[y])
      BY <2>2 DEF ShapedAt
    <2>4. types[y] \in Type /\ LifetimeOf(y) \in Nat
      BY <2>3, DeclaredCases DEF SoundInv
    <2>5. departures = {} => PointsRight(x)
      BY <2>1 DEF SoundInv
    <2>6. departures = {} => AimsAt(type, y)
      BY <2>5 DEF PointsRight, AimsAt
    <2>7. departures = {} =>
             /\ to = types[y] \/ (IsConst(to) /\ Fits(to, types[y], Neither))
             /\ LifetimeOf(y) <= lives
      BY <2>6 DEF AimsAt, Points
    <2>8. to \in Type /\ lives \in Lifetimes
      BY <1>2, <2>3, DereferenceCases
    <2>9. y \in Pointing \/ memory[y] = Undefined
      BY <2>3 DEF Pointing
    <2>10. QED
      BY <2>2, <2>3, <2>4, <2>6, <2>7, <2>8, <2>9
  <1>5. ASSUME NEW other, Scopes(other)
        PROVE  /\ Valued(v, other, type, Receivers(type))
               /\ Valued(AddressOf(v), other, PointerTo(type, lifetime),
                         Addressees(type, lifetime))
               /\ to # NoType =>
                     /\ Valued(At(v), other, to, Receivers(to))
                     /\ Valued(AddressOf(At(v)), other, PointerTo(to, lives),
                               Addressees(to, lives))
    <2>1. other[x].type = type /\ other[x].lifetime = lifetime
      BY <1>5 DEF Scopes
    <2>2. QED
      BY <1>2, <2>1, OperandCases
  <1>6. /\ TypeOf(v) = type /\ TypeOf(AddressOf(v)) = PointerTo(type, lifetime)
        /\ to # NoType => TypeOf(At(v)) = to /\ TypeOf(AddressOf(At(v))) = PointerTo(to, lives)
    BY <1>5, ScopeScopes, TypeOfValued DEF TypeOf
  <1>7. \A t \in Type : \A l \in Lifetimes :
           /\ Receivers(t) \in SUBSET Type /\ Addressees(t, l) \in SUBSET Type
           /\ PointerTo(t, l) \in Type
    BY AddressPoints DEF Receivers, Addressees
  <1> HIDE DEF v, type, lifetime, to, lives, y
  <1>8. CASE e = v
    <2>1. y # Undefined /\ Pointee(memory, e) = y
      BY <1>3, <1>8
    <2>2. ShapedAt(type, y) /\ (departures = {} => AimsAt(type, y))
      BY <1>4, <2>1
    <2>3. Aims(e, type, Receivers(type), y)
      BY <1>2, <1>3, <1>6, <1>8, <2>2, PlacesAim
    <2>4. QED
      BY <1>2, <1>5, <1>6, <1>7, <1>8, <2>1, <2>3
  <1>9. CASE e = At(v)
    <2> DEFINE t == memory[y]
    <2>1. y # Undefined /\ t # Undefined /\ Pointee(memory, e) = t
      BY <1>3, <1>9
    <2>2. /\ y \in Pointing /\ y \in DOMAIN types /\ types[y] \in Type
          /\ to # NoType /\ to \in Type /\ Shape(to) = Shape(types[y])
          /\ departures = {} => AimsAt(type, y)
      BY <1>4, <2>1 DEF Pointing
    <2>3. ShapedAt(types[y], t) /\ (departures = {} => AimsAt(types[y], t))
      BY <2>2 DEF SoundInv, PointsRight, AimsAt
    <2>4. t \in DOMAIN types /\ types[t] \in Type /\ LifetimeOf(t) \in Nat
      BY <2>3, DeclaredCases DEF ShapedAt, SoundInv
    <2> HIDE DEF t
    <2>5. ShapedAt(to, t)
      BY <2>2, <2>3, PointeesHaveShape DEF ShapedAt
    <2>6. departures = {} => AimsAt(to, t)
      BY <1>2, <2>2, <2>3, <2>4, PointsThrough DEF AimsAt, to
    <2>7. Aims(e, to, Receivers(to), t)
      BY <1>3, <1>6, <1>9, <2>2, <2>5, <2>6, PlacesAim
    <2>8. Valued(e, scope, to, Receivers(to))
      BY <1>5, <1>9, <2>2
    <2>9. TypeOf(e) = to
      BY <1>6, <1>9, <2>2
    <2>10. Receivers(to) \in SUBSET Type
      BY <2>2 DEF Receivers
    <2>11. QED
      BY <2>1, <2>2, <2>7, <2>8, <2>9, <2>10
  <1>10. CASE e = AddressOf(v)
    <2>1. Pointee(memory, e) = x /\ e.op = ".&"
      BY <1>3, <1>10
    <2>2. types[x] = type /\ LifetimeOf(x) = lifetime
      BY DEF type, lifetime
    <2>3. LifetimeOf(x) <= lifetime
      BY <1>2, <2>2
    <2>4. Aims(e, PointerTo(type, lifetime), Addressees(type, lifetime), x)
      BY <1>2, <1>6, <1>10, <2>1, <2>2, <2>3, AddressesAim
    <2>5. QED
      BY <1>2, <1>5, <1>6, <1>7, <1>10, <2>1, <2>4
  <1>11. CASE e = AddressOf(At(v))
    <2>1. Pointee(memory, e) = y /\ y # Undefined /\ e.op = ".&"
      BY <1>3, <1>11
    <2>2. /\ to # NoType /\ to \in Type /\ lives \in Lifetimes
          /\ y \in DOMAIN types /\ Shape(to) = Shape(types[y])
          /\ departures = {} =>
                /\ LifetimeOf(y) <= lives
                /\ to = types[y] \/ (IsConst(to) /\ Fits(to, types[y], Neither))
      BY <1>4, <2>1
    <2>3. Aims(e, PointerTo(to, lives), Addressees(to, lives), y)
      BY <1>6, <1>11, <2>1, <2>2, AddressesAim
    <2>4. QED
      BY <1>5, <1>6, <1>7, <1>11, <2>1, <2>2, <2>3
  <1>12. QED
    BY <1>1, <1>8, <1>9, <1>10, <1>11 DEF v

-----------------------------------------------------------------------------
(* Invariance. *)

LEMMA DeclaringKeeps ==
    ASSUME SoundInv, Cardinality(DOMAIN types) < Len(Variables),
           NEW T \in Type, NEW t,
           types' = With(types, Undeclared, T), memory' = With(memory, Undeclared, t),
           t = Undefined \/ ShapedAt(T, t), departures \subseteq departures',
           departures' = {} => t = Undefined \/ AimsAt(T, t)
    PROVE  SoundInv'
  <1> DEFINE x == Undeclared
             declared == DOMAIN types \cup {x}
  <1>1. /\ x \notin DOMAIN types
        /\ IsFiniteSet(declared) /\ Cardinality(declared) \in 0 .. Len(Variables)
        /\ declared = Declared(Cardinality(declared))
    BY UndeclaredCases
  <1>2. /\ DOMAIN memory = DOMAIN types
        /\ \A y \in DOMAIN types : types[y] \in Type
        /\ \A y \in Pointing : ShapedAt(types[y], memory[y])
        /\ departures' = {} => \A y \in Pointing : PointsRight(y)
    BY DEF SoundInv
  <1> HIDE DEF x
  <1>3. /\ DOMAIN types' = declared /\ types'[x] = T
        /\ \A y \in DOMAIN types : types'[y] = types[y]
    <2>1. types' = With(types, x, T)
      BY DEF x
    <2>2. QED
      BY <1>1, <2>1 DEF With
  <1>4. /\ DOMAIN memory' = declared /\ memory'[x] = t
        /\ \A y \in DOMAIN types : memory'[y] = memory[y]
    <2>1. memory' = With(memory, x, t)
      BY DEF x
    <2>2. x \notin DOMAIN memory
      BY <1>1, <1>2
    <2>3. /\ DOMAIN memory' = DOMAIN memory \cup {x} /\ memory'[x] = t
          /\ \A y \in DOMAIN memory : memory'[y] = memory[y]
      BY <2>1, <2>2 DEF With
    <2>4. QED
      BY <1>2, <2>3
  <1>5. \A y \in declared : types'[y] \in Type
    BY <1>2, <1>3
  <1>6. ASSUME NEW y \in declared, memory'[y] # Undefined
        PROVE  /\ ShapedAt(types[y], memory[y])'
               /\ departures' = {} => PointsRight(y)'
    <2>1. CASE y = x
      <3>1. ShapedAt(T, t) /\ t \in DOMAIN types /\ (departures' = {} => AimsAt(T, t))
        BY <1>4, <1>6, <2>1 DEF ShapedAt
      <3>2. QED
        BY <1>3, <1>4, <2>1, <3>1 DEF ShapedAt, AimsAt, PointsRight
    <2>2. CASE y # x
      <3>1. y \in DOMAIN types /\ memory'[y] = memory[y]
        BY <1>4, <1>6, <2>2
      <3>2. ShapedAt(types[y], memory[y]) /\ (departures' = {} => PointsRight(y))
        BY <1>2, <1>6, <3>1 DEF Pointing
      <3>3. QED
        BY <1>3, <3>1, <3>2 DEF ShapedAt, PointsRight
    <2>3. QED
      BY <2>1, <2>2
  <1>7. /\ \A y \in Pointing' : ShapedAt(types[y], memory[y])'
        /\ departures' = {} => \A y \in Pointing' : PointsRight(y)'
    BY <1>3, <1>6 DEF Pointing
  <1>8. QED
    BY <1>1, <1>3, <1>4, <1>5, <1>7 DEF SoundInv

LEMMA AssigningKeeps ==
    ASSUME SoundInv, NEW y \in DOMAIN types, NEW t,
           types' = types, memory' = [memory EXCEPT ![y] = t],
           ShapedAt(types[y], t), departures \subseteq departures',
           departures' = {} => AimsAt(types[y], t)
    PROVE  SoundInv'
  <1>1. /\ DOMAIN memory = DOMAIN types
        /\ \A x \in Pointing : ShapedAt(types[x], memory[x])
        /\ departures' = {} => \A x \in Pointing : PointsRight(x)
    BY DEF SoundInv
  <1>2. /\ DOMAIN memory' = DOMAIN memory /\ memory'[y] = t
        /\ \A x \in DOMAIN memory : x # y => memory'[x] = memory[x]
    BY <1>1
  <1>3. ASSUME NEW x \in DOMAIN types, memory'[x] # Undefined
        PROVE  /\ ShapedAt(types[x], memory[x])'
               /\ departures' = {} => PointsRight(x)'
    <2>1. CASE x = y
      BY <1>2, <2>1 DEF ShapedAt, AimsAt, PointsRight
    <2>2. CASE x # y
      <3>1. memory'[x] = memory[x] /\ ShapedAt(types[x], memory[x])
        BY <1>1, <1>2, <1>3, <2>2 DEF Pointing
      <3>2. departures' = {} => PointsRight(x)
        BY <1>1, <1>3, <3>1 DEF Pointing
      <3>3. QED
        BY <3>1, <3>2 DEF ShapedAt, PointsRight
    <2>3. QED
      BY <2>1, <2>2
  <1>4. /\ \A x \in Pointing' : ShapedAt(types[x], memory[x])'
        /\ departures' = {} => \A x \in Pointing' : PointsRight(x)'
    BY <1>3 DEF Pointing
  <1>5. QED
    BY <1>1, <1>2, <1>4 DEF SoundInv

LEMMA ScopeWith ==
    ASSUME SoundInv, NEW x, x \notin DOMAIN types, NEW type
    PROVE  LET scope == Scope(With(types, x, type))
           IN  /\ Scopes(scope) /\ x \in DOMAIN scope /\ DOMAIN scope = DOMAIN types \cup {x}
               /\ scope[x] = [type |-> type, lifetime |-> LifetimeOf(x)]
               /\ \A T : [scope EXCEPT ![x].type = T] = Scope(With(types, x, T))
  <1> DEFINE scope == Scope(With(types, x, type))
  <1>1. \A T : /\ DOMAIN Scope(With(types, x, T)) = DOMAIN types \cup {x}
               /\ Scope(With(types, x, T))[x] = [type |-> T, lifetime |-> LifetimeOf(x)]
               /\ \A y \in DOMAIN types :
                     Scope(With(types, x, T))[y] = [type |-> types[y], lifetime |-> LifetimeOf(y)]
    <2>1. SUFFICES ASSUME NEW T
                   PROVE  /\ DOMAIN Scope(With(types, x, T)) = DOMAIN types \cup {x}
                          /\ Scope(With(types, x, T))[x] = [type |-> T, lifetime |-> LifetimeOf(x)]
                          /\ \A y \in DOMAIN types :
                                Scope(With(types, x, T))[y] =
                                   [type |-> types[y], lifetime |-> LifetimeOf(y)]
      OBVIOUS
    <2> DEFINE f == With(types, x, T)
    <2>2. /\ DOMAIN f = DOMAIN types \cup {x} /\ f[x] = T
          /\ \A y \in DOMAIN types : f[y] = types[y]
      BY DEF With
    <2> HIDE DEF f
    <2>3. /\ DOMAIN Scope(f) = DOMAIN types \cup {x}
          /\ Scope(f)[x] = [type |-> T, lifetime |-> LifetimeOf(x)]
          /\ \A y \in DOMAIN types : Scope(f)[y] = [type |-> types[y], lifetime |-> LifetimeOf(y)]
      BY <2>2 DEF Scope
    <2>4. QED
      BY <2>3 DEF f
  <1>2. Scopes(scope)
    <2>1. ASSUME NEW y \in DOMAIN types
          PROVE  scope[y].type = types[y] /\ scope[y].lifetime = LifetimeOf(y)
      <3>1. scope[y] = [type |-> types[y], lifetime |-> LifetimeOf(y)]
        BY <1>1
      <3> HIDE DEF scope
      <3>2. QED
        BY <3>1
    <2>2. QED
      BY <2>1 DEF Scopes
  <1>3. ASSUME NEW T
        PROVE  [scope EXCEPT ![x].type = T] = Scope(With(types, x, T))
    <2> DEFINE f == [scope EXCEPT ![x].type = T]
               g == Scope(With(types, x, T))
    <2>1. f = [y \in DOMAIN scope |-> IF y = x THEN [scope[x] EXCEPT !.type = T] ELSE scope[y]]
      OBVIOUS
    <2>2. [scope[x] EXCEPT !.type = T] = [type |-> T, lifetime |-> LifetimeOf(x)]
      <3>1. scope[x] = [type |-> type, lifetime |-> LifetimeOf(x)]
        BY <1>1
      <3> HIDE DEF scope
      <3>2. QED
        BY <3>1
    <2>3. g = [y \in DOMAIN g |-> g[y]]
      BY DEF Scope
    <2>4. DOMAIN f = DOMAIN g /\ \A y \in DOMAIN g : f[y] = g[y]
      <3>1. /\ DOMAIN scope = DOMAIN types \cup {x} /\ DOMAIN g = DOMAIN types \cup {x}
            /\ \A y \in DOMAIN types : scope[y] = g[y]
            /\ g[x] = [type |-> T, lifetime |-> LifetimeOf(x)]
        BY <1>1
      <3> HIDE DEF f, g, scope
      <3>2. QED
        BY <2>1, <2>2, <3>1
    <2>5. f = [y \in DOMAIN f |-> f[y]]
      BY <2>1
    <2> HIDE DEF f, g
    <2>6. f = g
      BY <2>3, <2>4, <2>5
    <2>7. QED
      BY <2>6 DEF f, g
  <1>4. QED
    BY <1>1, <1>2, <1>3

LEMMA InitializingKeeps ==
    ASSUME TypesAreFinite, ChecksUnfold, ProgramsAreTyped, SoundInv,
           Cardinality(DOMAIN types) < Len(Variables),
           NEW type \in Declarable(Undeclared), NEW e \in Operands, Assigned(type, types, e),
           NEW written \in {type, NoType}, DeclareInitialized(Undeclared, written, e)
    PROVE  SoundInv'
  <1> DEFINE x == Undeclared
             scope == Scope(With(types, x, written))
             tc == CheckLet(scope, x, e)
             t == Pointee(memory, e)
  <1>1. /\ t # Undefined /\ Accepted(tc)
        /\ types' = With(types, x, tc.scope[x].type) /\ memory' = With(memory, x, t)
        /\ departures' = departures \cup Retyped(tc.scope[x].type, e)
    BY DEF DeclareInitialized, Initialize
  <1>2. x \notin DOMAIN types /\ type \in Type
    BY UndeclaredCases DEF ProgramsAreTyped
  <1> HIDE DEF x
  <1>3. /\ Scopes(scope) /\ x \in DOMAIN scope /\ scope[x].type = written
        /\ \A T : [scope EXCEPT ![x].type = T] = Scope(With(types, x, T))
    <2>1. /\ Scopes(scope) /\ x \in DOMAIN scope
          /\ scope[x] = [type |-> written, lifetime |-> LifetimeOf(x)]
          /\ \A T : [scope EXCEPT ![x].type = T] = Scope(With(types, x, T))
      BY <1>2, ScopeWith, Zenon
    <2> HIDE DEF scope
    <2>2. QED
      BY <2>1
  <1>4. \A T : Scope(With(types, x, T))[x].type = T
    <2>1. SUFFICES ASSUME NEW T
                   PROVE  Scope(With(types, x, T))[x].type = T
      OBVIOUS
    <2> DEFINE known == Scope(With(types, x, T))
    <2>2. known[x] = [type |-> T, lifetime |-> LifetimeOf(x)]
      BY <1>2, ScopeWith, Zenon
    <2> HIDE DEF known
    <2>3. known[x].type = T
      BY <2>2
    <2>4. QED
      BY <2>3 DEF known
  <1> HIDE DEF scope, t
  <1>5. PICK N \in Type, S \in SUBSET Type :
           Valued(e, scope, N, S) /\ Aims(e, N, S, t)
    BY <1>1, <1>3, ValuesAim DEF t
  <1>6. \E T \in Type : /\ tc.scope[x].type = T /\ ShapedAt(T, t)
                        /\ departures = {} /\ Retyped(T, e) = {} => AimsAt(T, t)
    <2>1. CASE written = type
      <3>1. type \in S /\ tc.scope = scope
        BY <1>1, <1>2, <1>3, <1>5, <2>1, LetOfKnown
      <3>2. QED
        BY <1>2, <1>3, <1>5, <2>1, <3>1 DEF Aims
    <2>2. CASE written = NoType
      <3>1. N # NoType
        BY <1>5, TypeCases
      <3>2. tc.scope = [scope EXCEPT ![x].type = N]
        BY <1>3, <1>5, <2>2, <3>1, LetOfUnknown
      <3>3. tc.scope[x].type = N
        BY <1>3, <1>4, <3>2
      <3>4. QED
        BY <1>5, <3>3 DEF Aims
    <2>3. QED
      BY <2>1, <2>2
  <1> HIDE DEF tc
  <1>7. PICK T \in Type : /\ tc.scope[x].type = T /\ ShapedAt(T, t)
                          /\ departures = {} /\ Retyped(T, e) = {} => AimsAt(T, t)
    BY <1>6
  <1>8. tc.scope[x].type = T
    BY <1>7
  <1>9. /\ types' = With(types, x, T) /\ memory' = With(memory, x, t)
        /\ departures' = departures \cup Retyped(T, e)
    BY <1>1, <1>8
  <1>10. /\ departures \subseteq departures'
         /\ departures' = {} => AimsAt(T, t)
    BY <1>7, <1>9
  <1>11. types' = With(types, Undeclared, T) /\ memory' = With(memory, Undeclared, t)
    BY <1>9 DEF x
  <1>12. QED
    BY <1>7, <1>10, <1>11, DeclaringKeeps

LEMMA AssignKeeps ==
    ASSUME TypesAreFinite, ChecksUnfold, SoundInv,
           NEW l \in Lvalues, NEW e \in Operands, Assign(l, e)
    PROVE  SoundInv'
  <1> DEFINE scope == Scope(types)
             y == Place(memory, l)
             t == Pointee(memory, e)
  <1>1. /\ y # Undefined /\ t # Undefined
        /\ Accepted(CheckExpression(scope, Assignment(l, e)))
        /\ memory' = [memory EXCEPT ![y] = t] /\ types' = types
        /\ departures' = departures \cup Retyped(TypeOf(l), e) \cup ConstWritten(l)
    BY DEF Assign
  <1>2. Scopes(scope)
    BY ScopeScopes
  <1>3. PICK x \in DOMAIN types : l \in {Variable(x), At(Variable(x))}
    BY DEF Lvalues
  <1> DEFINE type == types[x]
             v == Variable(x)
  <1>4. /\ type \in Type /\ LifetimeOf(x) \in Lifetimes /\ x # Undefined
        /\ scope[x].type = type /\ scope[x].lifetime = LifetimeOf(x)
        /\ DOMAIN memory = DOMAIN types
    BY <1>2, DeclaredCases DEF SoundInv, Scopes
  <1>5. /\ Place(memory, v) = x /\ Place(memory, At(v)) = memory[x]
        /\ At(v).op = ".*"
    BY <1>4, PlacesAre DEF At
  <1>6. /\ Located(v, scope, type, LifetimeOf(x))
        /\ Dereference(type) # NoType =>
              /\ Located(At(v), scope, Dereference(type), PointedLifetime(type))
              /\ Dereference(type) \in Type
    BY <1>4, OperandCases
  <1>7. Unfolds(l) /\ Unfolds(e)
    <2>1. PICK z \in DOMAIN types : e \in {Variable(z), At(Variable(z)), AddressOf(Variable(z)),
                                           AddressOf(At(Variable(z)))}
      BY OperandForms
    <2>2. QED
      BY <1>3, <2>1 DEF ChecksUnfold, Unfolds
  <1> HIDE DEF scope, t, v
  <1>8. PICK N \in Type, S \in SUBSET Type : Valued(e, scope, N, S) /\ Aims(e, N, S, t)
    BY <1>1, <1>2, ValuesAim DEF t
  <1>9. /\ departures \subseteq departures'
        /\ departures' = {} => /\ departures = {} /\ Retyped(TypeOf(l), e) = {}
                              /\ ConstWritten(l) = {}
    BY <1>1
  <1>10. ASSUME NEW T \in Type, NEW lifetime, Located(l, scope, T, lifetime)
         PROVE  TypeOf(l) = T /\ ShapedAt(T, t) /\ (departures' = {} => AimsAt(T, t))
    <2>1. TypeOf(l) = T
      BY <1>10, TypeOfPlace DEF TypeOf, scope
    <2>2. T \in S
      BY <1>1, <1>7, <1>8, <1>10, AssignmentAccepted
    <2>3. QED
      BY <1>8, <1>9, <2>1, <2>2 DEF Aims
  <1>11. /\ y \in DOMAIN types /\ ShapedAt(types[y], t)
         /\ departures' = {} => AimsAt(types[y], t)
    <2>1. CASE l = v
      <3>1. y = x
        BY <1>5, <2>1
      <3>2. QED
        BY <1>4, <1>6, <1>10, <2>1, <3>1
    <2>2. CASE l = At(v)
      <3>1. y = memory[x] /\ x \in Pointing
        BY <1>1, <1>4, <1>5, <2>2 DEF Pointing
      <3>2. /\ y \in DOMAIN types /\ types[y] \in Type /\ Dereference(type) # NoType
            /\ Shape(Dereference(type)) = Shape(types[y])
            /\ departures = {} =>
                  Dereference(type) = types[y] \/ IsConst(Dereference(type))
        BY <3>1 DEF SoundInv, ShapedAt, PointsRight, Points
      <3> HIDE DEF type, y
      <3>3. /\ TypeOf(l) = Dereference(type) /\ Dereference(type) \in Type
            /\ ShapedAt(Dereference(type), t)
            /\ departures' = {} => AimsAt(Dereference(type), t)
        BY <1>6, <1>10, <2>2, <3>2
      <3>4. ShapedAt(types[y], t)
        BY <3>2, <3>3, PointeesHaveShape DEF ShapedAt
      <3>5. ASSUME departures' = {}
            PROVE  Dereference(type) = types[y]
        <4>1. ConstWritten(l) = {} /\ departures = {}
          BY <1>9, <3>5
        <4>2. ~IsConst(Dereference(type))
          BY <1>5, <2>2, <3>3, <4>1 DEF ConstWritten
        <4>3. QED
          BY <3>2, <4>1, <4>2
      <3>6. QED
        BY <3>2, <3>3, <3>4, <3>5
    <2>3. QED
      BY <1>3, <2>1, <2>2 DEF v
  <1>12. QED
    BY <1>1, <1>9, <1>11, AssigningKeeps

(* Whatever a program does that the checker accepts, every pointer points  *)
(* to a value of the shape that its type promises; and, as long as nothing *)
(* is retyped or written through a pointer to const, to one of the very    *)
(* type, up to const, which lives as long as the type says.                *)
THEOREM SoundInvariant ==
    ASSUME TypesAreFinite, ChecksUnfold, ProgramsAreTyped
    PROVE  Spec => []SoundInv
  <1>1. ASSUME Init
        PROVE  SoundInv
    <2>1. /\ types = <<>> /\ memory = <<>> /\ DOMAIN types = {} /\ DOMAIN memory = {}
      BY <1>1 DEF Init
    <2>2. IsFiniteSet({}) /\ Cardinality({}) = 0 /\ 0 \in 0 .. Len(Variables)
      BY FS_EmptySet, VariablesAssumption
    <2>3. Declared(0) = {}
      BY DEF Declared
    <2>4. QED
      BY <2>1, <2>2, <2>3 DEF SoundInv, Pointing
  <1>2. ASSUME SoundInv, [Next]_vars
        PROVE  SoundInv'
    <2>1. ASSUME Cardinality(DOMAIN types) < Len(Variables),
                 NEW type \in Declarable(Undeclared), Declare(Undeclared, type)
          PROVE  SoundInv'
      <3>1. type \in Type
        BY <1>2, <2>1, UndeclaredCases DEF ProgramsAreTyped
      <3>2. QED
        BY <1>2, <2>1, <3>1, DeclaringKeeps DEF Declare
    <2>2. ASSUME Cardinality(DOMAIN types) < Len(Variables),
                 NEW type \in Declarable(Undeclared), NEW e \in Operands,
                 Assigned(type, types, e),
                 NEW declared \in {type, NoType},
                 DeclareInitialized(Undeclared, declared, e)
          PROVE  SoundInv'
      BY <1>2, <2>2, InitializingKeeps
    <2>3. ASSUME NEW l \in Lvalues, NEW e \in Operands, Assign(l, e)
          PROVE  SoundInv'
      BY <1>2, <2>3, AssignKeeps
    <2>4. CASE UNCHANGED vars
      BY <1>2, <2>4 DEF vars, SoundInv, Pointing, PointsRight, ShapedAt
    <2>5. QED
      BY <1>2, <2>1, <2>2, <2>3, <2>4 DEF Next
  <1>3. QED
    BY <1>1, <1>2, PTL DEF Spec

-----------------------------------------------------------------------------
(* What follows. *)

LEMMA WhatIsPointedTo ==
    ASSUME TypesAreFinite, SoundInv, NEW x \in Pointing
    PROVE  LET y == memory[x]
               to == Dereference(types[x])
           IN  /\ x \in DOMAIN types /\ types[x] \in Type /\ y \in DOMAIN types
               /\ IsPointer(Bare(types[x])) /\ Shape(to) = Shape(types[y])
               /\ LifetimeOf(x) \in Nat /\ LifetimeOf(y) \in Nat
               /\ PointedLifetime(types[x]) \in Nat
               /\ departures = {} =>
                     /\ to = types[y] \/ IsConst(to)
                     /\ LifetimeOf(y) <= PointedLifetime(types[x])
  <1>1. x \in DOMAIN types /\ ShapedAt(types[x], memory[x])
    BY DEF SoundInv, Pointing
  <1>2. /\ types[x] \in Type /\ memory[x] \in DOMAIN types
        /\ Dereference(types[x]) # NoType
        /\ Shape(Dereference(types[x])) = Shape(types[memory[x]])
    BY <1>1 DEF SoundInv, ShapedAt
  <1>3. IsPointer(Bare(types[x])) /\ PointedLifetime(types[x]) \in Nat
    BY <1>2, DereferenceCases, LifetimesAssumption
  <1>4. LifetimeOf(x) \in Nat /\ LifetimeOf(memory[x]) \in Nat
    BY <1>1, <1>2, DeclaredCases
  <1>5. departures = {} => PointsRight(x)
    BY DEF SoundInv
  <1>6. QED
    BY <1>1, <1>2, <1>3, <1>4, <1>5 DEF PointsRight, Points

(* A pointer is only held by a variable of pointer type, and points to a   *)
(* value of the type it is a pointer to, in every accepted program:        *)
(* whatever types are inferred, and whatever is written through what.      *)
THEOREM PointersAreTyped ==
    ASSUME TypesAreFinite, ChecksUnfold, ProgramsAreTyped
    PROVE  Spec => []ShapesKept
  <1>1. SoundInv => ShapesKept
    BY WhatIsPointedTo DEF ShapesKept, SoundInv
  <1>2. QED
    BY <1>1, SoundInvariant, PTL

(* The relations that require_assignable asks of the lifetimes suffice, as *)
(* long as nothing is retyped or written through a pointer to const: what  *)
(* a pointer points to, however it is read, lives as long as the type says *)
(* that it is read with; and no pointer outlives what it points to if the  *)
(* types name lifetimes around the variables that have them.               *)
THEOREM PointersDoNotDangle ==
    ASSUME TypesAreFinite, ChecksUnfold, ProgramsAreTyped
    PROVE  Spec => []PointersLive
  <1>1. SoundInv => PointersLive
    <2>1. SUFFICES ASSUME SoundInv, departures = {}
                   PROVE  /\ \A e \in Lvalues : Pointee(memory, e) # Undefined =>
                                LifetimeOf(Pointee(memory, e)) <= PointedLifetime(TypeOf(e))
                          /\ LabelsSurround => NothingDangles
      BY Zenon DEF PointersLive
    <2>2. ASSUME NEW e \in Lvalues, Pointee(memory, e) # Undefined
          PROVE  LifetimeOf(Pointee(memory, e)) <= PointedLifetime(TypeOf(e))
      <3>1. e \in Operands
        BY DEF Operands
      <3>2. PICK N \in Type, S \in SUBSET Type :
               TypeOf(e) = N /\ Aims(e, N, S, Pointee(memory, e))
        BY <2>1, <2>2, <3>1, ValuesAim, ScopeScopes
      <3>3. QED
        BY <2>1, <3>2 DEF Aims, AimsAt, Points
    <2>3. ASSUME LabelsSurround, NEW x \in Pointing
          PROVE  LifetimeOf(memory[x]) <= LifetimeOf(x)
      <3>1. /\ x \in DOMAIN types /\ IsPointer(Bare(types[x]))
            /\ LifetimeOf(x) \in Nat /\ LifetimeOf(memory[x]) \in Nat
            /\ PointedLifetime(types[x]) \in Nat
            /\ LifetimeOf(memory[x]) <= PointedLifetime(types[x])
        BY <2>1, <2>3, WhatIsPointedTo
      <3>2. PointedLifetime(types[x]) <= LifetimeOf(x)
        BY <2>3, <3>1 DEF LabelsSurround
      <3>3. QED
        BY <3>1, <3>2
    <2>4. QED
      BY <2>2, <2>3 DEF NothingDangles
  <1>2. QED
    BY <1>1, SoundInvariant, PTL

(* Only pointers to const point to a const variable, as long as nothing is *)
(* retyped or written through a pointer to const.                          *)
THEOREM ConstIsKept ==
    ASSUME TypesAreFinite, ChecksUnfold, ProgramsAreTyped
    PROVE  Spec => []ConstKept
  <1>1. SoundInv => ConstKept
    <2>1. SUFFICES ASSUME SoundInv, departures = {}, NEW x \in Pointing,
                          IsConst(types[memory[x]])
                   PROVE  IsConst(Dereference(types[x]))
      BY DEF ConstKept, ConstProtected
    <2>2. QED
      BY <2>1, WhatIsPointedTo
  <1>2. QED
    BY <1>1, SoundInvariant, PTL

-----------------------------------------------------------------------------

LEMMA AssignableIsFits ==
    ASSUME TypesAreFinite, ChecksUnfold, NEW scope, NEW x, NEW y,
           scope[x].type \in Type, scope[x].lifetime \in Lifetimes,
           scope[y].type \in Type, scope[y].lifetime \in Lifetimes
    PROVE  Assignable(scope, x, y) <=> Fits(scope[x].type, scope[y].type, Copying)
  <1>1. /\ Unfolds(Variable(x))
        /\ Located(Variable(x), scope, scope[x].type, scope[x].lifetime)
    BY OperandCases
  <1>2. /\ Unfolds(Variable(y))
        /\ Valued(Variable(y), scope, scope[y].type, Receivers(scope[y].type))
    BY OperandCases
  <1>3. Assignable(scope, x, y) <=> scope[x].type \in Receivers(scope[y].type)
    BY <1>1, <1>2, AssignmentAccepted DEF Assignable
  <1>4. QED
    BY <1>3 DEF Receivers

LEMMA RecentAreDeclared ==
    ASSUME SoundInv, NEW n, NEW x \in Recent(n)
    PROVE  x \in DOMAIN types
  <1> DEFINE d == Cardinality(DOMAIN types)
  <1>1. DOMAIN types = Declared(d)
    BY DEF SoundInv
  <1>2. PICK j \in 1 .. d : x = Variables[j]
    BY DEF Recent
  <1> HIDE DEF d
  <1>3. QED
    BY <1>1, <1>2 DEF Declared

\* The scope of the variables and a new one.
LEMMA NewScope ==
    ASSUME SoundInv, NEW type
    PROVE  LET scope == Scope(With(types, "new", type))
           IN  /\ Scopes(scope) /\ "new" \in DOMAIN scope /\ "new" \notin DOMAIN types
               /\ scope["new"].type = type /\ scope["new"].lifetime \in Lifetimes
               /\ \A T : [scope EXCEPT !["new"].type = T] = Scope(With(types, "new", T))
  <1> DEFINE x == "new"
             scope == Scope(With(types, x, type))
  <1>1. x \notin DOMAIN types /\ LifetimeOf(x) \in Lifetimes
    BY DeclaredCases, VariablesAssumption
  <1> HIDE DEF x
  <1>2. /\ Scopes(scope) /\ x \in DOMAIN scope
        /\ scope[x] = [type |-> type, lifetime |-> LifetimeOf(x)]
        /\ \A T : [scope EXCEPT ![x].type = T] = Scope(With(types, x, T))
    BY <1>1, ScopeWith, Zenon
  <1>3. scope[x].type = type /\ scope[x].lifetime = LifetimeOf(x)
    <2> HIDE DEF scope
    <2>1. QED
      BY <1>2
  <1>4. QED
    BY <1>1, <1>2, <1>3 DEF x

(* No way of assigning goes round the checker by a variable in between.    *)
THEOREM AssignabilityIsTransitive ==
    ASSUME TypesAreFinite, ChecksUnfold, ProgramsAreTyped
    PROVE  Spec => []WaysAgree
  <1>1. SoundInv => WaysAgree
    <2>1. SUFFICES ASSUME SoundInv, NEW x \in Recent(2), NEW y \in Recent(2),
                          NEW type \in UNION {Declarable(Variables[i]) : i \in DOMAIN Variables},
                          Assignable(Scope(With(types, "new", type)), x, "new"),
                          Assignable(Scope(With(types, "new", type)), "new", y)
                   PROVE  Assignable(Scope(With(types, "new", type)), x, y)
      BY DEF WaysAgree
    <2> DEFINE scope == Scope(With(types, "new", type))
               new == "new"
    <2>2. type \in Type
      BY <2>1 DEF ProgramsAreTyped
    <2>3. x \in DOMAIN types /\ y \in DOMAIN types
      BY <2>1, RecentAreDeclared
    <2>4. Scopes(scope) /\ scope[new].type = type /\ scope[new].lifetime \in Lifetimes
      BY <2>1, NewScope
    <2>5. Assignable(scope, x, new) /\ Assignable(scope, new, y)
      BY <2>1
    <2> HIDE DEF scope, new
    <2>6. /\ scope[x].type \in Type /\ scope[x].lifetime \in Lifetimes
          /\ scope[y].type \in Type /\ scope[y].lifetime \in Lifetimes
      BY <2>1, <2>3, <2>4, DeclaredCases DEF Scopes, SoundInv
    <2>7. Fits(scope[x].type, type, Copying) /\ Fits(type, scope[y].type, Copying)
      BY <2>2, <2>4, <2>5, <2>6, AssignableIsFits
    <2>8. Fits(scope[x].type, scope[y].type, Copying)
      BY <2>2, <2>6, <2>7, FitsTransitive, CopyingCases
    <2>9. Assignable(scope, x, y)
      BY <2>6, <2>8, AssignableIsFits
    <2>10. QED
      BY <2>9 DEF scope
  <1>2. QED
    BY <1>1, SoundInvariant, PTL

LEMMA OwnReceivers ==
    ASSUME TypesAreFinite, NEW type \in Type
    PROVE  /\ type \in Receivers(type)
           /\ \A l \in Lifetimes : PointerTo(type, l) \in Addressees(type, l)
  <1>1. type \in Receivers(type)
    BY FitsSame, CopyingCases DEF Receivers
  <1>2. ASSUME NEW l \in Lifetimes
        PROVE  PointerTo(type, l) \in Addressees(type, l)
    <2> DEFINE pointer == PointerTo(type, l)
    <2>1. pointer \in Type /\ Dereference(pointer) = type /\ type # NoType
      BY AddressPoints, TypeCases
    <2> HIDE DEF pointer
    <2>2. Fits(pointer, pointer, Copying) /\ Fits(type, type, Copying)
      BY <2>1, FitsSame, CopyingCases
    <2>3. pointer = PointerTo(Dereference(pointer), l)
      BY <2>1 DEF pointer
    <2>4. pointer \in Addressees(type, l)
      BY <2>1, <2>2, <2>3 DEF Addressees
    <2>5. QED
      BY <2>4 DEF pointer
  <1>3. QED
    BY <1>1, <1>2

LEMMA OwnTypeFits ==
    ASSUME TypesAreFinite, ChecksUnfold, SoundInv, NEW e \in Operands
    PROVE  \/ \A scope : Scopes(scope) => Valueless(e, scope)
           \/ \E N \in Type, S \in SUBSET Type :
                 /\ N \in S
                 /\ \A scope : Scopes(scope) => Valued(e, scope, N, S)
  <1>1. PICK x \in DOMAIN types : e \in {Variable(x), At(Variable(x)), AddressOf(Variable(x)),
                                         AddressOf(At(Variable(x)))}
    BY OperandForms
  <1> DEFINE v == Variable(x)
             type == types[x]
             lifetime == LifetimeOf(x)
             to == Dereference(type)
             lives == PointedLifetime(type)
  <1>2. type \in Type /\ lifetime \in Lifetimes
    BY DeclaredCases DEF SoundInv
  <1>3. ASSUME NEW scope, Scopes(scope)
        PROVE  /\ Valued(v, scope, type, Receivers(type))
               /\ Valued(AddressOf(v), scope, PointerTo(type, lifetime),
                         Addressees(type, lifetime))
               /\ to # NoType =>
                     /\ Valued(At(v), scope, to, Receivers(to))
                     /\ Valued(AddressOf(At(v)), scope, PointerTo(to, lives),
                               Addressees(to, lives))
               /\ to = NoType => Valueless(At(v), scope) /\ Valueless(AddressOf(At(v)), scope)
    <2>1. scope[x].type = type /\ scope[x].lifetime = lifetime
      BY <1>3 DEF Scopes
    <2>2. QED
      BY <1>2, <2>1, OperandCases
  <1>4. to # NoType => to \in Type /\ lives \in Lifetimes
    BY <1>2, DereferenceCases
  <1>5. \A t \in Type : \A l \in Lifetimes :
           /\ t \in Receivers(t) /\ Receivers(t) \in SUBSET Type
           /\ PointerTo(t, l) \in Addressees(t, l) /\ Addressees(t, l) \in SUBSET Type
           /\ PointerTo(t, l) \in Type
    BY OwnReceivers, AddressPoints DEF Receivers, Addressees
  <1> HIDE DEF v, type, lifetime, to, lives
  <1>6. CASE e = v
    BY <1>2, <1>3, <1>5, <1>6
  <1>7. CASE e = AddressOf(v)
    BY <1>2, <1>3, <1>5, <1>7
  <1>8. CASE e = At(v)
    BY <1>3, <1>4, <1>5, <1>8
  <1>9. CASE e = AddressOf(At(v))
    BY <1>3, <1>4, <1>5, <1>9
  <1>10. QED
    BY <1>1, <1>6, <1>7, <1>8, <1>9 DEF v

(* A variable may be declared with the type that is inferred for it. *)
THEOREM InferredTypesFit ==
    ASSUME TypesAreFinite, ChecksUnfold, ProgramsAreTyped
    PROVE  Spec => []InferredFits
  <1>1. SoundInv => InferredFits
    <2>1. SUFFICES ASSUME SoundInv, NEW e \in Operands
                   PROVE  LET Let(type) == CheckLet(Scope(With(types, "new", type)), "new", e)
                              inferred == Let(NoType)
                          IN  Accepted(inferred) => Accepted(Let(inferred.scope["new"].type))
      BY Zenon DEF InferredFits
    <2> DEFINE new == "new"
               scope(type) == Scope(With(types, new, type))
               inferred == CheckLet(scope(NoType), new, e)
    <2>2. \A type : /\ Scopes(scope(type)) /\ new \in DOMAIN scope(type)
                    /\ scope(type)[new].type = type
                    /\ \A T : [scope(type) EXCEPT ![new].type = T] = scope(T)
      BY <2>1, NewScope
    <2> HIDE DEF scope, new
    <2>3. SUFFICES ASSUME Accepted(inferred)
                   PROVE  Accepted(CheckLet(scope(inferred.scope[new].type), new, e))
      BY DEF scope, new
    <2>4. ~Valueless(e, scope(NoType))
      <3>1. Integral # NoType
        BY DEF Integral, NoType
      <3>2. QED
        BY <2>2, <2>3, <3>1, LetOfUnknown
    <2>5. PICK N \in Type, S \in SUBSET Type :
             N \in S /\ \A given : Scopes(given) => Valued(e, given, N, S)
      BY <2>1, <2>2, <2>4, OwnTypeFits
    <2>6. N # NoType
      BY TypeCases
    <2>7. inferred.scope = scope(N)
      <3>1. inferred.scope = [scope(NoType) EXCEPT ![new].type = N]
        BY <2>2, <2>5, <2>6, LetOfUnknown
      <3>2. QED
        BY <2>2, <3>1
    <2>8. Accepted(CheckLet(scope(N), new, e))
      BY <2>2, <2>5, LetOfKnown
    <2>9. inferred.scope[new].type = N
      BY <2>2, <2>7
    <2>10. QED
      BY <2>8, <2>9
  <1>2. QED
    BY <1>1, SoundInvariant, PTL

-----------------------------------------------------------------------------
(* What is reported as unsafe. *)

(* The expressions of UnsafeReported, over all the variables. *)
Leaves == {Variable(Variables[i]) : i \in DOMAIN Variables} \cup {Literal}

(* The constants for the operands of these are the operators themselves. *)
OperandsUnfold ==
    \A e \in Leaves \cup Computations(Leaves, Leaves) :
       /\ \A tc : InnerCheck(tc, e) = Check(tc, e)
       /\ \A declared : InnerUnmarked(declared, e) = UnsafeUnmarked(declared, e)

Unsafes(errors) == Cardinality({i \in DOMAIN errors : errors[i] = "unsafe"})

(* A checker while an operation is under way. *)
Underway(scope, errors, constraints, context, type, category, safety) ==
    [scope |-> scope, errors |-> errors, constraints |-> constraints, safety |-> safety,
     context |-> context, type |-> type, category |-> category]

(* It has reported n operations as unsafe. *)
Stands(tc, scope, context, type, safety, n) ==
    \E errors, constraints, category :
       /\ IsList(errors) /\ Unsafes(errors) = n
       /\ tc = Underway(scope, errors, constraints, context, type, category, safety)

LEMMA NoUnsafes == IsList(<<>>) /\ Unsafes(<<>>) = 0
  <1>1. <<>> \in Seq({})
    OBVIOUS
  <1>2. {i \in DOMAIN <<>> : <<>>[i] = "unsafe"} = {}
    OBVIOUS
  <1>3. QED
    BY <1>1, <1>2, FS_EmptySet DEF IsList, Unsafes

LEMMA UnsafesAppended ==
    ASSUME NEW s, IsList(s), NEW x
    PROVE  /\ IsList(Append(s, x))
           /\ Unsafes(s) \in Nat
           /\ Unsafes(Append(s, x)) = Unsafes(s) + (IF x = "unsafe" THEN 1 ELSE 0)
  <1> DEFINE r == Append(s, x)
             n == Len(s)
             S == {i \in DOMAIN s : s[i] = "unsafe"}
             T == {i \in DOMAIN r : r[i] = "unsafe"}
  <1>1. PICK R : s \in Seq(R)
    BY DEF IsList
  <1>2. n \in Nat /\ DOMAIN s = 1 .. n
    BY <1>1
  <1>3. DOMAIN r = 1 .. (n + 1) /\ r[n + 1] = x /\ \A i \in 1 .. n : r[i] = s[i]
    <2>1. s \in Seq(R \cup {x})
      BY <1>1
    <2>2. QED
      BY <2>1
  <1>4. IsFiniteSet(S)
    <2>1. IsFiniteSet(1 .. n)
      BY <1>2, FS_Interval
    <2>2. QED
      BY <1>2, <2>1, FS_Subset
  <1>5. Cardinality(S) \in Nat
    BY <1>4, FS_CardinalityType
  <1> HIDE DEF r, n
  <1>6. 1 .. (n + 1) = (1 .. n) \cup {n + 1} /\ n + 1 \notin 1 .. n
    BY <1>2
  <1>7. n + 1 \notin S
    BY <1>2, <1>6
  <1>8. T = IF x = "unsafe" THEN S \cup {n + 1} ELSE S
    BY <1>2, <1>3, <1>6
  <1>9. Cardinality(T) = Cardinality(S) + (IF x = "unsafe" THEN 1 ELSE 0)
    <2>1. CASE x = "unsafe"
      BY <1>4, <1>7, <1>8, <2>1, FS_AddElement
    <2>2. CASE x # "unsafe"
      <3>1. T = S
        BY <1>8, <2>2
      <3>2. Cardinality(T) = Cardinality(S)
        BY <3>1, Zenon
      <3>3. QED
        BY <1>5, <2>2, <3>2
    <2>3. QED
      BY <2>1, <2>2
  <1>10. IsList(Append(s, x))
    BY Appended
  <1>11. QED
    BY <1>5, <1>9, <1>10 DEF Unsafes, r

LEMMA UnderwayFields ==
    ASSUME NEW s, NEW e, NEW k, NEW c, NEW t, NEW g, NEW f
    PROVE  LET tc == Underway(s, e, k, c, t, g, f)
           IN  /\ tc.scope = s /\ tc.errors = e /\ tc.constraints = k
               /\ tc.context = c /\ tc.type = t /\ tc.category = g /\ tc.safety = f
  BY DEF Underway

LEMMA ReportUnderway ==
    ASSUME NEW s, NEW e, NEW k, NEW c, NEW t, NEW g, NEW f, NEW x
    PROVE  Report(Underway(s, e, k, c, t, g, f), x) = Underway(s, Append(e, x), k, c, t, g, f)
  <1> DEFINE tc == Underway(s, e, k, c, t, g, f)
  <1>1. \A z : [tc EXCEPT !.errors = z] = Underway(s, z, k, c, t, g, f)
    BY DEF Underway
  <1>2. tc.errors = e
    BY UnderwayFields
  <1>3. Report(tc, x) = [tc EXCEPT !.errors = Append(tc.errors, x)]
    BY Zenon DEF Report
  <1>4. QED
    BY <1>1, <1>2, <1>3

LEMMA UnderwayUpdates ==
    ASSUME NEW s, NEW e, NEW k, NEW c, NEW t, NEW g, NEW f, NEW x, NEW y
    PROVE  LET tc == Underway(s, e, k, c, t, g, f)
           IN  /\ Entered(tc, x) = Underway(s, e, k, x, t, g, "safe")
               /\ Typed(tc, x, y) = Underway(s, e, k, c, x, y, f)
  <1> DEFINE tc == Underway(s, e, k, c, t, g, f)
  <1>1. Entered(tc, x) = Underway(s, e, k, x, t, g, "safe")
    <2>1. [tc EXCEPT !.safety = "safe"] = Underway(s, e, k, c, t, g, "safe")
      BY DEF Underway
    <2>2. [Underway(s, e, k, c, t, g, "safe") EXCEPT !.context = x] =
             Underway(s, e, k, x, t, g, "safe")
      BY DEF Underway
    <2>3. Entered(tc, x) = [[tc EXCEPT !.safety = "safe"] EXCEPT !.context = x]
      BY TwoFields, Zenon DEF Entered
    <2>4. QED
      BY <2>1, <2>2, <2>3
  <1>2. Typed(tc, x, y) = Underway(s, e, k, c, x, y, f)
    <2>1. [tc EXCEPT !.type = x] = Underway(s, e, k, c, x, g, f)
      BY DEF Underway
    <2>2. [Underway(s, e, k, c, x, g, f) EXCEPT !.category = y] = Underway(s, e, k, c, x, y, f)
      BY DEF Underway
    <2>3. Typed(tc, x, y) = [[tc EXCEPT !.type = x] EXCEPT !.category = y]
      BY TwoFields, Zenon DEF Typed
    <2>4. QED
      BY <2>1, <2>2, <2>3
  <1>3. QED
    BY <1>1, <1>2

LEMMA StandsFields ==
    ASSUME NEW tc, NEW s, NEW c, NEW t, NEW f, NEW n, Stands(tc, s, c, t, f, n)
    PROVE  /\ tc.scope = s /\ tc.context = c /\ tc.type = t /\ tc.safety = f
           /\ Unsafes(tc.errors) = n /\ n \in Nat
  BY UnderwayFields, UnsafesAppended DEF Stands

\* What the operations on a checker change.
Safed(tc, safety) == [tc EXCEPT !.safety = safety]

LEMMA ReportStands ==
    ASSUME NEW tc, NEW s, NEW c, NEW t, NEW f, NEW n, Stands(tc, s, c, t, f, n), NEW x
    PROVE  Stands(Report(tc, x), s, c, t, f, n + (IF x = "unsafe" THEN 1 ELSE 0))
  <1>1. PICK e, k, g : IsList(e) /\ Unsafes(e) = n /\ tc = Underway(s, e, k, c, t, g, f)
    BY DEF Stands
  <1> DEFINE r == Append(e, x)
             m == n + (IF x = "unsafe" THEN 1 ELSE 0)
  <1>2. IsList(r) /\ Unsafes(r) = m
    BY <1>1, UnsafesAppended
  <1>3. Report(tc, x) = Underway(s, r, k, c, t, g, f)
    BY <1>1, ReportUnderway
  <1> HIDE DEF r, m
  <1>4. Stands(Report(tc, x), s, c, t, f, m)
    BY <1>2, <1>3, Zenon DEF Stands
  <1>5. QED
    BY <1>4 DEF m

LEMMA UpdatesStand ==
    ASSUME NEW tc, NEW s, NEW c, NEW t, NEW f, NEW n, Stands(tc, s, c, t, f, n),
           NEW x, NEW y
    PROVE  /\ Stands(Contexted(tc, x), s, x, t, f, n)
           /\ Stands(Safed(tc, x), s, c, t, x, n)
           /\ Stands(Entered(tc, x), s, x, t, "safe", n)
           /\ Stands(Typed(tc, x, y), s, c, x, f, n)
  <1>1. PICK e, k, g : IsList(e) /\ Unsafes(e) = n /\ tc = Underway(s, e, k, c, t, g, f)
    BY DEF Stands
  <1>2. Contexted(tc, x) = Underway(s, e, k, x, t, g, f)
    BY <1>1 DEF Contexted, Underway
  <1>3. Safed(tc, x) = Underway(s, e, k, c, t, g, x)
    BY <1>1 DEF Safed, Underway
  <1>4. Entered(tc, x) = Underway(s, e, k, x, t, g, "safe")
    BY <1>1, UnderwayUpdates
  <1>5. Typed(tc, x, y) = Underway(s, e, k, c, x, y, f)
    BY <1>1, UnderwayUpdates
  <1>6. Stands(Contexted(tc, x), s, x, t, f, n)
    BY <1>1, <1>2, Zenon DEF Stands
  <1>7. Stands(Safed(tc, x), s, c, t, x, n)
    BY <1>1, <1>3, Zenon DEF Stands
  <1>8. Stands(Entered(tc, x), s, x, t, "safe", n)
    BY <1>1, <1>4, Zenon DEF Stands
  <1>9. Stands(Typed(tc, x, y), s, c, x, f, n)
    BY <1>1, <1>5, Zenon DEF Stands
  <1>10. QED
    BY <1>6, <1>7, <1>8, <1>9

LEMMA ReportUnlessStands ==
    ASSUME NEW tc, NEW s, NEW c, NEW t, NEW f, NEW n, Stands(tc, s, c, t, f, n),
           NEW condition, NEW x, x # "unsafe"
    PROVE  Stands(ReportUnless(condition, tc, x), s, c, t, f, n)
  <1>1. Stands(Report(tc, x), s, c, t, f, n)
    <2>1. n \in Nat
      BY StandsFields
    <2>2. n + (IF x = "unsafe" THEN 1 ELSE 0) = n
      BY <2>1
    <2>3. QED
      BY <2>2, ReportStands
  <1>2. QED
    BY <1>1 DEF ReportUnless

LEMMA VerifySafetyStands ==
    ASSUME NEW tc, NEW s, NEW c, NEW t, NEW f, NEW n, Stands(tc, s, c, t, f, n), NEW e
    PROVE  Stands(VerifySafety(tc, e), s, c, t, "safe",
                  n + (IF f = "safe" \/ e.unsafe THEN 0 ELSE 1))
  <1> DEFINE told == ReportUnless(tc.safety = "safe" \/ e.unsafe, tc, "unsafe")
             m == n + (IF f = "safe" \/ e.unsafe THEN 0 ELSE 1)
  <1>1. tc.safety = f /\ n \in Nat
    BY StandsFields
  <1>2. Stands(told, s, c, t, f, m)
    <2>1. CASE f = "safe" \/ e.unsafe
      <3>1. told = tc
        BY <1>1, <2>1 DEF ReportUnless
      <3>2. m = n
        BY <1>1, <2>1
      <3>3. QED
        BY <3>1, <3>2, Zenon
    <2>2. CASE ~(f = "safe" \/ e.unsafe)
      <3>1. told = Report(tc, "unsafe")
        BY <1>1, <2>2 DEF ReportUnless
      <3>2. m = n + 1
        BY <1>1, <2>2
      <3>3. Stands(Report(tc, "unsafe"), s, c, t, f, n + 1)
        BY ReportStands
      <3>4. QED
        BY <3>1, <3>2, <3>3, Zenon
    <2>3. QED
      BY <2>1, <2>2
  <1>3. VerifySafety(tc, e) = Safed(told, "safe")
    BY DEF VerifySafety, Safed
  <1> HIDE DEF told, m
  <1>4. Stands(VerifySafety(tc, e), s, c, t, "safe", m)
    BY <1>2, <1>3, UpdatesStand
  <1>5. QED
    BY <1>4 DEF m

\* A suggestion is overridden.
Suggestion(a) == Context(a, "suggestion")

LEMMA ConstrainStands ==
    ASSUME NEW tc, NEW s, NEW a, NEW t, NEW f, NEW n, Stands(tc, s, Suggestion(a), t, f, n),
           NEW type
    PROVE  Stands(Constrain(tc, type, "assignee"), s, Context(type, "assignee"), t, f, n)
  <1>1. tc.context.type = a /\ tc.context.kind = "suggestion"
    BY StandsFields DEF Suggestion, Context
  <1>2. Constrain(tc, type, "assignee") = Contexted(tc, Context(type, "assignee"))
    BY <1>1 DEF Constrain, Contexted
  <1>3. QED
    BY <1>2, UpdatesStand

LEMMA SetTypeInfoStands ==
    ASSUME NEW tc, NEW s, NEW c, NEW t, NEW f, NEW n, Stands(tc, s, c, t, f, n),
           c.type # NoType, NEW g
    PROVE  Stands(SetTypeInfo(tc, g), s, c, c.type, f, n)
  <1>1. tc.context = c
    BY StandsFields
  <1>2. SetTypeInfo(tc, g) = Typed(tc, c.type, g)
    BY <1>1 DEF SetTypeInfo
  <1>3. QED
    BY <1>2, UpdatesStand

-----------------------------------------------------------------------------
\* The type of e, where a is suggested for it.
TypeGiven(e, type, a) == IF e.op = "literal" /\ a = ErrorType THEN ErrorType ELSE type

\* After the operation, and before it is verified.
Gets(after, scope, type, safety, n) ==
    \E kind : Stands(after, scope, Context(type, kind), type, safety, n)

(* Wherever e is checked, as an operand or alone, its type is found out    *)
(* from e, and n operations in it are reported as unsafe.                  *)
Counts(e, scope, type, n) ==
    /\ type # NoType /\ n \in Nat /\ (e.op = "literal" => type = Integral)
    /\ \A a, tc, t, m :
          Stands(tc, scope, Suggestion(a), t, "safe", m) =>
             Gets(VerifySafety(Check(tc, e), e), scope, TypeGiven(e, type, a), "safe", m + n)

OneIf(condition) == IF condition THEN 1 ELSE 0

LEMMA ContextParts ==
    ASSUME NEW a, NEW kind
    PROVE  Context(a, kind).type = a /\ Context(a, kind).kind = kind
  BY DEF Context

LEMMA DifferentTypes == Integral # NoType /\ ErrorType # NoType /\ Integral # ErrorType
  BY DEF Integral, NoType, ErrorType

LEMMA VerifiedGets ==
    ASSUME NEW e, NEW tc, NEW s, NEW type, NEW f, NEW n, Gets(tc, s, type, f, n)
    PROVE  /\ n \in Nat
           /\ Gets(VerifySafety(tc, e), s, type, "safe", n + OneIf(f # "safe" /\ ~e.unsafe))
  <1> DEFINE m == n + (IF f = "safe" \/ e.unsafe THEN 0 ELSE 1)
  <1>1. PICK kind : Stands(tc, s, Context(type, kind), type, f, n)
    BY DEF Gets
  <1>2. n \in Nat
    BY <1>1, StandsFields
  <1>3. Stands(VerifySafety(tc, e), s, Context(type, kind), type, "safe", m)
    BY <1>1, VerifySafetyStands
  <1>4. m = n + OneIf(f # "safe" /\ ~e.unsafe)
    BY <1>2 DEF OneIf
  <1> HIDE DEF m
  <1>5. Gets(VerifySafety(tc, e), s, type, "safe", m)
    BY <1>3 DEF Gets
  <1>6. QED
    BY <1>2, <1>4, <1>5

\* Before that: k operations are reported, and perhaps one more.
ChecksTo(e, scope, type, f, k) ==
    \A a, tc, t, m :
       Stands(tc, scope, Suggestion(a), t, "safe", m) =>
          Gets(Check(tc, e), scope, TypeGiven(e, type, a), f, m + k)

LEMMA CountsWhat ==
    ASSUME NEW e, NEW scope, NEW type, NEW k \in Nat, NEW f, NEW n,
           type # NoType, e.op = "literal" => type = Integral,
           n = k + OneIf(f # "safe" /\ ~e.unsafe), ChecksTo(e, scope, type, f, k)
    PROVE  Counts(e, scope, type, n)
  <1>1. n \in Nat
    BY DEF OneIf
  <1>2. ASSUME NEW a, NEW tc, NEW t, NEW m, Stands(tc, scope, Suggestion(a), t, "safe", m)
        PROVE  Gets(VerifySafety(Check(tc, e), e), scope, TypeGiven(e, type, a), "safe",
                    m + n)
    <2>1. m \in Nat
      BY <1>2, StandsFields
    <2>2. Gets(Check(tc, e), scope, TypeGiven(e, type, a), f, m + k)
      BY <1>2 DEF ChecksTo
    <2>3. Gets(VerifySafety(Check(tc, e), e), scope, TypeGiven(e, type, a), "safe",
               (m + k) + OneIf(f # "safe" /\ ~e.unsafe))
      BY <2>2, VerifiedGets
    <2>4. (m + k) + OneIf(f # "safe" /\ ~e.unsafe) = m + n
      BY <2>1 DEF OneIf
    <2>5. QED
      BY <2>3, <2>4
  <1>3. QED
    BY <1>1, <1>2 DEF Counts

LEMMA VariableCounts ==
    ASSUME NEW scope, NEW x, scope[x].type # NoType
    PROVE  Counts(Variable(x), scope, scope[x].type, 0)
  <1> DEFINE e == Variable(x)
             type == scope[x].type
             g == LValue(scope[x].lifetime)
             f == "safe"
             k == 0
  <1>1. e.op = "variable" /\ e.name = x /\ e.op # "literal"
    BY DEF Variable
  <1> HIDE DEF e
  <1>2. ASSUME NEW a, NEW tc, NEW t, NEW m, Stands(tc, scope, Suggestion(a), t, f, m)
        PROVE  Gets(Check(tc, e), scope, TypeGiven(e, type, a), f, m + k)
    <2>1. m \in Nat /\ m + k = m /\ tc.scope = scope
      BY <1>2, StandsFields
    <2>2. ConstrainVariable(tc, x) = Constrain(tc, type, "assignee")
      BY <2>1 DEF ConstrainVariable
    <2>3. Check(tc, e) = SetTypeInfo(Constrain(tc, type, "assignee"), g)
      BY <1>1, <2>1, <2>2 DEF Check, CheckVariable
    <2> HIDE DEF type, g, f
    <2>4. Stands(Constrain(tc, type, "assignee"), scope, Context(type, "assignee"), t, f, m)
      BY <1>2, ConstrainStands
    <2>5. Stands(Check(tc, e), scope, Context(type, "assignee"), type, f, m)
      <3>1. Context(type, "assignee").type = type /\ type # NoType
        BY ContextParts DEF type
      <3>2. QED
        BY <2>3, <2>4, <3>1, SetTypeInfoStands
    <2>6. TypeGiven(e, type, a) = type
      BY <1>1 DEF TypeGiven
    <2>7. QED
      BY <2>1, <2>5, <2>6 DEF Gets
  <1>3. k \in Nat /\ k = k + OneIf(f # "safe" /\ ~e.unsafe)
    BY DEF OneIf
  <1> HIDE DEF type, f, k
  <1>4. Counts(e, scope, type, k)
    <2>1. type # NoType
      BY DEF type
    <2>2. ChecksTo(e, scope, type, f, k)
      BY <1>2 DEF ChecksTo, f
    <2>3. QED
      BY <1>1, <1>3, <2>1, <2>2, CountsWhat
  <1>5. QED
    BY <1>4 DEF e, type, k

LEMMA LiteralCounts ==
    ASSUME NEW scope
    PROVE  Counts(Literal, scope, Integral, 0)
  <1> DEFINE e == Literal
             f == "safe"
             k == 0
  <1>1. e.op = "literal"
    BY DEF Literal
  <1> HIDE DEF e
  <1>2. ASSUME NEW a, NEW tc, NEW t, NEW m, Stands(tc, scope, Suggestion(a), t, f, m)
        PROVE  Gets(Check(tc, e), scope, TypeGiven(e, Integral, a), f, m + k)
    <2> DEFINE u == TypeGiven(e, Integral, a)
               constrained == ConstrainIntLiteral(tc)
               typed == SetTypeInfo(constrained, RValue)
    <2>1. m \in Nat /\ m + k = m /\ tc.context = Suggestion(a)
      BY <1>2, StandsFields
    <2>2. tc.context.type = a /\ tc.context.kind = "suggestion"
      BY <2>1, ContextParts DEF Suggestion
    <2>3. u = IF a = ErrorType THEN ErrorType ELSE Integral
      BY <1>1 DEF TypeGiven
    <2>4. u # NoType /\ u \in {Integral, ErrorType}
      BY <2>3, DifferentTypes
    <2> HIDE DEF u, f
    <2>5. Stands(constrained, scope, Suggestion(u), t, f, m)
      <3>1. CASE a \in {Integral, ErrorType}
        <4>1. a # NoType /\ u = a
          BY <2>3, <3>1, DifferentTypes
        <4>2. constrained = tc
          BY <2>2, <3>1, <4>1 DEF ConstrainIntLiteral
        <4>3. QED
          BY <1>2, <4>1, <4>2
      <3>2. CASE a \notin {Integral, ErrorType}
        <4>1. u = Integral
          BY <2>3, <3>2
        <4>2. constrained = Contexted(tc, Suggestion(u))
          <5>1. CASE a = NoType
            BY <2>2, <4>1, <5>1 DEF ConstrainIntLiteral, Constrain, Contexted, Suggestion
          <5>2. CASE a # NoType
            <6>1. constrained = [tc EXCEPT !.context.type = Integral]
              BY <2>2, <3>2, <5>2 DEF ConstrainIntLiteral
            <6>2. [tc EXCEPT !.context.type = Integral] =
                     [tc EXCEPT !.context = [tc.context EXCEPT !.type = Integral]]
              OBVIOUS
            <6>3. [tc.context EXCEPT !.type = Integral] = Suggestion(Integral)
              BY <2>1 DEF Suggestion, Context
            <6>4. QED
              BY <4>1, <6>1, <6>2, <6>3 DEF Contexted
          <5>3. QED
            BY <5>1, <5>2
        <4>3. QED
          BY <1>2, <4>2, UpdatesStand
      <3>3. QED
        BY <3>1, <3>2
    <2>6. Suggestion(u).type = u
      BY ContextParts DEF Suggestion
    <2> HIDE DEF constrained
    <2>7. Stands(typed, scope, Suggestion(u), u, f, m)
      BY <2>4, <2>5, <2>6, SetTypeInfoStands
    <2>8. Check(tc, e) = typed
      <3>1. typed.type = u
        BY <2>7, StandsFields
      <3> HIDE DEF typed
      <3>2. Check(tc, e) = ReportUnless(typed.type \in {Integral, ErrorType}, typed, "not integral")
        BY <1>1 DEF Check, CheckLiteral, typed, constrained
      <3>3. QED
        BY <2>4, <3>1, <3>2 DEF ReportUnless
    <2>9. Gets(Check(tc, e), scope, u, f, m)
      BY <2>7, <2>8 DEF Gets, Suggestion
    <2>10. QED
      BY <2>1, <2>9 DEF u
  <1>3. k \in Nat /\ k = k + OneIf(f # "safe" /\ ~e.unsafe)
    BY DEF OneIf
  <1> HIDE DEF f, k
  <1>4. Counts(e, scope, Integral, k)
    <2>1. ChecksTo(e, scope, Integral, f, k)
      BY <1>2 DEF ChecksTo, f
    <2>2. QED
      BY <1>3, <2>1, CountsWhat, DifferentTypes
  <1>5. QED
    BY <1>4 DEF e, k

LEMMA ResolveChildCounts ==
    ASSUME NEW e, NEW scope, NEW type, NEW n, Counts(e, scope, type, n), Unfolds(e),
           NEW tc, NEW c, NEW t, NEW f, NEW m, Stands(tc, scope, c, t, f, m), NEW a
    PROVE  Gets(ResolveChild(tc, e, Suggestion(a)), scope, TypeGiven(e, type, a), "safe",
                m + n)
  <1> DEFINE entered == Entered(tc, Suggestion(a))
  <1>1. ResolveChild(tc, e, Suggestion(a)) = VerifySafety(Check(entered, e), e)
    BY Zenon DEF ResolveChild, Unfolds, Entered
  <1> HIDE DEF entered
  <1>2. Stands(entered, scope, Suggestion(a), t, "safe", m)
    BY UpdatesStand DEF entered
  <1>3. QED
    BY <1>1, <1>2 DEF Counts

\* What is reached from a type, or the error type.
Reached(type) == IF type = NoType THEN ErrorType ELSE type

LEMMA ReachedStands ==
    ASSUME NEW tc, NEW s, NEW a, NEW t, NEW f, NEW n, Stands(tc, s, Suggestion(a), t, f, n),
           NEW reached, NEW error, error # "unsafe"
    PROVE  /\ Stands(ConstrainReached(tc, reached, error), s,
                     Context(Reached(reached), "assignee"), t, f, n)
           /\ Reached(reached) # NoType
  <1>1. Reached(reached) # NoType
    BY DifferentTypes DEF Reached
  <1>2. CASE reached = NoType
    <2>1. Stands(Report(tc, error), s, Suggestion(a), t, f, n)
      <3>1. Stands(ReportUnless(FALSE, tc, error), s, Suggestion(a), t, f, n)
        BY ReportUnlessStands
      <3>2. QED
        BY <3>1 DEF ReportUnless
    <2>2. ConstrainReached(tc, reached, error) =
             Constrain(Report(tc, error), ErrorType, "assignee")
      BY <1>2 DEF ConstrainReached
    <2>3. Reached(reached) = ErrorType
      BY <1>2 DEF Reached
    <2>4. QED
      BY <1>1, <2>1, <2>2, <2>3, ConstrainStands
  <1>3. CASE reached # NoType
    <2>1. ConstrainReached(tc, reached, error) = Constrain(tc, reached, "assignee")
      BY <1>3 DEF ConstrainReached
    <2>2. Reached(reached) = reached
      BY <1>3 DEF Reached
    <2>3. QED
      BY <1>1, <2>1, <2>2, ConstrainStands
  <1>4. QED
    BY <1>2, <1>3

LEMMA BackStands ==
    ASSUME NEW tc, NEW s, NEW c, NEW t, NEW f, NEW n, Stands(tc, s, c, t, f, n),
           NEW child, NEW d, NEW u, NEW g, NEW m, Stands(child, s, d, u, g, m)
    PROVE  Stands(Back(tc, child), s, c, u, g, m)
  <1>1. Back(tc, child) = Contexted(child, c)
    BY StandsFields, BackIsContexted
  <1>2. QED
    BY <1>1, UpdatesStand

\* The type of the context and of the result, where they are the same.
LEMMA GetsFields ==
    ASSUME NEW after, NEW s, NEW type, NEW f, NEW n, Gets(after, s, type, f, n)
    PROVE  /\ after.type = type /\ after.context.type = type
           /\ n \in Nat /\ \E c : Stands(after, s, c, type, f, n)
  BY StandsFields, ContextParts DEF Gets

LEMMA PlainSuggestions ==
    ASSUME NEW type, NEW lifetime
    PROVE  /\ Unconstrained = Suggestion(NoType) /\ NoType # ErrorType
           /\ PointerTo(type, lifetime) # ErrorType /\ ArrayOf(type, lifetime) # ErrorType
  BY DEF Unconstrained, Suggestion, Context, NoType, ErrorType, PointerTo, ArrayOf

LEMMA DereferenceCounts ==
    ASSUME NEW v, NEW scope, NEW type, NEW n, Counts(v, scope, type, n), Unfolds(v)
    PROVE  Counts(At(v), scope, Reached(Dereference(type)), n)
  <1> DEFINE e == At(v)
             reach == Reached(Dereference(type))
             f == "safe"
  <1>1. e.op = ".*" /\ e.of = v
    BY DEF At
  <1> HIDE DEF e
  <1>2. ASSUME NEW a, NEW tc, NEW t, NEW m, Stands(tc, scope, Suggestion(a), t, f, m)
        PROVE  Gets(Check(tc, e), scope, TypeGiven(e, reach, a), f, m + n)
    <2> DEFINE expects == IF a = NoType THEN NoType ELSE PointerTo(a, Unsafe)
               operand == ResolveChild(tc, v, Suggestion(expects))
               back == Back(tc, operand)
               error == "cannot dereference"
               reached == ConstrainReached(back, Dereference(type), error)
               lifetime == PointedLifetime(type)
               g == IF lifetime = NoLifetime THEN RValue ELSE LValue(lifetime)
    <2>1. tc.context.type = a
      BY <1>2, StandsFields, ContextParts DEF Suggestion
    <2>2. TypeGiven(v, type, expects) = type /\ type # NoType
      BY PlainSuggestions DEF TypeGiven, Counts
    <2>3. Gets(operand, scope, type, "safe", m + n)
      BY <1>2, <2>2, ResolveChildCounts
    <2>4. operand.type = type /\ operand.context.type = type
      BY <2>3, GetsFields
    <2>5. Check(tc, e) = SetTypeInfo(reached, g)
      <3>1. (IF tc.context.type = NoType THEN Unconstrained
             ELSE Context(PointerTo(tc.context.type, Unsafe), "suggestion"))
               = Suggestion(expects)
        BY <2>1, PlainSuggestions DEF Suggestion
      <3>2. Check(tc, e) = CheckDereference(tc, e)
        BY <1>1 DEF Check
      <3>3. CheckDereference(tc, e) =
               SetTypeInfo(IF operand.context.type = NoType THEN back
                           ELSE ConstrainReached(back, Dereference(operand.context.type),
                                                 "cannot dereference"),
                           IF PointedLifetime(operand.type) = NoLifetime THEN RValue
                           ELSE LValue(PointedLifetime(operand.type)))
        BY <1>1, <3>1, Zenon DEF CheckDereference
      <3> HIDE DEF operand, back
      <3>4. QED
        BY <2>2, <2>4, <3>2, <3>3
    <2> HIDE DEF expects, operand
    <2>6. Stands(back, scope, Suggestion(a), type, "safe", m + n)
      BY <1>2, <2>3, GetsFields, BackStands
    <2> HIDE DEF back, g
    <2>7. /\ Stands(reached, scope, Context(reach, "assignee"), type, "safe", m + n)
          /\ reach # NoType
      <3>1. error # "unsafe"
        OBVIOUS
      <3> HIDE DEF error
      <3>2. QED
        BY <2>6, <3>1, ReachedStands
    <2> HIDE DEF reached, reach
    <2>8. Stands(Check(tc, e), scope, Context(reach, "assignee"), reach, "safe", m + n)
      <3>1. Context(reach, "assignee").type = reach
        BY ContextParts
      <3>2. QED
        BY <2>5, <2>7, <3>1, SetTypeInfoStands
    <2>9. TypeGiven(e, reach, a) = reach
      BY <1>1 DEF TypeGiven
    <2>10. QED
      BY <2>8, <2>9 DEF Gets
  <1>3. n \in Nat /\ n = n + OneIf(f # "safe" /\ ~e.unsafe)
    BY DEF OneIf, Counts
  <1>4. reach # NoType /\ e.op # "literal"
    BY <1>1, DifferentTypes DEF Reached
  <1> HIDE DEF f, reach
  <1>5. ChecksTo(e, scope, reach, f, n)
    BY <1>2 DEF ChecksTo, f
  <1>6. Counts(e, scope, reach, n)
    BY <1>3, <1>4, <1>5, CountsWhat
  <1>7. QED
    BY <1>6 DEF e, reach

LEMMA IndexCounts ==
    ASSUME NEW e, NEW b, NEW o, e.op = "[]", e.base = b, e.offset = o,
           NEW scope, NEW type, NEW n, Counts(b, scope, type, n), Unfolds(b),
           NEW offsetType, NEW k, Counts(o, scope, offsetType, k), Unfolds(o)
    PROVE  Counts(e, scope, Reached(IndexInto(type)),
                  (n + k) + OneIf(IsPointer(type) /\ ~e.unsafe))
  <1> DEFINE reach == Reached(IndexInto(type))
             f == IF IsPointer(type) THEN "pointer index" ELSE "safe"
  <1>1. ASSUME NEW a, NEW tc, NEW t, NEW m, Stands(tc, scope, Suggestion(a), t, "safe", m)
        PROVE  Gets(Check(tc, e), scope, TypeGiven(e, reach, a), f, m + (n + k))
    <2> DEFINE expects == IF a = NoType THEN NoType ELSE ArrayOf(a, 0)
               base == ResolveChild(tc, b, Suggestion(expects))
               back == Back(tc, base)
               error == "cannot index"
               reached == ConstrainReached(back, IndexInto(type), error)
               offset == ResolveChild(reached, o, Suggestion(Integral))
               both == Back(reached, offset)
               warning == "offset"
               checked == ReportUnless(offset.type = Integral, both, warning)
               done == Safed(checked, f)
               lifetime == PointedLifetime(type)
               g == LValue(IF lifetime = NoLifetime THEN Unsafe ELSE lifetime)
    <2>1. tc.context.type = a /\ m \in Nat
      BY <1>1, StandsFields, ContextParts DEF Suggestion
    <2>2. TypeGiven(b, type, expects) = type /\ type # NoType
      BY PlainSuggestions DEF TypeGiven, Counts
    <2>3. Gets(base, scope, type, "safe", m + n)
      BY <1>1, <2>2, ResolveChildCounts
    <2>4. base.type = type /\ base.context.type = type
      BY <2>3, GetsFields
    <2>5. Check(tc, e) =
             SetTypeInfo([checked EXCEPT !.safety = IF IsPointer(type) THEN "pointer index"
                                                    ELSE @], g)
      <3>1. (IF tc.context.type = NoType THEN Unconstrained
             ELSE Context(ArrayOf(tc.context.type, 0), "suggestion"))
               = Suggestion(expects)
        BY <2>1, PlainSuggestions DEF Suggestion
      <3>2. Check(tc, e) = CheckIndex(tc, e)
        BY DEF Check
      <3> DEFINE expected == IF tc.context.type = NoType THEN Unconstrained
                             ELSE Context(ArrayOf(tc.context.type, 0), "suggestion")
                 Base(w, x) == ResolveChild(tc, x, w)
                 Reaching(w, x) ==
                    IF Base(w, x).context.type = NoType THEN Back(tc, Base(w, x))
                    ELSE ConstrainReached(Back(tc, Base(w, x)),
                                          IndexInto(Base(w, x).context.type), "cannot index")
                 Last(w, x, y) == ResolveChild(Reaching(w, x), y, Suggestion(Integral))
                 Checked(w, x, y) == ReportUnless(Last(w, x, y).type = Integral,
                                                  Back(Reaching(w, x), Last(w, x, y)), "offset")
                 Index(w, x, y) ==
                    SetTypeInfo([Checked(w, x, y) EXCEPT !.safety =
                                    IF IsPointer(Base(w, x).type) THEN "pointer index" ELSE @],
                                LValue(IF PointedLifetime(Base(w, x).type) = NoLifetime THEN Unsafe
                                       ELSE PointedLifetime(Base(w, x).type)))
      <3>3. CheckIndex(tc, e) = Index(expected, e.base, e.offset)
        BY Zenon DEF CheckIndex, Suggestion
      <3>4. Index(expected, e.base, e.offset) = Index(Suggestion(expects), b, o)
        <4> HIDE DEF Index, expected
        <4>1. QED
          BY <3>1 DEF expected
      <3>5. Base(Suggestion(expects), b) = base
        OBVIOUS
      <3>6. Reaching(Suggestion(expects), b) = reached
        <4> HIDE DEF Base, base
        <4>1. QED
          BY <2>2, <2>4, <3>5
      <3>7. Checked(Suggestion(expects), b, o) = checked
        <4> HIDE DEF Reaching, reached
        <4>1. QED
          BY <3>6
      <3> HIDE DEF Base, base, Checked, checked
      <3>8. Index(Suggestion(expects), b, o)
               = SetTypeInfo([checked EXCEPT !.safety =
                                 IF IsPointer(type) THEN "pointer index" ELSE @], g)
        BY <2>4, <3>5, <3>7
      <3> HIDE DEF Index, expected
      <3>9. QED
        BY <3>2, <3>3, <3>4, <3>8
    <2> HIDE DEF expects, base
    <2>6. Stands(back, scope, Suggestion(a), type, "safe", m + n)
      BY <1>1, <2>3, GetsFields, BackStands
    <2> HIDE DEF back, g
    <2>7. /\ Stands(reached, scope, Context(reach, "assignee"), type, "safe", m + n)
          /\ reach # NoType
      <3>1. error # "unsafe"
        OBVIOUS
      <3> HIDE DEF error
      <3>2. QED
        BY <2>6, <3>1, ReachedStands
    <2> HIDE DEF reached, reach
    <2>8. Gets(offset, scope, TypeGiven(o, offsetType, Integral), "safe", (m + n) + k)
      BY <2>7, ResolveChildCounts
    <2> HIDE DEF offset
    <2>9. PICK u : Stands(both, scope, Context(reach, "assignee"), u, "safe", (m + n) + k)
      BY <2>7, <2>8, GetsFields, BackStands
    <2> HIDE DEF both
    <2>10. Stands(checked, scope, Context(reach, "assignee"), u, "safe", (m + n) + k)
      <3>1. warning # "unsafe"
        OBVIOUS
      <3> HIDE DEF warning
      <3>2. QED
        BY <2>9, <3>1, ReportUnlessStands
    <2> HIDE DEF checked
    <2>11. [checked EXCEPT !.safety = IF IsPointer(type) THEN "pointer index" ELSE @] = done
      <3>1. checked.safety = "safe"
        BY <2>10, StandsFields
      <3>2. [checked EXCEPT !.safety = IF IsPointer(type) THEN "pointer index" ELSE @] =
               [checked EXCEPT !.safety = IF IsPointer(type) THEN "pointer index"
                                          ELSE checked.safety]
        OBVIOUS
      <3>3. QED
        BY <3>1, <3>2 DEF Safed
    <2> HIDE DEF f
    <2>12. Stands(done, scope, Context(reach, "assignee"), u, f, (m + n) + k)
      BY <2>10, UpdatesStand
    <2> HIDE DEF done
    <2>13. Stands(Check(tc, e), scope, Context(reach, "assignee"), reach, f, (m + n) + k)
      <3>1. Context(reach, "assignee").type = reach
        BY ContextParts
      <3>2. QED
        BY <2>5, <2>7, <2>11, <2>12, <3>1, SetTypeInfoStands
    <2>14. TypeGiven(e, reach, a) = reach
      BY DEF TypeGiven
    <2>15. (m + n) + k = m + (n + k)
      BY <2>1 DEF Counts
    <2>16. QED
      BY <2>13, <2>14, <2>15 DEF Gets
  <1>2. /\ n + k \in Nat
        /\ (n + k) + OneIf(IsPointer(type) /\ ~e.unsafe)
             = (n + k) + OneIf(f # "safe" /\ ~e.unsafe)
    BY DEF OneIf, Counts
  <1>3. reach # NoType /\ e.op # "literal"
    BY DifferentTypes DEF Reached
  <1> HIDE DEF f, reach
  <1>4. ChecksTo(e, scope, reach, f, n + k)
    BY <1>1 DEF ChecksTo
  <1>5. Counts(e, scope, reach, (n + k) + OneIf(f # "safe" /\ ~e.unsafe))
    BY <1>2, <1>3, <1>4, CountsWhat
  <1>6. QED
    BY <1>2, <1>5 DEF reach

(* The types of operands, and of what is computed from them. *)
Alike(l, r) ==
    \/ \A type \in {l, r} : IsInt(type)
    \/ /\ \E type \in {l, r} : IsPointer(type)
       /\ \A type \in {l, r} : IsPointer(type) \/ IsError(type)

SumType(l, r) ==
    IF Alike(l, r) THEN l
    ELSE IF IsPointer(l) /\ r = Integral THEN l
    ELSE IF IsPointer(r) /\ l = Integral THEN r ELSE ErrorType

NotNumbers(tc) == Report(tc, "not a number")

Summed(equal, done, l, r) ==
    CASE Alike(l, r) -> SetType(equal, l)
      [] IsPointer(l) /\ r = Integral -> SetType(done, l)
      [] IsPointer(r) /\ l = Integral -> SetType(done, r)
      [] OTHER -> SetType(NotNumbers(done), ErrorType)

LEMMA IntegralIsPlain ==
    ~IsPointer(Integral) /\ ~IsError(Integral) /\ ~IsPointer(ErrorType)
  BY DEF IsPointer, IsError, Integral, ErrorType

LEMMA SummedCases ==
    ASSUME NEW equal, NEW done, NEW l, NEW r
    PROVE  \/ Summed(equal, done, l, r) = SetType(equal, SumType(l, r))
           \/ Summed(equal, done, l, r) = SetType(done, SumType(l, r))
           \/ Summed(equal, done, l, r) = SetType(NotNumbers(done), SumType(l, r))
  <1>1. ~(IsPointer(l) /\ r = Integral /\ IsPointer(r) /\ l = Integral)
    BY IntegralIsPlain
  <1>2. Alike(l, r) => ~(IsPointer(l) /\ r = Integral) /\ ~(IsPointer(r) /\ l = Integral)
    BY IntegralIsPlain DEF Alike, IsInt
  <1>3. CASE Alike(l, r)
    <2>1. Summed(equal, done, l, r) = SetType(equal, l) /\ SumType(l, r) = l
      BY <1>2, <1>3 DEF Summed, SumType
    <2>2. QED
      BY <2>1
  <1>4. CASE ~Alike(l, r) /\ IsPointer(l) /\ r = Integral
    <2>1. Summed(equal, done, l, r) = SetType(done, l) /\ SumType(l, r) = l
      BY <1>1, <1>4 DEF Summed, SumType
    <2>2. QED
      BY <2>1
  <1>5. CASE ~Alike(l, r) /\ ~(IsPointer(l) /\ r = Integral) /\ IsPointer(r) /\ l = Integral
    <2>1. Summed(equal, done, l, r) = SetType(done, r) /\ SumType(l, r) = r
      BY <1>5 DEF Summed, SumType
    <2>2. QED
      BY <2>1
  <1>6. CASE /\ ~Alike(l, r) /\ ~(IsPointer(l) /\ r = Integral)
             /\ ~(IsPointer(r) /\ l = Integral)
    <2>1. /\ Summed(equal, done, l, r) = SetType(NotNumbers(done), ErrorType)
          /\ SumType(l, r) = ErrorType
      BY <1>6 DEF Summed, SumType
    <2>2. QED
      BY <2>1
  <1>7. QED
    BY <1>3, <1>4, <1>5, <1>6

LEMMA SetTypeStands ==
    ASSUME NEW tc, NEW s, NEW a, NEW t, NEW f, NEW n, Stands(tc, s, Suggestion(a), t, f, n),
           NEW type
    PROVE  Stands(SetType(tc, type), s, Context(type, "assignee"), type, f, n)
  <1>1. Stands(Typed(tc, type, RValue), s, Suggestion(a), type, f, n)
    BY UpdatesStand
  <1>2. QED
    BY <1>1, ConstrainStands DEF SetType

LEMMA ArithmeticCounts ==
    ASSUME NEW e, NEW x, NEW y, e.op = "+", e.left = x, e.right = y,
           NEW scope, NEW type, NEW n, Counts(x, scope, type, n), Unfolds(x),
           NEW other, NEW k, Counts(y, scope, other, k), Unfolds(y)
    PROVE  \E sum : Counts(e, scope, sum,
                           (n + k) + OneIf((IsPointer(type) \/ IsPointer(other)) /\ ~e.unsafe))
  <1> DEFINE given == TypeGiven(y, other, type)
             sum == SumType(type, given)
             pointers == \E t \in {type, given} : IsPointer(t)
             f == IF pointers THEN "pointer math" ELSE "safe"
  <1>1. ASSUME NEW a, NEW tc, NEW t, NEW m, Stands(tc, scope, Suggestion(a), t, "safe", m)
        PROVE  Gets(Check(tc, e), scope, TypeGiven(e, sum, a), f, m + (n + k))
    <2> DEFINE left == ResolveChild(tc, x, Unconstrained)
               right == ResolveChild(left, y, Suggestion(type))
               both == Back(tc, right)
               done == IF pointers THEN [both EXCEPT !.safety = "pointer math"] ELSE both
               error == "operands differ"
               equal == ReportUnless(type = given \/ ErrorType \in {type, given}, done, error)
    <2>1. m \in Nat
      BY <1>1, StandsFields
    <2>2. TypeGiven(x, type, NoType) = type
      BY PlainSuggestions DEF TypeGiven
    <2>3. Gets(left, scope, type, "safe", m + n)
      BY <1>1, <2>2, PlainSuggestions, ResolveChildCounts
    <2>4. left.type = type /\ \E c : Stands(left, scope, c, type, "safe", m + n)
      BY <2>3, GetsFields
    <2> HIDE DEF left
    <2>5. Gets(right, scope, given, "safe", (m + n) + k)
      BY <2>4, ResolveChildCounts
    <2>6. right.type = given /\ \E c : Stands(right, scope, c, given, "safe", (m + n) + k)
      BY <2>5, GetsFields
    <2>7. Check(tc, e) = Summed(equal, done, type, given)
      <3> DEFINE Both(l, r) == Back(tc, r)
                 Done(l, r) == IF \E u \in {l.type, r.type} : IsPointer(u)
                               THEN [Both(l, r) EXCEPT !.safety = "pointer math"] ELSE Both(l, r)
                 Equal(l, r) == ReportUnless(l.type = r.type \/ ErrorType \in {l.type, r.type},
                                             Done(l, r), "operands differ")
                 Left(p) == ResolveChild(tc, p, Unconstrained)
                 Right(p, q) == ResolveChild(Left(p), q, Context(Left(p).type, "suggestion"))
                 Sum(l, r) == Summed(Equal(l, r), Done(l, r), l.type, r.type)
      <3>1. Check(tc, e) = CheckArithmetic(tc, e)
        BY DEF Check
      <3>2. CheckArithmetic(tc, e) = Sum(Left(e.left), Right(e.left, e.right))
        BY Zenon DEF CheckArithmetic, Summed, Alike, NotNumbers
      <3>3. Left(x) = left
        BY DEF left
      <3>4. Right(x, y) = right
        <4> HIDE DEF Left
        <4>1. QED
          BY <2>4, <3>3 DEF Suggestion
      <3> HIDE DEF Left, Right, right
      <3>5. CheckArithmetic(tc, e) = Sum(left, right)
        <4> HIDE DEF Sum
        <4>1. QED
          BY <3>2, <3>3, <3>4
      <3>6. Done(left, right) = done
        BY <2>4, <2>6
      <3>7. Equal(left, right) = equal
        <4> HIDE DEF Done, done
        <4>1. QED
          BY <2>4, <2>6, <3>6
      <3> HIDE DEF Done, done, Equal, equal
      <3>8. Sum(left, right) = Summed(equal, done, type, given)
        BY <2>4, <2>6, <3>6, <3>7
      <3>9. QED
        BY <3>1, <3>5, <3>8
    <2> HIDE DEF right, given
    <2>8. Stands(both, scope, Suggestion(a), given, "safe", (m + n) + k)
      BY <1>1, <2>6, BackStands
    <2> HIDE DEF both, pointers
    <2>9. Stands(done, scope, Suggestion(a), given, f, (m + n) + k)
      <3>1. CASE pointers
        <4>1. done = Safed(both, f) /\ f = "pointer math"
          BY <3>1 DEF Safed
        <4> HIDE DEF done, f
        <4>2. QED
          BY <2>8, <4>1, UpdatesStand
      <3>2. CASE ~pointers
        BY <2>8, <3>2
      <3>3. QED
        BY <3>1, <3>2
    <2> HIDE DEF done, f
    <2>10. Stands(equal, scope, Suggestion(a), given, f, (m + n) + k)
      <3>1. error # "unsafe"
        OBVIOUS
      <3> HIDE DEF error
      <3>2. QED
        BY <2>9, <3>1, ReportUnlessStands
    <2> HIDE DEF equal
    <2>11. Stands(NotNumbers(done), scope, Suggestion(a), given, f, (m + n) + k)
      <3> DEFINE word == "not a number"
      <3>1. word # "unsafe"
        OBVIOUS
      <3> HIDE DEF word
      <3>2. Stands(ReportUnless(FALSE, done, word), scope, Suggestion(a), given, f, (m + n) + k)
        BY <2>9, <3>1, ReportUnlessStands
      <3>3. ReportUnless(FALSE, done, word) = Report(done, word)
        BY DEF ReportUnless
      <3>4. QED
        BY <3>2, <3>3 DEF word, NotNumbers
    <2>12. Stands(Check(tc, e), scope, Context(sum, "assignee"), sum, f, (m + n) + k)
      <3> DEFINE refused == NotNumbers(done)
                 total == Summed(equal, done, type, given)
      <3>1. \/ total = SetType(equal, sum)
            \/ total = SetType(done, sum)
            \/ total = SetType(refused, sum)
        BY SummedCases
      <3> HIDE DEF sum, refused, total
      <3>2. PICK before \in {equal, done, refused} : total = SetType(before, sum)
        BY <3>1
      <3>3. Stands(before, scope, Suggestion(a), given, f, (m + n) + k)
        BY <2>9, <2>10, <2>11 DEF refused
      <3>4. QED
        BY <2>7, <3>2, <3>3, SetTypeStands DEF total
    <2>13. TypeGiven(e, sum, a) = sum
      BY DEF TypeGiven
    <2> HIDE DEF sum
    <2>14. (m + n) + k = m + (n + k)
      BY <2>1 DEF Counts
    <2>15. QED
      BY <2>12, <2>13, <2>14 DEF Gets
  <1>2. n + k \in Nat /\ sum # NoType /\ e.op # "literal"
    BY DifferentTypes DEF Counts, SumType, TypeGiven
  <1>3. pointers <=> IsPointer(type) \/ IsPointer(other)
    BY IntegralIsPlain DEF TypeGiven, Counts
  <1> HIDE DEF sum, pointers
  <1>4. (n + k) + OneIf((IsPointer(type) \/ IsPointer(other)) /\ ~e.unsafe)
          = (n + k) + OneIf(f # "safe" /\ ~e.unsafe)
    BY <1>3 DEF OneIf
  <1> HIDE DEF f
  <1>5. ChecksTo(e, scope, sum, f, n + k)
    BY <1>1 DEF ChecksTo
  <1>6. Counts(e, scope, sum, (n + k) + OneIf(f # "safe" /\ ~e.unsafe))
    BY <1>2, <1>5, CountsWhat
  <1>7. QED
    BY <1>4, <1>6

-----------------------------------------------------------------------------
(* What is counted in an expression is what is reported of it. *)
LEMMA RootCounts ==
    ASSUME NEW e, NEW scope, NEW type, NEW n, Counts(e, scope, type, n)
    PROVE  /\ CheckExpression(scope, e).type = type
           /\ Unsafes(CheckExpression(scope, e).errors) = n
  <1> DEFINE tc == NewChecker(scope)
             errors == <<>>
             none == 0
             f == "safe"
  <1>1. Stands(tc, scope, Unconstrained, NoType, f, none)
    <2>1. IsList(errors) /\ Unsafes(errors) = none
      BY NoUnsafes
    <2>2. tc = Underway(scope, errors, <<>>, Unconstrained, NoType, RValue, f)
      BY DEF NewChecker, Underway
    <2> HIDE DEF errors, none, tc, f
    <2>3. QED
      BY <2>1, <2>2, Zenon DEF Stands
  <1>2. CheckExpression(scope, e) = VerifySafety(Check(Safed(tc, f), e), e)
    BY Zenon DEF CheckExpression, CheckRoot, Safed
  <1> HIDE DEF tc, none
  <1>3. Stands(Safed(tc, f), scope, Suggestion(NoType), NoType, "safe", none)
    BY <1>1, UpdatesStand, PlainSuggestions
  <1>4. Gets(CheckExpression(scope, e), scope, TypeGiven(e, type, NoType), "safe", none + n)
    BY <1>2, <1>3 DEF Counts
  <1>5. TypeGiven(e, type, NoType) = type
    BY PlainSuggestions DEF TypeGiven
  <1>6. none + n = n
    BY DEF none, Counts
  <1>7. PICK c : Stands(CheckExpression(scope, e), scope, c, type, "safe", n)
    BY <1>4, <1>5, <1>6, GetsFields
  <1>8. QED
    BY <1>7, StandsFields

\* Whether an operation on a pointer is to be reported.
Reportable(declared, e, operand) ==
    IsPointer(CheckExpression(Scope(declared), operand).type) /\ ~e.unsafe

LEMMA UnmarkedCases ==
    ASSUME NEW declared, NEW e
    PROVE  /\ e.op \in {"variable", "literal"} => UnsafeUnmarked(declared, e) = 0 + 0 + 0
           /\ e.op = ".*" => UnsafeUnmarked(declared, e) = InnerUnmarked(declared, e.of) + 0 + 0
           /\ e.op = "[]" => UnsafeUnmarked(declared, e) =
                 InnerUnmarked(declared, e.base) + InnerUnmarked(declared, e.offset)
                    + OneIf(Reportable(declared, e, e.base))
           /\ e.op = "+" => UnsafeUnmarked(declared, e) =
                 InnerUnmarked(declared, e.left) + InnerUnmarked(declared, e.right)
                    + OneIf(Reportable(declared, e, e.left) \/ Reportable(declared, e, e.right))
  <1> DEFINE operands == OperandsOf(e)
             TypeIn(operand) == CheckExpression(Scope(declared), operand).type
             pointers == {i \in DOMAIN operands : IsPointer(TypeIn(operands[i]))}
             below(i) == IF i \in DOMAIN operands THEN InnerUnmarked(declared, operands[i]) ELSE 0
             reported == ((e.op = "+" /\ pointers # {}) \/ (e.op = "[]" /\ 1 \in pointers))
                            /\ ~e.unsafe
  <1>1. UnsafeUnmarked(declared, e) = below(1) + below(2) + OneIf(reported)
    BY Zenon DEF UnsafeUnmarked, OneIf
  <1> HIDE DEF TypeIn
  <1>2. CASE e.op \in {"variable", "literal"}
    <2>1. operands = <<>>
      BY <1>2 DEF OperandsOf
    <2>2. DOMAIN operands = {}
      BY <2>1
    <2> HIDE DEF operands
    <2>3. below(1) = 0 /\ below(2) = 0 /\ ~reported
      BY <1>2, <2>2
    <2> HIDE DEF below, reported
    <2>4. QED
      BY <1>1, <1>2, <2>3 DEF OneIf
  <1>3. CASE e.op = ".*"
    <2>1. operands = <<e.of>>
      BY <1>3 DEF OperandsOf
    <2>2. DOMAIN operands = {1} /\ operands[1] = e.of
      BY <2>1
    <2> HIDE DEF operands
    <2>3. below(1) = InnerUnmarked(declared, e.of) /\ below(2) = 0 /\ ~reported
      BY <1>3, <2>2
    <2> HIDE DEF below, reported
    <2>4. QED
      BY <1>1, <1>3, <2>3 DEF OneIf
  <1>4. CASE e.op = "[]"
    <2>1. operands = <<e.base, e.offset>>
      BY <1>4 DEF OperandsOf
    <2>2. DOMAIN operands = {1, 2} /\ operands[1] = e.base /\ operands[2] = e.offset
      BY <2>1
    <2> HIDE DEF operands
    <2>3. /\ below(1) = InnerUnmarked(declared, e.base)
          /\ below(2) = InnerUnmarked(declared, e.offset)
          /\ reported <=> Reportable(declared, e, e.base)
      BY <1>4, <2>2 DEF Reportable, TypeIn
    <2> HIDE DEF below, reported
    <2>4. QED
      BY <1>1, <1>4, <2>3 DEF OneIf
  <1>5. CASE e.op = "+"
    <2>1. operands = <<e.left, e.right>>
      BY <1>5 DEF OperandsOf
    <2>2. DOMAIN operands = {1, 2} /\ operands[1] = e.left /\ operands[2] = e.right
      BY <2>1
    <2> HIDE DEF operands
    <2>3. /\ below(1) = InnerUnmarked(declared, e.left)
          /\ below(2) = InnerUnmarked(declared, e.right)
          /\ reported <=> Reportable(declared, e, e.left) \/ Reportable(declared, e, e.right)
      BY <1>5, <2>2 DEF Reportable, TypeIn
    <2> HIDE DEF below, reported
    <2>4. QED
      BY <1>1, <1>5, <2>3 DEF OneIf
  <1>6. QED
    BY <1>2, <1>3, <1>4, <1>5

Counted(e) == \E type : Counts(e, Scope(types), type, UnsafeUnmarked(types, e))

Operand(e) == Counted(e) /\ Unfolds(e) /\ InnerUnmarked(types, e) = UnsafeUnmarked(types, e)

LEMMA LeavesCounted ==
    ASSUME SoundInv, TypesAreFinite
    PROVE  Counted(Literal) /\ \A x \in DOMAIN types : Counted(Variable(x))
  <1>1. Counted(Literal)
    <2>1. Literal.op = "literal"
      BY DEF Literal
    <2>2. UnsafeUnmarked(types, Literal) = 0
      BY <2>1, UnmarkedCases
    <2>3. QED
      BY <2>2, LiteralCounts DEF Counted
  <1>2. ASSUME NEW x \in DOMAIN types
        PROVE  Counted(Variable(x))
    <2>1. Variable(x).op = "variable"
      BY DEF Variable
    <2>2. UnsafeUnmarked(types, Variable(x)) = 0
      BY <2>1, UnmarkedCases
    <2>3. Scope(types)[x].type = types[x]
      BY DEF Scope
    <2>4. types[x] # NoType
      BY TypeCases DEF SoundInv
    <2>5. Counts(Variable(x), Scope(types), types[x], 0)
      BY <2>3, <2>4, VariableCounts
    <2>6. QED
      BY <2>2, <2>5 DEF Counted
  <1>3. QED
    BY <1>1, <1>2

LEMMA ComputationsCounted ==
    ASSUME NEW bases, NEW operands, \A o \in bases \cup operands : Operand(o),
           NEW e \in Computations(bases, operands)
    PROVE  Counted(e)
  <1> DEFINE scope == Scope(types)
             marks(o) == UnsafeUnmarked(types, o)
  <1>1. \A o \in bases \cup operands : \A type, n :
           Counts(o, scope, type, n) => CheckExpression(scope, o).type = type
    BY RootCounts
  <1>2. ASSUME NEW v \in bases, e = At(v)
        PROVE  Counted(e)
    <2>1. e.op = ".*" /\ e.of = v
      BY <1>2 DEF At
    <2>2. PICK type : Counts(v, scope, type, marks(v))
      BY DEF Operand, Counted
    <2>3. marks(e) = marks(v)
      <3>1. marks(v) \in Nat
        BY <2>2 DEF Counts
      <3>2. marks(e) = InnerUnmarked(types, v) + 0 + 0
        BY <2>1, UnmarkedCases
      <3>3. InnerUnmarked(types, v) = marks(v)
        BY DEF Operand
      <3> HIDE DEF marks
      <3>4. QED
        BY <3>1, <3>2, <3>3
    <2>4. Counts(e, scope, Reached(Dereference(type)), marks(v))
      BY <1>2, <2>2, DereferenceCounts DEF Operand
    <2>5. QED
      BY <2>3, <2>4 DEF Counted
  <1>3. ASSUME NEW x \in bases \cup operands, NEW y \in bases \cup operands,
               e.op = "[]", e.base = x, e.offset = y
        PROVE  Counted(e)
    <2>1. PICK type : Counts(x, scope, type, marks(x))
      BY DEF Operand, Counted
    <2>2. PICK other : Counts(y, scope, other, marks(y))
      BY DEF Operand, Counted
    <2>3. Reportable(types, e, x) <=> IsPointer(type) /\ ~e.unsafe
      BY <1>1, <2>1 DEF Reportable
    <2>4. marks(e) = (marks(x) + marks(y)) + OneIf(IsPointer(type) /\ ~e.unsafe)
      <3>1. marks(e) = InnerUnmarked(types, x) + InnerUnmarked(types, y)
                          + OneIf(Reportable(types, e, x))
        BY <1>3, UnmarkedCases
      <3>2. InnerUnmarked(types, x) = marks(x) /\ InnerUnmarked(types, y) = marks(y)
        BY DEF Operand
      <3> HIDE DEF marks
      <3>3. QED
        BY <2>3, <3>1, <3>2 DEF OneIf
    <2>5. Counts(e, scope, Reached(IndexInto(type)),
                 (marks(x) + marks(y)) + OneIf(IsPointer(type) /\ ~e.unsafe))
      BY <1>3, <2>1, <2>2, IndexCounts DEF Operand
    <2>6. QED
      BY <2>4, <2>5 DEF Counted
  <1>4. ASSUME NEW x \in bases \cup operands, NEW y \in bases \cup operands,
               e.op = "+", e.left = x, e.right = y
        PROVE  Counted(e)
    <2>1. PICK type : Counts(x, scope, type, marks(x))
      BY DEF Operand, Counted
    <2>2. PICK other : Counts(y, scope, other, marks(y))
      BY DEF Operand, Counted
    <2> DEFINE reported == (IsPointer(type) \/ IsPointer(other)) /\ ~e.unsafe
    <2>3. Reportable(types, e, x) \/ Reportable(types, e, y) <=> reported
      BY <1>1, <2>1, <2>2 DEF Reportable
    <2>4. marks(e) = (marks(x) + marks(y)) + OneIf(reported)
      <3>1. marks(e) = InnerUnmarked(types, x) + InnerUnmarked(types, y)
                          + OneIf(Reportable(types, e, x) \/ Reportable(types, e, y))
        BY <1>4, UnmarkedCases
      <3>2. InnerUnmarked(types, x) = marks(x) /\ InnerUnmarked(types, y) = marks(y)
        BY DEF Operand
      <3> HIDE DEF marks, reported
      <3>3. QED
        BY <2>3, <3>1, <3>2 DEF OneIf
    <2>5. \E sum : Counts(e, scope, sum, (marks(x) + marks(y)) + OneIf(reported))
      BY <1>4, <2>1, <2>2, ArithmeticCounts DEF Operand
    <2>6. QED
      BY <2>4, <2>5 DEF Counted
  <1>5. \/ \E v \in bases : e = At(v)
        \/ \E x, y \in bases \cup operands : e.op = "[]" /\ e.base = x /\ e.offset = y
        \/ \E x, y \in bases \cup operands : e.op = "+" /\ e.left = x /\ e.right = y
    BY DEF Computations
  <1>6. QED
    BY <1>2, <1>3, <1>4, <1>5

(* Every operation on a pointer is marked, or reported once. *)
THEOREM UnsafeIsReported ==
    ASSUME TypesAreFinite, ChecksUnfold, ProgramsAreTyped, OperandsUnfold
    PROVE  Spec => []UnsafeReported
  <1>1. SoundInv => UnsafeReported
    <2> DEFINE leaves == {Variable(x) : x \in Recent(1)} \cup {Literal}
               inner == Computations(leaves, leaves)
    <2>1. SUFFICES ASSUME SoundInv, NEW e \in Expressions
                   PROVE  Unsafes(CheckExpression(Scope(types), e).errors)
                             = UnsafeUnmarked(types, e)
      BY Zenon DEF UnsafeReported, Unsafes
    <2>2. leaves \subseteq Leaves
      <3>1. \A x \in Recent(1) : \E i \in DOMAIN Variables : x = Variables[i]
        <4>1. 1 .. Cardinality(DOMAIN types) \subseteq DOMAIN Variables
          BY <2>1, VariablesAssumption DEF SoundInv
        <4>2. QED
          BY <4>1 DEF Recent
      <3>2. QED
        BY <3>1 DEF Leaves
    <2>3. inner \subseteq Computations(Leaves, Leaves)
      <3>1. ASSUME NEW i \in inner
            PROVE  i \in Computations(Leaves, Leaves)
        BY <2>2 DEF Computations
      <3>2. QED
        BY <3>1
    <2>4. \A o \in leaves \cup inner :
             Unfolds(o) /\ InnerUnmarked(types, o) = UnsafeUnmarked(types, o)
      BY <2>2, <2>3 DEF OperandsUnfold, Unfolds
    <2>5. \A o \in leaves : Operand(o)
      BY <2>1, <2>4, LeavesCounted, RecentAreDeclared DEF Operand
    <2> HIDE DEF leaves
    <2>6. \A o \in inner : Counted(o)
      BY <2>5, ComputationsCounted
    <2> HIDE DEF inner
    <2>7. \A o \in inner : Operand(o)
      BY <2>4, <2>6 DEF Operand
    <2>8. Counted(e)
      <3>1. CASE e \in inner
        BY <2>6, <3>1
      <3>2. CASE e \in Computations(inner, {Literal})
        <4>1. Operand(Literal)
          BY <2>5 DEF leaves
        <4>2. QED
          BY <2>7, <3>2, <4>1, ComputationsCounted
      <3>3. QED
        BY <3>1, <3>2 DEF Expressions, inner, leaves
    <2>9. QED
      BY <2>8, RootCounts DEF Counted
  <1>2. QED
    BY <1>1, SoundInvariant, PTL

=============================================================================
